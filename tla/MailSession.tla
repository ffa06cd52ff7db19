---------------------------- MODULE MailSession ----------------------------
(***************************************************************************)
(* One SMTP connection (session in internal/smtp/server.go) or one LMTP    *)
(* connection (lmtpSession in lmtp.go), command by command, and what the   *)
(* mailbox service is handed.                                              *)
(*                                                                         *)
(* An address is a person and a spelling: the user store knows the stored  *)
(* spelling only, EqualFold takes every spelling of a person for the same. *)
(* A message is what Data tells apart: whether it parses, whether it is    *)
(* too large, its From header, its DKIM signatures and its In-Reply-To.    *)
(* The mailbox service may deliver to some of the recipients only.         *)
(* The protocol of go-smtp is external: RCPT needs MAIL, DATA needs both,  *)
(* AUTH is taken once, and the session is reset after DATA and by RSET.    *)
(***************************************************************************)
EXTENDS Integers, Sequences

CONSTANTS
    Users, Strangers,            \* people with and without a mailbox here
    Protocol,                    \* "smtp" or "lmtp"
    users,                       \* TRUE: a UserResolver is configured
    RelayEnabled, CheckSPF, VerifyDKIM,
    MaxAuthFailuresPerSession,   \* as configured, before applyDefaults
    MaxRecipients,               \* go-smtp's limit
    MaxCommands                  \* bound on the commands of a run

Address == [who : Users \cup Strangers, spelling : {"stored", "other"}]
NoAddress == [who |-> "nobody", spelling |-> "stored"]

VARIABLES
    authedUser, from, to, authFailures, spfResult,   \* the fields of session
    mail,       \* go-smtp has seen MAIL
    taken,      \* the recipients answered with 250 since the last reset
    sent,       \* what SendMessage was called with, and what became of it
    reply,      \* the code of the last reply
    commands

vars == <<authedUser, from, to, authFailures, spfResult, mail, taken, sent, reply, commands>>

Init ==
    /\ authedUser = NoAddress /\ from = NoAddress /\ to = <<>> /\ authFailures = 0 /\ spfResult = "none"
    /\ mail = FALSE /\ taken = <<>> /\ sent = <<>> /\ reply = 220 /\ commands = 0

Command(code) == commands < MaxCommands /\ commands' = commands + 1 /\ reply' = code

\* storeUserResolver.ResolveUser, strings.EqualFold.
ResolveUser(a) == a.who \in Users /\ a.spelling = "stored"
EqualFold(a, b) == a.who = b.who

\* applyDefaults: 0 becomes 5, scaled down to 2 here.
DefaultAuthFailures == 2
AuthLimit == IF MaxAuthFailuresPerSession = 0 THEN DefaultAuthFailures ELSE MaxAuthFailuresPerSession

\* What SPF says of a sender at this connection's address: external; users'
\* domains let it send, strangers' do not.
SPF(a) == IF a.who \in Users THEN "pass" ELSE "fail"

\* Auth with an address; right is what the CredentialValidator says of the
\* password, or TRUE without one.
Auth(a, right) ==
    /\ Protocol = "smtp" /\ users /\ authedUser = NoAddress
    /\ IF ResolveUser(a) /\ right
       THEN authedUser' = a /\ UNCHANGED authFailures /\ Command(235)
       ELSE /\ authFailures' = authFailures + 1 /\ UNCHANGED authedUser
            /\ Command(IF authFailures + 1 >= AuthLimit THEN 421 ELSE 502)
    /\ UNCHANGED <<from, to, spfResult, mail, taken, sent>>

\* (variant) whoever is authenticated may send for anyone
MailAny(a) ==
    /\ IF users /\ authedUser = NoAddress
       THEN Command(530) /\ UNCHANGED <<from, spfResult, mail>>
       ELSE /\ from' = a /\ mail' = TRUE /\ Command(250)
            /\ spfResult' = IF CheckSPF THEN SPF(a) ELSE spfResult
    /\ UNCHANGED <<authedUser, to, authFailures, taken, sent>>

\* session.Mail: authentication, the envelope sender, SPF.
Mail(a) ==
    /\ IF Protocol = "smtp" /\ users /\ authedUser = NoAddress
       THEN Command(530) /\ UNCHANGED <<from, spfResult, mail>>
       ELSE IF Protocol = "smtp" /\ authedUser # NoAddress /\ ~EqualFold(a, authedUser)
       THEN Command(553) /\ UNCHANGED <<from, spfResult, mail>>
       ELSE /\ from' = a /\ mail' = TRUE /\ Command(250)
            /\ spfResult' = IF Protocol = "smtp" /\ CheckSPF THEN SPF(a) ELSE spfResult
    /\ UNCHANGED <<authedUser, to, authFailures, taken, sent>>

\* session.Rcpt; lmtpSession.Rcpt takes any recipient.
Rcpt(a) ==
    /\ mail /\ Len(to) < MaxRecipients
    /\ IF Protocol = "smtp" /\ users /\ ~RelayEnabled /\ ~ResolveUser(a)
       THEN Command(550) /\ UNCHANGED <<to, taken>>
       ELSE to' = Append(to, a) /\ taken' = Append(taken, a) /\ Command(250)
    /\ UNCHANGED <<authedUser, from, authFailures, spfResult, mail, sent>>

\* (variant) the recipients stay
ResetSender ==
    /\ from' = NoAddress /\ mail' = FALSE /\ taken' = <<>> /\ UNCHANGED to

\* session.Reset, which go-smtp calls with its own reset.
Reset ==
    /\ from' = NoAddress /\ mail' = FALSE /\ taken' = <<>> /\ to' = <<>>

Rset ==
    /\ mail /\ Reset /\ Command(250)
    /\ UNCHANGED <<authedUser, authFailures, spfResult, sent>>

Signatures == [domain : Users \cup Strangers, valid : BOOLEAN]

\* The signatures a message may carry.
SignatureLists == UNION {[1 .. k -> Signatures] : k \in 0 .. 2}

\* The DKIM result of a message: all signatures pass, and the first that does
\* gives the domain.
DKIM(sigs) ==
    LET good == {k \in DOMAIN sigs : sigs[k].valid}
        first == CHOOSE k \in good : \A j \in good : k <= j
    IN [result |-> IF sigs = <<>> \/ ~VerifyDKIM THEN "none"
                   ELSE IF good = DOMAIN sigs THEN "pass" ELSE "fail",
        domain |-> IF good = {} \/ ~VerifyDKIM THEN "nobody" ELSE sigs[first].domain]

\* The sender Data takes: the authenticated user, else the envelope, else the
\* From header.
Sender(header) ==
    IF authedUser # NoAddress THEN authedUser ELSE IF from # NoAddress THEN from ELSE header

\* buildThreadResolver: the parent is looked for in the first recipient's box.
Delivered(i, a) == \E k \in DOMAIN sent[i].got : sent[i].got[k] = a
ReplyTo(i) == IF i \in DOMAIN sent /\ Delivered(i, to[1]) THEN i ELSE 0

\* (variant) the error of the mailbox service is dropped
LMTPStatusOK(n) == [k \in DOMAIN to |-> "ok"]

\* LMTPData: every recipient is told the one result of SendMessage.
LMTPStatus(n) == [k \in DOMAIN to |-> IF n = Len(to) THEN "ok" ELSE "error"]

\* SendMessage delivers to the first n recipients and reports an error unless
\* these are all of them.
Send(header, sigs, parent, n) ==
    LET d == DKIM(sigs)
    IN sent' = Append(sent, [sender |-> Sender(header), envelope |-> from, to |-> to, taken |-> taken,
                             spf |-> spfResult, dkim |-> d.result, domain |-> d.domain, sigs |-> sigs,
                             parent |-> ReplyTo(parent), got |-> SubSeq(to, 1, n), status |-> LMTPStatus(n)])

Data(header, sigs, parent, n) ==
    /\ mail /\ to # <<>> /\ n <= Len(to)
    /\ Send(header, sigs, parent, n)
    /\ Command(IF n = Len(to) THEN 250 ELSE 554)
    /\ Reset
    /\ UNCHANGED <<authedUser, authFailures, spfResult>>

\* A message that does not parse, or whose body reaches the cap.
DataRefused ==
    /\ mail /\ to # <<>>
    /\ \E code \in {552, 554} : Command(code)
    /\ Reset
    /\ UNCHANGED <<authedUser, authFailures, spfResult, sent>>

Next ==
    \/ \E a \in Address, right \in BOOLEAN : Auth(a, right)
    \/ \E a \in Address \cup {NoAddress} : Mail(a)
    \/ \E a \in Address : Rcpt(a)
    \/ Rset \/ DataRefused
    \/ \E header \in {a \in Address : a.spelling = "stored"},
          sigs \in IF VerifyDKIM THEN SignatureLists ELSE {<<>>},
          parent \in 0 .. 1, n \in 0 .. MaxRecipients : Data(header, sigs, parent, n)

Spec == Init /\ [][Next]_vars

-----------------------------------------------------------------------------

\* Whatever a client does between AUTH and DATA, with users configured every
\* message is sent in the name of a registered user who authenticated on this
\* connection, and whose address was the envelope sender.
SenderProven ==
    \A i \in DOMAIN sent :
        Protocol = "smtp" /\ users =>
            /\ ResolveUser(sent[i].sender) /\ sent[i].sender = authedUser
            /\ EqualFold(sent[i].envelope, sent[i].sender)

\* A message goes to exactly the recipients that were answered with 250 in its
\* own transaction: none of an earlier one on the same connection, none refused.
OwnRecipients ==
    \A i \in DOMAIN sent : sent[i].to = sent[i].taken

\* Without RelayEnabled every recipient of a message has a mailbox here.
RecipientsResolved ==
    \A i \in DOMAIN sent :
        Protocol = "smtp" /\ users /\ ~RelayEnabled =>
            \A k \in DOMAIN sent[i].to : ResolveUser(sent[i].to[k])

\* The SPF result in the headers belongs to the envelope sender of the message
\* and not to that of an earlier transaction.
OwnSPF ==
    \A i \in DOMAIN sent :
        Protocol = "smtp" /\ CheckSPF => sent[i].spf = SPF(sent[i].envelope)

\* X-DKIM-Result says pass only if every signature verified, and X-DKIM-Domain
\* never names a domain whose signature did not.
DKIMProven ==
    \A i \in DOMAIN sent :
        /\ sent[i].dkim = "pass" => \A k \in DOMAIN sent[i].sigs : sent[i].sigs[k].valid
        /\ sent[i].domain # "nobody" =>
              \E k \in DOMAIN sent[i].sigs : sent[i].sigs[k] = [domain |-> sent[i].domain, valid |-> TRUE]

\* (lmtp.go: "Per-recipient delivery status is reported via StatusCollector so
\* the upstream MTA can handle partial delivery") A recipient is told ok exactly
\* if its copy was delivered.
StatusPerRecipient ==
    \A i \in DOMAIN sent : \A k \in DOMAIN sent[i].to :
        sent[i].status[k] = "ok" <=> k <= Len(sent[i].got)

\* LMTP never tells a recipient ok whose copy was not delivered.
NoFalseOK ==
    \A i \in DOMAIN sent : \A k \in DOMAIN sent[i].to :
        sent[i].status[k] = "ok" => k <= Len(sent[i].got)

\* (server.go: "MaxAuthFailuresPerSession disconnects with 421 after N failed
\* AUTH attempts in a single connection. 0 = unlimited") With 0 configured no
\* number of failures is answered with 421.
UnlimitedWhenZero ==
    MaxAuthFailuresPerSession = 0 => reply # 421

Messages ==
    [sender : Address \cup {NoAddress}, envelope : Address \cup {NoAddress}, to : Seq(Address), taken : Seq(Address),
     spf : {"none", "pass", "fail"}, dkim : {"none", "pass", "fail"}, domain : Users \cup Strangers \cup {"nobody"},
     sigs : Seq(Signatures), parent : Nat, got : Seq(Address), status : Seq({"ok", "error"})]

TypeOK ==
    /\ authedUser \in Address \cup {NoAddress} /\ from \in Address \cup {NoAddress}
    /\ to \in Seq(Address) /\ taken \in Seq(Address) /\ sent \in Seq(Messages)
    /\ spfResult \in {"none", "pass", "fail"} /\ mail \in BOOLEAN

\* The inductive invariant behind what is said of the messages: what the session
\* keeps between two commands belongs to the transaction in progress, and none
\* begins before authentication.
SessionInv ==
    /\ TypeOK /\ to = taken
    /\ Protocol = "smtp" /\ users =>
          /\ IF authedUser = NoAddress THEN ~mail /\ sent = <<>> ELSE ResolveUser(authedUser)
          /\ mail => EqualFold(from, authedUser)
          /\ ~RelayEnabled => \A k \in DOMAIN to : ResolveUser(to[k])
    /\ mail /\ Protocol = "smtp" /\ CheckSPF => spfResult = SPF(from)
    /\ SenderProven /\ OwnRecipients /\ RecipientsResolved /\ OwnSPF /\ DKIMProven /\ NoFalseOK
=============================================================================
