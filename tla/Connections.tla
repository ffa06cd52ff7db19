---------------------------- MODULE Connections ----------------------------
(***************************************************************************)
(* One connection of SMTP or LMTP (MailSession) in each of several         *)
(* configurations.                                                         *)
(***************************************************************************)
EXTENDS Integers, Sequences, Parts

CONSTANT SessionConf    \* configurations, by part
VARIABLES authedUser, from, to, authFailures, spfResult, mail, taken, sent, reply, commands

sessionVars == <<authedUser, from, to, authFailures, spfResult, mail, taken, sent, reply, commands>>

Session(conf) == INSTANCE MailSession WITH
    Users <- conf.users, Strangers <- conf.strangers, Protocol <- conf.protocol, users <- conf.resolver,
    RelayEnabled <- conf.relay, CheckSPF <- conf.spf, VerifyDKIM <- conf.dkim,
    MaxAuthFailuresPerSession <- conf.tries, MaxRecipients <- conf.rcpts, MaxCommands <- conf.cmds

SessionInit == \E k \in DOMAIN SessionConf : k = Named(SessionConf) /\ Session(SessionConf[k])!Init
SessionNext == \E k \in DOMAIN SessionConf : part = k /\ UNCHANGED part /\ Session(SessionConf[k])!Next
SessionSpec == SessionInit /\ [][SessionNext]_<<part, sessionVars>>

-----------------------------------------------------------------------------

\* With users configured every message is sent in the name of a registered user
\* who authenticated on this connection, whatever the client does between.
SenderProven == \A p \in DOMAIN SessionConf : part = p => Session(SessionConf[p])!SenderProven

\* Nothing of a message comes from another transaction of the connection or is
\* taken on trust: it goes to exactly the recipients answered with 250 in its own
\* transaction, all with a mailbox here unless RelayEnabled; the SPF result in its
\* headers is that of its own envelope sender; and X-DKIM-Result and X-DKIM-Domain
\* say only what verified.
OwnTransaction ==
    \A p \in DOMAIN SessionConf :
        part = p => /\ Session(SessionConf[p])!OwnRecipients /\ Session(SessionConf[p])!RecipientsResolved
                    /\ Session(SessionConf[p])!OwnSPF /\ Session(SessionConf[p])!DKIMProven

\* LMTP never tells a recipient ok whose copy was not delivered.
NoFalseOK == \A p \in DOMAIN SessionConf : part = p => Session(SessionConf[p])!NoFalseOK
=============================================================================
