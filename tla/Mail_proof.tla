----------------------------- MODULE Mail_proof -----------------------------
(***************************************************************************)
(* How mail comes in, proved for any calls, users, addresses and limits.   *)
(* First one connection: SessionInv is inductive, for SMTP and for LMTP.   *)
(* Then the listeners: ListenerInv is, for the TCP and the Unix listener.  *)
(***************************************************************************)
EXTENDS Listener, Connections, TLAPS

\* What a sequence is.
LEMMA LenProperties ==
    ASSUME NEW S, NEW seq \in Seq(S)
    PROVE  Len(seq) \in Nat /\ seq \in [1..Len(seq) -> S] /\ DOMAIN seq = 1..Len(seq)
  OBVIOUS

\* The next element of a sequence.
LEMMA AppendProperties ==
    ASSUME NEW S, NEW s \in Seq(S), NEW e \in S, NEW t, t = Append(s, e)
    PROVE  /\ t \in Seq(S) /\ DOMAIN t = DOMAIN s \cup {Len(s) + 1}
           /\ t[Len(s) + 1] = e /\ \A d \in DOMAIN s : t[d] = s[d]
<1>1. Len(s) \in Nat /\ DOMAIN s = 1..Len(s)
  BY LenProperties
<1>2. t \in Seq(S) /\ Len(t) = Len(s) + 1 /\ t[Len(s) + 1] = e /\ \A d \in 1..Len(s) : t[d] = s[d]
  BY <1>1
<1>3. DOMAIN t = 1..Len(t)
  BY <1>2, LenProperties
<1> QED
  BY <1>1, <1>2, <1>3

\* A connection begins with nothing proven, taken or sent.
LEMMA SessionBegins == ASSUME NEW conf, Session(conf)!Init PROVE Session(conf)!SessionInv
<1>1. DOMAIN sent = {} /\ DOMAIN to = {} /\ to = taken /\ ~mail
  BY DEF Session!Init
<1>2. Session(conf)!TypeOK
  <2>1. mail \in BOOLEAN
    BY Zenon DEF Session!Init
  <2>2. <<>> \in Seq(Session(conf)!Address) /\ <<>> \in Seq(Session(conf)!Messages)
    OBVIOUS
  <2> QED
    BY <2>1, <2>2 DEF Session!Init, Session!TypeOK
<1> QED
  BY <1>1, <1>2 DEF Session!Init, Session!SessionInv, Session!SenderProven, Session!OwnRecipients,
     Session!RecipientsResolved, Session!OwnSPF, Session!DKIMProven, Session!NoFalseOK

\* AUTH keeps the invariant: only registered users become authenticated.
LEMMA AuthStep ==
    ASSUME NEW conf, Session(conf)!SessionInv, NEW a \in Session(conf)!Address, NEW right \in BOOLEAN,
           Session(conf)!Auth(a, right)
    PROVE  Session(conf)!SessionInv'
  BY DEF Session!Auth, Session!SessionInv, Session!TypeOK, Session!SenderProven, Session!OwnRecipients,
     Session!RecipientsResolved, Session!OwnSPF, Session!DKIMProven, Session!NoFalseOK

\* MAIL keeps it: the sender and the SPF result belong together from here on.
LEMMA MailStep ==
    ASSUME NEW conf, Session(conf)!SessionInv, NEW a \in Session(conf)!Address \cup {Session(conf)!NoAddress},
           Session(conf)!Mail(a)
    PROVE  Session(conf)!SessionInv'
<1>1. Session(conf)!TypeOK'
  <2>1. Session(conf)!SPF(a) \in {"pass", "fail"}
    BY DEF Session!SPF
  <2>2. mail' \in BOOLEAN
    BY Zenon DEF Session!Mail, Session!SessionInv, Session!TypeOK
  <2> QED
    BY <2>1, <2>2 DEF Session!Mail, Session!SessionInv, Session!TypeOK
<1> QED
  BY <1>1 DEF Session!Mail, Session!SessionInv, Session!TypeOK, Session!SenderProven, Session!OwnRecipients,
     Session!RecipientsResolved, Session!OwnSPF, Session!DKIMProven, Session!NoFalseOK

\* RCPT keeps it: an address is taken exactly when it is answered with 250.
LEMMA RcptStep ==
    ASSUME NEW conf, Session(conf)!SessionInv, NEW a \in Session(conf)!Address, Session(conf)!Rcpt(a)
    PROVE  Session(conf)!SessionInv'
<1>1. to' = to \/ (to' = Append(to, a) /\ (conf.protocol = "smtp" /\ conf.resolver /\ ~conf.relay => Session(conf)!ResolveUser(a)))
  BY DEF Session!Rcpt
<1>2. to' \in Seq(Session(conf)!Address) /\ taken' = to'
      /\ (conf.protocol = "smtp" /\ conf.resolver /\ ~conf.relay => \A k \in DOMAIN to' : Session(conf)!ResolveUser(to'[k]))
  <2>1. CASE to' = to
    BY <2>1 DEF Session!Rcpt, Session!SessionInv, Session!TypeOK
  <2>2. CASE to' # to
    <3>1. /\ to' \in Seq(Session(conf)!Address) /\ DOMAIN to' = DOMAIN to \cup {Len(to) + 1}
          /\ to'[Len(to) + 1] = a /\ \A d \in DOMAIN to : to'[d] = to[d]
      <4>1. to \in Seq(Session(conf)!Address) /\ to' = Append(to, a)
        BY <1>1, <2>2 DEF Session!SessionInv, Session!TypeOK
      <4> QED
        BY <4>1, AppendProperties
    <3> QED
      BY <1>1, <2>2, <3>1 DEF Session!Rcpt, Session!SessionInv
  <2> QED
    BY <2>1, <2>2
<1> QED
  BY <1>2, SMTT(30) DEF Session!Rcpt, Session!SessionInv, Session!TypeOK, Session!SenderProven, Session!OwnRecipients,
     Session!RecipientsResolved, Session!OwnSPF, Session!DKIMProven, Session!NoFalseOK

\* RSET keeps it, and so does a DATA that is refused: the transaction is gone.
LEMMA ResetStep ==
    ASSUME NEW conf, Session(conf)!SessionInv, Session(conf)!Reset, UNCHANGED <<authedUser, authFailures, spfResult, sent>>
    PROVE  Session(conf)!SessionInv'
<1>1. DOMAIN to' = {} /\ to' = taken' /\ ~mail'
  BY DEF Session!Reset
<1>2. Session(conf)!TypeOK'
  <2>1. mail' \in BOOLEAN
    BY Zenon DEF Session!Reset
  <2>2. <<>> \in Seq(Session(conf)!Address)
    OBVIOUS
  <2> QED
    BY <2>1, <2>2 DEF Session!Reset, Session!SessionInv, Session!TypeOK
<1> QED
  BY <1>1, <1>2 DEF Session!Reset, Session!SessionInv, Session!SenderProven, Session!OwnRecipients,
     Session!RecipientsResolved, Session!OwnSPF, Session!DKIMProven, Session!NoFalseOK

\* Of the one or two signatures that verified there is a first.
LEMMA LeastExists == ASSUME NEW T \in SUBSET (1..2), T # {} PROVE \E k \in T : \A j \in T : k <= j
<1>1. CASE 1 \in T
  BY <1>1
<1>2. CASE 1 \notin T
  <2>1. T \subseteq {2}
    BY <1>2
  <2>2. 2 \in T
    BY <2>1
  <2> QED
    BY <2>1, <2>2
<1> QED
  BY <1>1, <1>2

\* What the headers say of DKIM is what verified.
LEMMA DKIMStep ==
    ASSUME NEW conf, NEW sigs \in Session(conf)!SignatureLists, NEW d, d = Session(conf)!DKIM(sigs)
    PROVE  /\ sigs \in Seq(Session(conf)!Signatures)
           /\ d.result \in {"none", "pass", "fail"}
           /\ d.domain \in conf.users \cup conf.strangers \cup {"nobody"}
           /\ d.result = "pass" => \A k \in DOMAIN sigs : sigs[k].valid
           /\ d.domain # "nobody" => \E k \in DOMAIN sigs : sigs[k] = [domain |-> d.domain, valid |-> TRUE]
<1> DEFINE good == {k \in DOMAIN sigs : sigs[k].valid}
           first == CHOOSE k \in good : \A j \in good : k <= j
           S == Session(conf)!Signatures
<1>1. PICK n \in 0..2 : sigs \in [1..n -> S]
  BY DEF Session!SignatureLists
<1>2. sigs \in Seq(S)
  BY <1>1
<1>3. good # {} => first \in good
  <2>1. good \in SUBSET (1..2)
    BY <1>1
  <2> QED
    BY <2>1, LeastExists, Zenon
<1>4. d = [result |-> IF sigs = <<>> \/ ~conf.dkim THEN "none" ELSE IF good = DOMAIN sigs THEN "pass" ELSE "fail",
           domain |-> IF good = {} \/ ~conf.dkim THEN "nobody" ELSE sigs[first].domain]
  BY DEF Session!DKIM
<1> HIDE DEF first
<1>5. ASSUME NEW k \in good
      PROVE  sigs[k] \in S /\ sigs[k].domain \in conf.users \cup conf.strangers /\ sigs[k] = [domain |-> sigs[k].domain, valid |-> TRUE]
  BY <1>1 DEF Session!Signatures
<1>6. d.result \in {"none", "pass", "fail"} /\ d.domain \in {"nobody", sigs[first].domain}
      /\ (d.result = "pass" => good = DOMAIN sigs) /\ (d.domain # "nobody" => good # {} /\ d.domain = sigs[first].domain)
      /\ (good = {} => d.domain = "nobody")
  BY <1>4
<1> QED
  BY <1>2, <1>3, <1>5, <1>6, SMTT(30)

\* DATA keeps it: what is sent is what this transaction gathered.
LEMMA DataStep ==
    ASSUME NEW conf, Session(conf)!SessionInv, NEW header \in Session(conf)!Address, NEW sigs,
           sigs \in Session(conf)!SignatureLists,
           NEW parent \in 0..1, NEW n \in Nat, Session(conf)!Data(header, sigs, parent, n)
    PROVE  Session(conf)!SessionInv'
<1> DEFINE d == Session(conf)!DKIM(sigs)
           m == [sender |-> Session(conf)!Sender(header), envelope |-> from, to |-> to, taken |-> taken,
                 spf |-> spfResult, dkim |-> d.result, domain |-> d.domain, sigs |-> sigs,
                 parent |-> Session(conf)!ReplyTo(parent), got |-> SubSeq(to, 1, n),
                 status |-> Session(conf)!LMTPStatus(n)]
<1>1. /\ mail /\ to # <<>> /\ n <= Len(to) /\ sent' = Append(sent, m)
      /\ Session(conf)!Reset /\ UNCHANGED <<authedUser, authFailures, spfResult>>
  BY DEF Session!Data, Session!Send
<1>2. /\ sigs \in Seq(Session(conf)!Signatures)
      /\ d.result \in {"none", "pass", "fail"}
      /\ d.domain \in conf.users \cup conf.strangers \cup {"nobody"}
      /\ d.result = "pass" => \A k \in DOMAIN sigs : sigs[k].valid
      /\ d.domain # "nobody" => \E k \in DOMAIN sigs : sigs[k] = [domain |-> d.domain, valid |-> TRUE]
  BY DKIMStep, SMTT(30)
<1>3. to \in Seq(Session(conf)!Address) /\ Len(to) \in Nat /\ DOMAIN to = 1..Len(to)
  BY LenProperties DEF Session!SessionInv, Session!TypeOK
<1>4. SubSeq(to, 1, n) \in Seq(Session(conf)!Address) /\ Len(SubSeq(to, 1, n)) = n
  BY <1>1, <1>3
<1>5. Session(conf)!LMTPStatus(n) \in Seq({"ok", "error"})
      /\ \A k \in DOMAIN to : Session(conf)!LMTPStatus(n)[k] = "ok" => n = Len(to)
  <2>1. Session(conf)!LMTPStatus(n) = [k \in 1..Len(to) |-> IF n = Len(to) THEN "ok" ELSE "error"]
    BY <1>3 DEF Session!LMTPStatus
  <2>2. Session(conf)!LMTPStatus(n) \in [1..Len(to) -> {"ok", "error"}]
    BY <2>1
  <2>3. Session(conf)!LMTPStatus(n) \in Seq({"ok", "error"})
    BY <1>3, <2>2
  <2> QED
    BY <1>3, <2>1, <2>3, Zenon
<1>6. Session(conf)!ReplyTo(parent) \in Nat
  BY DEF Session!ReplyTo
<1>7. Session(conf)!Sender(header) \in Session(conf)!Address \cup {Session(conf)!NoAddress}
      /\ (authedUser # Session(conf)!NoAddress => Session(conf)!Sender(header) = authedUser)
  BY DEF Session!Sender, Session!SessionInv, Session!TypeOK
<1> HIDE DEF d
<1>8. m \in Session(conf)!Messages
  BY <1>2, <1>3, <1>4, <1>5, <1>6, <1>7, Zenon DEF Session!Messages, Session!SessionInv, Session!TypeOK
<1>9. PICK x : x = m
  BY Zenon
<1>a. /\ x.sender = Session(conf)!Sender(header) /\ x.envelope = from /\ x.to = to /\ x.taken = taken
      /\ x.spf = spfResult /\ x.dkim = d.result /\ x.domain = d.domain /\ x.sigs = sigs
      /\ x.got = SubSeq(to, 1, n) /\ x.status = Session(conf)!LMTPStatus(n)
  BY <1>9
<1>b. x \in Session(conf)!Messages /\ sent' = Append(sent, x) /\ sent \in Seq(Session(conf)!Messages)
  BY <1>1, <1>8, <1>9, SMTT(30) DEF Session!SessionInv, Session!TypeOK
<1> HIDE DEF m
<1>c. /\ sent' \in Seq(Session(conf)!Messages) /\ DOMAIN sent' = DOMAIN sent \cup {Len(sent) + 1}
      /\ sent'[Len(sent) + 1] = x /\ \A i \in DOMAIN sent : sent'[i] = sent[i]
  BY <1>b, AppendProperties, SMTT(30)
<1>d. DOMAIN to' = {} /\ to' = taken' /\ ~mail'
  BY <1>1 DEF Session!Reset
<1>e. Session(conf)!TypeOK'
  <2>1. mail' \in BOOLEAN
    BY <1>1, Zenon DEF Session!Reset
  <2>2. <<>> \in Seq(Session(conf)!Address)
    OBVIOUS
  <2> QED
    BY <1>1, <1>c, <2>1, <2>2 DEF Session!Reset, Session!SessionInv, Session!TypeOK
<1>f. Session(conf)!SenderProven'
  BY <1>1, <1>7, <1>a, <1>c, SMTT(30) DEF Session!SessionInv, Session!SenderProven
<1>g. Session(conf)!OwnRecipients' /\ Session(conf)!RecipientsResolved'
  BY <1>1, <1>a, <1>c, SMTT(30) DEF Session!SessionInv, Session!OwnRecipients, Session!RecipientsResolved
<1>h. Session(conf)!OwnSPF'
  BY <1>1, <1>a, <1>c, SMTT(30) DEF Session!SessionInv, Session!OwnSPF
<1>i. Session(conf)!DKIMProven'
  <2> SUFFICES ASSUME NEW i \in DOMAIN sent'
               PROVE  /\ sent'[i].dkim = "pass" => \A k \in DOMAIN sent'[i].sigs : sent'[i].sigs[k].valid
                      /\ sent'[i].domain # "nobody" =>
                            \E k \in DOMAIN sent'[i].sigs : sent'[i].sigs[k] = [domain |-> sent'[i].domain, valid |-> TRUE]
    BY DEF Session!DKIMProven
  <2>1. CASE i \in DOMAIN sent
    BY <1>c, <2>1, SMTT(30) DEF Session!SessionInv, Session!DKIMProven
  <2>2. CASE i \notin DOMAIN sent
    BY <1>2, <1>a, <1>c, <2>2, Zenon
  <2> QED
    BY <2>1, <2>2, Zenon
<1>j. Session(conf)!NoFalseOK'
  <2> SUFFICES ASSUME NEW i \in DOMAIN sent', NEW k \in DOMAIN sent'[i].to, sent'[i].status[k] = "ok"
               PROVE  k <= Len(sent'[i].got)
    BY DEF Session!NoFalseOK
  <2>1. CASE i \in DOMAIN sent
    BY <1>c, <2>1 DEF Session!SessionInv, Session!NoFalseOK
  <2>2. CASE i \notin DOMAIN sent
    <3>1. sent'[i] = x
      BY <1>c, <2>2
    <3>2. k \in DOMAIN to /\ Session(conf)!LMTPStatus(n)[k] = "ok" /\ sent'[i].got = SubSeq(to, 1, n)
      BY <1>a, <3>1
    <3>3. n = Len(to)
      BY <1>5, <3>2
    <3> QED
      BY <1>3, <1>4, <3>2, <3>3
  <2> QED
    BY <2>1, <2>2
<1> QED
  BY <1>1, <1>d, <1>e, <1>f, <1>g, <1>h, <1>i, <1>j DEF Session!SessionInv

\* The invariant of the session of the part that moves.
SessionsInv == \A p \in DOMAIN SessionConf : part = p => Session(SessionConf[p])!SessionInv

\* Whatever part moves, the session in progress keeps its invariant.
LEMMA SessionStep == SessionsInv /\ [SessionNext]_<<part, sessionVars>> => SessionsInv'
<1> SUFFICES ASSUME SessionsInv, [SessionNext]_<<part, sessionVars>>,
                    NEW p \in DOMAIN SessionConf, part' = p
             PROVE  Session(SessionConf[p])!SessionInv'
  BY DEF SessionsInv
<1>0. PICK conf : conf = SessionConf[p]
  OBVIOUS
<1> SUFFICES Session(conf)!SessionInv'
  BY <1>0
<1>1. part' = part
  BY DEF SessionNext
<1>2. Session(conf)!SessionInv
  BY <1>0, <1>1 DEF SessionsInv
<1>3. CASE UNCHANGED sessionVars
  BY <1>2, <1>3, SMTT(30) DEF sessionVars, Session!SessionInv, Session!TypeOK, Session!SenderProven, Session!OwnRecipients,
     Session!RecipientsResolved, Session!OwnSPF, Session!DKIMProven, Session!NoFalseOK
<1>4. CASE SessionNext
  <2>1. Session(conf)!Next
    BY <1>0, <1>1, <1>4 DEF SessionNext
  <2>3. ASSUME NEW a \in Session(conf)!Address, NEW right \in BOOLEAN, Session(conf)!Auth(a, right)
        PROVE  Session(conf)!SessionInv'
    BY <1>2, <2>3, AuthStep
  <2>4. ASSUME NEW a \in Session(conf)!Address \cup {Session(conf)!NoAddress}, Session(conf)!Mail(a)
        PROVE  Session(conf)!SessionInv'
    BY <1>2, <2>4, MailStep
  <2>5. ASSUME NEW a \in Session(conf)!Address, Session(conf)!Rcpt(a) PROVE Session(conf)!SessionInv'
    BY <1>2, <2>5, RcptStep
  <2>6. ASSUME Session(conf)!Rset \/ Session(conf)!DataRefused PROVE Session(conf)!SessionInv'
    BY <1>2, <2>6, ResetStep DEF Session!Rset, Session!DataRefused
  <2>7. ASSUME NEW header \in Session(conf)!Address, NEW sigs \in Session(conf)!SignatureLists \cup {<<>>},
               NEW parent \in 0..1, NEW n \in 0..conf.rcpts, Session(conf)!Data(header, sigs, parent, n)
        PROVE  Session(conf)!SessionInv'
    <3>1. <<>> \in Session(conf)!SignatureLists
      <4>1. 0 \in 0..2 /\ <<>> \in [1..0 -> Session(conf)!Signatures]
        OBVIOUS
      <4> QED
        BY <4>1 DEF Session!SignatureLists
    <3>2. n \in Nat
      OBVIOUS
    <3> QED
      BY <1>2, <2>7, <3>1, <3>2, DataStep
  <2> QED
    BY <2>1, <2>3, <2>4, <2>5, <2>6, <2>7, Zenon DEF Session!Next
<1> QED
  BY <1>3, <1>4

\* The session keeps its invariant in every configuration.
THEOREM SessionInvariant == SessionSpec => []SessionsInv
<1>1. SessionInit => SessionsInv
  BY SessionBegins DEF SessionInit, Named, SessionsInv
<1> QED
  BY <1>1, SessionStep, PTL DEF SessionSpec

\* With users configured every message is sent in the name of a registered user
\* who authenticated on this connection.
THEOREM SenderProvenHolds == SessionSpec => []SenderProven
<1>1. SessionsInv => SenderProven
  BY SMTT(30) DEF SessionsInv, SenderProven, Session!SessionInv
<1> QED
  BY <1>1, SessionInvariant, PTL

\* Nothing of a message comes from another transaction or is taken on trust:
\* recipients, SPF result and DKIM headers are those of its own.
THEOREM OwnTransactionHolds == SessionSpec => []OwnTransaction
<1>1. SessionsInv => OwnTransaction
  BY DEF SessionsInv, OwnTransaction, Session!SessionInv
<1> QED
  BY <1>1, SessionInvariant, PTL

\* LMTP never tells a recipient ok whose copy was not delivered.
THEOREM NoFalseOKHolds == SessionSpec => []NoFalseOK
<1>1. SessionsInv => NoFalseOK
  BY DEF SessionsInv, NoFalseOK, Session!SessionInv
<1> QED
  BY <1>1, SessionInvariant, PTL

\* Nothing is started and no call was made.
LEMMA ListenerInit == Init => ListenerInv
  BY ListenerAssumption, SMT DEF Init, ListenerInv, TypeOK, ServerInv, CallInv,
     CloseInv, Closing, IsRunning

\* A start preserves the invariant: it is the only step that makes a Server current.
LEMMA StartStep ==
    ASSUME ListenerInv, NEW c \in Calls, StartSMTP(c), ~(Graceful /\ Closing)
    PROVE  ListenerInv'
  <1> USE ListenerAssumption DEF ListenerInv, servers, calls
  <1>1. TypeOK'
    BY SMTT(30) DEF TypeOK, ServerInv, CallInv, StartSMTP, Start, BindPath, AddressFree, Return
  <1>2. ASSUME NEW s \in Calls PROVE ServerInv(s)'
    BY <1>2, SMTT(30) DEF TypeOK, ServerInv, CallInv, IsRunning, StartSMTP, Start, BindPath, AddressFree, Return
  <1>3. ASSUME NEW k \in Calls \cup {Closer} PROVE CallInv(k)'
    BY <1>3, SMTT(30) DEF TypeOK, ServerInv, CallInv, IsRunning, StartSMTP, Start, BindPath, AddressFree, Return
  <1>4. CloseInv'
    BY SMTT(30) DEF TypeOK, ServerInv, CallInv, CloseInv, Closing, Quiet, IsRunning, StartSMTP, Start, BindPath, AddressFree, Return
  <1>5. (broke # {} => faults > 0)'
    BY SMTT(30) DEF TypeOK, StartSMTP, Start, BindPath, AddressFree, Return
  <1> QED
    BY <1>1, <1>2, <1>3, <1>4, <1>5

\* So does the lookup of a stop ...
LEMMA LookUpStep ==
    ASSUME ListenerInv, NEW c \in Calls, LookUp(c), ~(Graceful /\ Closing)
    PROVE  ListenerInv'
  <1> USE ListenerAssumption DEF ListenerInv, servers, calls
  <1>1. TypeOK'
    BY SMTT(30) DEF TypeOK, ServerInv, CallInv, LookUp
  <1>2. ASSUME NEW s \in Calls PROVE ServerInv(s)'
    BY <1>2, SMTT(30) DEF TypeOK, ServerInv, CallInv, IsRunning, LookUp
  <1>3. ASSUME NEW k \in Calls \cup {Closer} PROVE CallInv(k)'
    BY <1>3, SMTT(30) DEF TypeOK, ServerInv, CallInv, IsRunning, LookUp
  <1>4. CloseInv'
    BY SMTT(30) DEF TypeOK, ServerInv, CallInv, CloseInv, Closing, Quiet, IsRunning, LookUp
  <1>5. (broke # {} => faults > 0)'
    BY SMTT(30) DEF TypeOK, LookUp
  <1> QED
    BY <1>1, <1>2, <1>3, <1>4, <1>5

\* ... and that of Close, which finds the calls quiet.
LEMMA CloseStep ==
    ASSUME ListenerInv, LookUp(Closer), Graceful => Quiet
    PROVE  ListenerInv'
  <1> USE ListenerAssumption DEF ListenerInv, servers, calls
  <1>1. TypeOK'
    BY SMTT(30) DEF TypeOK, ServerInv, CallInv, LookUp
  <1>2. ASSUME NEW s \in Calls PROVE ServerInv(s)'
    BY <1>2, SMTT(30) DEF TypeOK, ServerInv, CallInv, IsRunning, LookUp
  <1>3. ASSUME NEW k \in Calls \cup {Closer} PROVE CallInv(k)'
    BY <1>3, SMTT(30) DEF TypeOK, ServerInv, CallInv, IsRunning, LookUp
  <1>4. CloseInv'
    BY SMTT(30) DEF TypeOK, ServerInv, CallInv, CloseInv, Closing, Quiet, IsRunning, LookUp
  <1>5. (broke # {} => faults > 0)'
    BY SMTT(30) DEF TypeOK, LookUp
  <1> QED
    BY <1>1, <1>2, <1>3, <1>4, <1>5

\* The steps of a stop.
LEMMA CheckStep ==
    ASSUME ListenerInv, NEW c \in Calls \cup {Closer}, Check(c)
    PROVE  ListenerInv'
  <1> USE ListenerAssumption DEF ListenerInv, servers, calls
  <1>1. TypeOK'
    BY SMTT(30) DEF TypeOK, ServerInv, CallInv, Check, Goto, Return
  <1>2. ASSUME NEW s \in Calls PROVE ServerInv(s)'
    BY <1>2, SMTT(30) DEF TypeOK, ServerInv, CallInv, IsRunning, Check, Goto, Return
  <1>3. ASSUME NEW k \in Calls \cup {Closer} PROVE CallInv(k)'
    BY <1>3, SMTT(30) DEF TypeOK, ServerInv, CallInv, IsRunning, Check, Goto, Return
  <1>4. CloseInv'
    BY SMTT(30) DEF TypeOK, ServerInv, CallInv, CloseInv, Closing, Quiet, IsRunning, Check, Goto, Return
  <1>5. (broke # {} => faults > 0)'
    BY SMTT(30) DEF TypeOK, Check, Goto, Return
  <1> QED
    BY <1>1, <1>2, <1>3, <1>4, <1>5

\* ... the mark that the server stops ...
LEMMA StopStep ==
    ASSUME ListenerInv, NEW c \in Calls \cup {Closer}, Stop(c)
    PROVE  ListenerInv'
  <1> USE ListenerAssumption DEF ListenerInv, servers, calls
  <1>1. TypeOK'
    BY SMTT(30) DEF TypeOK, ServerInv, CallInv, Stop, Goto, Return
  <1>2. ASSUME NEW s \in Calls PROVE ServerInv(s)'
    BY <1>2, SMTT(30) DEF TypeOK, ServerInv, CallInv, IsRunning, Stop, Goto, Return
  <1>3. ASSUME NEW k \in Calls \cup {Closer} PROVE CallInv(k)'
    BY <1>3, SMTT(30) DEF TypeOK, ServerInv, CallInv, IsRunning, Stop, Goto, Return
  <1>4. CloseInv'
    BY SMTT(30) DEF TypeOK, ServerInv, CallInv, CloseInv, Closing, Quiet, IsRunning, Stop, Goto, Return
  <1>5. (broke # {} => faults > 0)'
    BY SMTT(30) DEF TypeOK, Stop, Goto, Return
  <1> QED
    BY <1>1, <1>2, <1>3, <1>4, <1>5

\* ... the close of its listener ...
LEMMA CloseListenerStep ==
    ASSUME ListenerInv, NEW c \in Calls \cup {Closer}, CloseListener(c)
    PROVE  ListenerInv'
  <1> USE ListenerAssumption DEF ListenerInv, servers, calls
  <1>1. TypeOK'
    BY SMTT(30) DEF TypeOK, ServerInv, CallInv, CloseListener, Goto
  <1>2. ASSUME NEW s \in Calls PROVE ServerInv(s)'
    BY <1>2, SMTT(30) DEF TypeOK, ServerInv, CallInv, IsRunning, CloseListener, Goto
  <1>3. ASSUME NEW k \in Calls \cup {Closer} PROVE CallInv(k)'
    BY <1>3, SMTT(30) DEF TypeOK, ServerInv, CallInv, IsRunning, CloseListener, Goto
  <1>4. CloseInv'
    BY SMTT(30) DEF TypeOK, ServerInv, CallInv, CloseInv, Closing, Quiet, IsRunning, CloseListener, Goto
  <1>5. (broke # {} => faults > 0)'
    BY SMTT(30) DEF TypeOK, CloseListener, Goto
  <1> QED
    BY <1>1, <1>2, <1>3, <1>4, <1>5

\* ... the wait for its loop ...
LEMMA WaitStep ==
    ASSUME ListenerInv, NEW c \in Calls \cup {Closer}, Wait(c)
    PROVE  ListenerInv'
  <1> USE ListenerAssumption DEF ListenerInv, servers, calls
  <1>1. TypeOK'
    BY SMTT(30) DEF TypeOK, ServerInv, CallInv, Wait, Return
  <1>2. ASSUME NEW s \in Calls PROVE ServerInv(s)'
    BY <1>2, SMTT(30) DEF TypeOK, ServerInv, CallInv, IsRunning, Wait, Return
  <1>3. ASSUME NEW k \in Calls \cup {Closer} PROVE CallInv(k)'
    BY <1>3, SMTT(30) DEF TypeOK, ServerInv, CallInv, IsRunning, Wait, Return
  <1>4. CloseInv'
    BY SMTT(30) DEF TypeOK, ServerInv, CallInv, CloseInv, Closing, Quiet, IsRunning, Wait, Return
  <1>5. (broke # {} => faults > 0)'
    BY SMTT(30) DEF TypeOK, Wait, Return
  <1> QED
    BY <1>1, <1>2, <1>3, <1>4, <1>5

\* The steps of an accept loop.
LEMMA RegisterStep ==
    ASSUME ListenerInv, NEW z \in Calls, Register(z)
    PROVE  ListenerInv'
  <1> USE ListenerAssumption DEF ListenerInv, servers, calls
  <1>1. TypeOK'
    BY SMTT(30) DEF TypeOK, ServerInv, CallInv, Register
  <1>2. ASSUME NEW s \in Calls PROVE ServerInv(s)'
    BY <1>2, SMTT(30) DEF TypeOK, ServerInv, CallInv, IsRunning, Register
  <1>3. ASSUME NEW k \in Calls \cup {Closer} PROVE CallInv(k)'
    BY <1>3, SMTT(30) DEF TypeOK, ServerInv, CallInv, IsRunning, Register
  <1>4. CloseInv'
    BY SMTT(30) DEF TypeOK, ServerInv, CallInv, CloseInv, Closing, Quiet, IsRunning, Register
  <1>5. (broke # {} => faults > 0)'
    BY SMTT(30) DEF TypeOK, Register
  <1> QED
    BY <1>1, <1>2, <1>3, <1>4, <1>5

\* ... the end of the loop ...
LEMMA LoopEndsStep ==
    ASSUME ListenerInv, NEW z \in Calls, LoopEnds(z)
    PROVE  ListenerInv'
  <1> USE ListenerAssumption DEF ListenerInv, servers, calls
  <1>1. TypeOK'
    BY SMTT(30) DEF TypeOK, ServerInv, CallInv, LoopEnds
  <1>2. ASSUME NEW s \in Calls PROVE ServerInv(s)'
    BY <1>2, SMTT(30) DEF TypeOK, ServerInv, CallInv, IsRunning, LoopEnds
  <1>3. ASSUME NEW k \in Calls \cup {Closer} PROVE CallInv(k)'
    BY <1>3, SMTT(30) DEF TypeOK, ServerInv, CallInv, IsRunning, LoopEnds
  <1>4. CloseInv'
    BY SMTT(30) DEF TypeOK, ServerInv, CallInv, CloseInv, Closing, Quiet, IsRunning, LoopEnds
  <1>5. (broke # {} => faults > 0)'
    BY SMTT(30) DEF TypeOK, LoopEnds
  <1> QED
    BY <1>1, <1>2, <1>3, <1>4, <1>5

\* ... a loop that breaks ...
LEMMA LoopBreaksStep ==
    ASSUME ListenerInv, NEW z \in Calls, LoopBreaks(z)
    PROVE  ListenerInv'
  <1> USE ListenerAssumption DEF ListenerInv, servers, calls
  <1>1. TypeOK'
    BY SMTT(30) DEF TypeOK, ServerInv, CallInv, LoopBreaks
  <1>2. ASSUME NEW s \in Calls PROVE ServerInv(s)'
    BY <1>2, SMTT(30) DEF TypeOK, ServerInv, CallInv, IsRunning, LoopBreaks
  <1>3. ASSUME NEW k \in Calls \cup {Closer} PROVE CallInv(k)'
    BY <1>3, SMTT(30) DEF TypeOK, ServerInv, CallInv, IsRunning, LoopBreaks
  <1>4. CloseInv'
    BY SMTT(30) DEF TypeOK, ServerInv, CallInv, CloseInv, Closing, Quiet, IsRunning, LoopBreaks
  <1>5. (broke # {} => faults > 0)'
    BY SMTT(30) DEF TypeOK, LoopBreaks
  <1> QED
    BY <1>1, <1>2, <1>3, <1>4, <1>5

\* ... and the report of that end.
LEMMA DoneStep ==
    ASSUME ListenerInv, NEW z \in Calls, Done(z)
    PROVE  ListenerInv'
  <1> USE ListenerAssumption DEF ListenerInv, servers, calls
  <1>1. TypeOK'
    BY SMTT(30) DEF TypeOK, ServerInv, CallInv, Done
  <1>2. ASSUME NEW s \in Calls PROVE ServerInv(s)'
    BY <1>2, SMTT(30) DEF TypeOK, ServerInv, CallInv, IsRunning, Done
  <1>3. ASSUME NEW k \in Calls \cup {Closer} PROVE CallInv(k)'
    BY <1>3, SMTT(30) DEF TypeOK, ServerInv, CallInv, IsRunning, Done
  <1>4. CloseInv'
    BY SMTT(30) DEF TypeOK, ServerInv, CallInv, CloseInv, Closing, Quiet, IsRunning, Done
  <1>5. (broke # {} => faults > 0)'
    BY SMTT(30) DEF TypeOK, Done
  <1> QED
    BY <1>1, <1>2, <1>3, <1>4, <1>5

\* Every step preserves the invariant.
LEMMA ListenerKeeps == ListenerInv /\ [Next]_vars => ListenerInv'
  <1> SUFFICES ASSUME ListenerInv, [Next]_vars PROVE ListenerInv'
    OBVIOUS
  <1>1. ASSUME NEW c \in Calls \cup {Closer}, Stopping(c) PROVE ListenerInv'
    BY <1>1, CheckStep, StopStep, CloseListenerStep, WaitStep DEF Stopping
  <1>2. ASSUME NEW s \in Calls, Accepting(s) \/ LoopBreaks(s) PROVE ListenerInv'
    BY <1>2, RegisterStep, LoopEndsStep, DoneStep, LoopBreaksStep DEF Accepting
  <1>3. CASE UNCHANGED vars
    BY <1>3 DEF vars, servers, calls, ListenerInv, TypeOK, ServerInv, CallInv, CloseInv, Closing, Quiet, IsRunning
  <1> QED
    BY <1>1, <1>2, <1>3, StartStep, LookUpStep, CloseStep DEF Next

\* The strengthened invariant holds in every reachable state.
THEOREM ListenerInvariant == Spec => []ListenerInv
  BY ListenerInit, ListenerKeeps, PTL DEF Spec

\* (node.go:243-256, server.go:299) No listener accepts connections without
\* being the one GetSMTPStatus reports, however starts and stops overlap.
THEOREM ReportedHolds == Spec => []Reported
  <1>1. ListenerInv => Reported
    BY ListenerAssumption, SMTT(30) DEF ListenerInv, TypeOK, ServerInv, Reported, GetSMTPStatus, IsRunning
  <1> QED
    BY <1>1, ListenerInvariant, PTL

\* (smtp/server.go:298-299) A Stop that returned nil has closed the listener and
\* waited for its accept loop.
THEOREM StopMeansStoppedHolds == Spec => []StopMeansStopped
  <1>1. ListenerInv => StopMeansStopped
    BY ListenerAssumption, SMTT(30) DEF ListenerInv, TypeOK, ServerInv, CallInv, StopMeansStopped
  <1> QED
    BY <1>1, ListenerInvariant, PTL

\* (smtp/server.go:311-324) Without faults no start is an internal error: a port
\* is free once its listener counts as stopped.
THEOREM StartableAfterStopHolds == Spec => []StartableAfterStop
  <1>1. ListenerInv => StartableAfterStop
    BY ListenerAssumption, SMTT(30) DEF ListenerInv, TypeOK, CallInv, StartableAfterStop, Started, Stopped, StartCode
  <1> QED
    BY <1>1, ListenerInvariant, PTL

\* (lmtp.go:146-157) Removing the socket file at the end of an accept loop never
\* takes the file of a later listener.
THEOREM SocketPresentHolds == Spec => []SocketPresent
  <1>1. ListenerInv => SocketPresent
    BY ListenerAssumption, SMTT(30) DEF ListenerInv, TypeOK, ServerInv, SocketPresent
  <1> QED
    BY <1>1, ListenerInvariant, PTL

\* (cmd/serve.go:692-696, node.go:330-345) After a graceful stop of the gRPC server
\* Close leaves no listener behind.
THEOREM ClosedMeansStoppedHolds ==
    ASSUME Graceful
    PROVE  Spec => []ClosedMeansStopped
  <1>1. ListenerInv => ClosedMeansStopped
    <2> SUFFICES ASSUME ListenerInv, pc[Closer] = "end", NEW s \in Calls, IsRunning(s)
                 PROVE  FALSE
      BY Zenon DEF ClosedMeansStopped
    <2>1. s = current
      BY DEF ListenerInv, ServerInv
    <2>2. ~IsRunning(current)
      <3>1. Closing
        BY SMT DEF Closing
      <3> QED
        BY <3>1 DEF ListenerInv, CloseInv
    <2> QED
      BY <2>1, <2>2
  <1> QED
    BY <1>1, ListenerInvariant, PTL
=============================================================================
