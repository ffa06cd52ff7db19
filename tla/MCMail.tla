------------------------------- MODULE MCMail -------------------------------
(***************************************************************************)
(* How mail comes in, for model checking: the listeners (Listener), one    *)
(* connection (Connections) and the lockout of addresses (Lockouts).       *)
(***************************************************************************)
EXTENDS Listener, Connections, Lockouts

MailInit == part \in Parts /\ Init /\ SessionInit /\ LockoutInit
MailNext ==
    \/ part = "listener" /\ Next /\ UNCHANGED <<part, sessionVars, lockoutVars>>
    \/ SessionNext /\ UNCHANGED <<vars, lockoutVars>>
    \/ LockoutNext /\ UNCHANGED <<vars, sessionVars>>
MailSpec == MailInit /\ [][MailNext]_<<part, vars, sessionVars, lockoutVars>>

-----------------------------------------------------------------------------

\* With configured users; without, where two messages need six commands; with
\* signatures, where one is enough; and LMTP.
MCSessionConf ==
    [smtp |-> [users |-> {"alice", "bob"}, strangers |-> {"carol"}, protocol |-> "smtp", resolver |-> TRUE,
               relay |-> FALSE, spf |-> TRUE, dkim |-> FALSE, tries |-> 1, rcpts |-> 2, cmds |-> 9],
     open |-> [users |-> {"alice"}, strangers |-> {"carol"}, protocol |-> "smtp", resolver |-> FALSE,
               relay |-> FALSE, spf |-> TRUE, dkim |-> FALSE, tries |-> 1, rcpts |-> 1, cmds |-> 7],
     dkim |-> [users |-> {"alice"}, strangers |-> {"carol"}, protocol |-> "smtp", resolver |-> FALSE,
               relay |-> FALSE, spf |-> TRUE, dkim |-> TRUE, tries |-> 1, rcpts |-> 1, cmds |-> 4],
     lmtp |-> [users |-> {"alice"}, strangers |-> {"carol"}, protocol |-> "lmtp", resolver |-> FALSE,
               relay |-> FALSE, spf |-> FALSE, dkim |-> FALSE, tries |-> 1, rcpts |-> 2, cmds |-> 7]]

\* The counters in the process, with two addresses; and in Redis, which may be
\* unavailable once.
MCLockoutConf ==
    [memory |-> [store |-> "memory", sessions |-> {<<1, 1>>, <<1, 2>>, <<2, 1>>}, limit |-> 2, lock |-> 5, ttl |-> 2,
                 delay |-> 1, clock |-> 4, tries |-> 4, faults |-> 0, restarts |-> 1],
     redis  |-> [store |-> "redis", sessions |-> {<<1, 1>>, <<1, 2>>}, limit |-> 2, lock |-> 3, ttl |-> 3,
                 delay |-> 1, clock |-> 3, tries |-> 6, faults |-> 1, restarts |-> 1]]
=============================================================================
