------------------------------ MODULE MCStores ------------------------------
(***************************************************************************)
(* The store for model checking: the backends in lockstep (Stores), their  *)
(* migrations (Migrations), and the users and reports of delivery failures *)
(* kept in it (Accounts).  The modules share no variables; the one that    *)
(* part names moves, on the inputs part names, and the others stay as they *)
(* began.                                                                  *)
(***************************************************************************)
EXTENDS Stores

CONSTANTS Parts, Openers, Registrations, Readers

VARIABLES
    part,
    schema, step, state, refused, refusals,     \* Migrations
    db, call, report, steady, outages           \* Accounts

migrationVars == <<schema, step, state, refused, refusals>>
accountVars == <<db, call, report, steady, outages>>

-----------------------------------------------------------------------------
(* What is written to the backends.                                        *)

NoMeta == [k \in {"skills", BadKey} |-> NULL]
Skills(s) == [NoMeta EXCEPT !["skills"] = s]
Metas == {NoMeta, Skills({2, 4})}

\* Nodes and domains; users; jobs; and a little of everything for the suite.
Inputs ==
    [domains |->
        [nodes |-> {Node(1, 0, 0), Node(1, 1, 1), Node(0, 1, 1)},
         domains |-> {Domain(n, b, d) : n \in 0..2, b \in {1, 2}, d \in BOOLEAN},
         users |-> {User(0, {}, 1, NoMeta, 0)}, jobs |-> {}],
     users |->
        [nodes |-> {}, domains |-> {}, jobs |-> {},
         users |-> {User(e, t, 0, m, c) : e \in {1, 2}, t \in {{}, {6}}, m \in Metas, c \in {0, 1, 2}}],
     jobs |->
        [nodes |-> {}, domains |-> {}, users |-> {},
         jobs |-> {Job(m, 1, "pending", 0, 0, due, 0, 0) : m \in {1, 2, 3}, due \in {1, 2}}
                  \cup {Job(m, 1, s, 1, 3, 2, 0, 1) : m \in {1, 2}, s \in {"failed", "delivered"}}],
     suite |->
        [nodes |-> {Node(1, 0, 0), Node(1, 1, 1)},
         domains |-> {Domain(n, 1, d) : n \in {1, 3}, d \in BOOLEAN},
         users |-> {User(1, {8}, 0, m, 0) : m \in Metas} \cup {User(3, {6}, 1, NoMeta, 2)},
         jobs |-> {Job(4, 1, s, 1, 3, 6, 0, 0) : s \in {"failed", "delivered"}} \cup {Job(2, 3, "pending", 0, 0, 1, 0, 1)}]]

OneKey(k, v) == [x \in {k} |-> v]
Plain == {OneKey("type", {6}), OneKey("skills", {2}), OneKey("skills", {8}),
          [x \in {"type", "skills"} |-> IF x = "type" THEN {6} ELSE {4}], [x \in {} |-> {}]}

-----------------------------------------------------------------------------
(* Two nodes open one database, SQLite or PostgreSQL.                      *)

Schema(sqlite) == INSTANCE Migrations WITH
    Nodes <- Openers, Sqlite <- sqlite, MaxFaults <- 3, db <- schema, faults <- refusals

Backend == [sqlite |-> TRUE, postgres |-> FALSE]

-----------------------------------------------------------------------------
(* Users with and without keys; registrations on stores with domains, with *)
(* failing accesses, and reports while jobs change.                        *)

Requests == {User(1, {6}, 1, Skills({2}), 0), User(1, {8}, 2, Skills({4}), 0), User(1, {6}, 0, NoMeta, 0),
             User(2, {10}, 3, Skills({2}), 0)}

AccountConf ==
    [register |-> [calls |-> Registrations, readers |-> {}, faults |-> 0, jobs |-> {{}},
                   domains |-> {{}, {Domain(1, 1, FALSE)}, {Domain(1, 2, TRUE)}, {Domain(1, 2, FALSE), Domain(2, 1, TRUE)}}],
     failing  |-> [calls |-> Registrations, readers |-> {}, faults |-> 2, jobs |-> {{}}, domains |-> {{}}],
     reports  |-> [calls |-> {}, readers |-> Readers, faults |-> 0, domains |-> {{}},
                   jobs |-> {{Job(1, 1, "pending", 1, 5, 1, 0, 1), Job(2, 1, "failed", 1, 5, 1, 0, 2),
                              Job(3, 2, "failed", 2, 5, 1, 0, 1)}}]]

Account(conf) == INSTANCE Accounts WITH
    NodeID <- 1, Calls <- conf.calls, Readers <- conf.readers, DomainSets <- conf.domains, JobSets <- conf.jobs,
    MaxFaults <- conf.faults, faults <- outages

-----------------------------------------------------------------------------

StoreInit ==
    /\ part \in Parts
    /\ Init
    /\ Schema(TRUE)!Init
    /\ part \notin DOMAIN Backend => schema = Schema(TRUE)!Fresh
    /\ \E p \in DOMAIN AccountConf :
          /\ p = IF part \in DOMAIN AccountConf THEN part ELSE "reports"
          /\ Account(AccountConf[p])!Init

StoresMove(p) == part = p /\ UNCHANGED <<part, migrationVars, accountVars>>
SchemaMoves(p) == part = p /\ UNCHANGED <<part, vars, accountVars>>
AccountsMove(p) == part = p /\ UNCHANGED <<part, vars, migrationVars>>

WriteNext(p, in) ==
    \/ \E n \in in.nodes : StoresMove(p) /\ SaveNode(n)
    \/ \E d \in in.domains : StoresMove(p) /\ SaveDomain(d)
    \/ \E u \in in.users : StoresMove(p) /\ SaveUser(u)
    \/ \E j \in in.jobs : StoresMove(p) /\ SaveDeliveryJob(j)
    \/ \E j \in in.jobs : StoresMove(p) /\ UpdateDeliveryJob(j)
    \/ StoresMove(p) /\ in.users \cup in.jobs # {} /\ Tick

SchemaNext(p, sqlite) ==
    \/ \E n \in Openers : SchemaMoves(p) /\ Schema(sqlite)!Connect(n)
    \/ \E n \in Openers : SchemaMoves(p) /\ Schema(sqlite)!Migrate(n)
    \/ \E n \in Openers : SchemaMoves(p) /\ Schema(sqlite)!Refuse(n)
    \/ \E n \in Openers : SchemaMoves(p) /\ Schema(sqlite)!Crash(n)
    \/ \E n \in Openers : SchemaMoves(p) /\ Schema(sqlite)!Close(n)

AccountNext(p, conf) ==
    \/ \E c \in conf.calls, req \in Requests : AccountsMove(p) /\ Account(conf)!RegisterUser(c, req)
    \/ \E c \in conf.calls : AccountsMove(p) /\ Account(conf)!UpdateUser(c)
    \/ \E c \in conf.calls : AccountsMove(p) /\ Account(conf)!Register(c)
    \/ \E c \in conf.calls : AccountsMove(p) /\ Account(conf)!Reread(c)
    \/ \E c \in conf.calls : AccountsMove(p) /\ Account(conf)!RereadFails(c)
    \/ \E c \in conf.calls : AccountsMove(p) /\ Account(conf)!SaveKey(c)
    \/ \E c \in conf.calls : AccountsMove(p) /\ Account(conf)!AccessFails(c)
    \/ \E r \in conf.readers, x \in db.jobs : AccountsMove(p) /\ Account(conf)!ListDeliveryFailures(r, x.rcpt)
    \/ \E r \in conf.readers : AccountsMove(p) /\ Account(conf)!ListStatus(r)
    \/ \E j \in db.jobs, s \in {"failed", "dead", "delivered"} : AccountsMove(p) /\ Account(conf)!JobChanges(j, s)

StoreNext ==
    \/ \E p \in DOMAIN Inputs : WriteNext(p, Inputs[p])
    \/ \E p \in DOMAIN Backend : SchemaNext(p, Backend[p])
    \/ \E p \in DOMAIN AccountConf : AccountNext(p, AccountConf[p])

StoreSpec == StoreInit /\ [][StoreNext]_<<part, vars, migrationVars, accountVars>>

-----------------------------------------------------------------------------

\* (store.go) The contract by which one store stands in for another, after any
\* calls: the two SQL stores accept the same writes and hold the same rows, the
\* memory store differs from them only where MemStandsIn says; no store has two
\* default domains; a search finds the same users in each; and the sweeper gets
\* the due jobs oldest first, none passed over at the limit.
StoreContract ==
    SqlStoresAgree /\ MemStandsIn /\ AtMostOneDefault /\ SearchAgrees /\ OldestJobsFirst

\* (storetest.go) The conformance suite passes whatever the three backends hold
\* when it starts, not only on empty ones.
SuiteConforms == part = "suite" => Conforms

\* The migrations are idempotent, however the Connects of two nodes interleave and
\* crash: Connect fails only if the database refused a statement, and once one has
\* returned, every table and column the statements use is there and stays.
MigrationsConverge == Schema(TRUE)!FailsOnlyIfRefused /\ Schema(TRUE)!SchemaReady

\* A registration that returned ok is stored with its public key and the rest of
\* its request, as long as nobody else registers that address and no access fails;
\* and it changes no route: Lookup follows the domain and the default only.
RegistrationHolds ==
    part = "register" => /\ Account(AccountConf.register)!KeyPersisted
                         /\ Account(AccountConf.register)!LookupByDomain

\* However calls interleave and fail, a registered user stays registered, and
\* every field of a profile was sent in a request for that user.
ProfilesOwn ==
    \A p \in {"register", "failing"} : part = p => Account(AccountConf[p])!ProfilesOwn

\* A report misses no job that is failing all the time, although the dispatcher
\* may give up on it between the two queries.
NoFailureMissed == part = "reports" => Account(AccountConf.reports)!NoFailureMissed
=============================================================================
