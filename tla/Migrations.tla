----------------------------- MODULE Migrations -----------------------------
(***************************************************************************)
(* Connect of the two SQL stores: internal/store/sqlite/store.go and       *)
(* internal/store/sqlstore/store.go.  Several nodes may connect to one     *)
(* database at the same time, whose tables may be those of any older       *)
(* version or what a crashed Connect left behind.  A database is a         *)
(* function from table names to columns; no column, no table.              *)
(***************************************************************************)
EXTENDS Naturals, Sequences, FiniteSets, SequencesExt

CONSTANTS
    Nodes,          \* processes that open the database
    Sqlite,         \* TRUE: sqlite, FALSE: sqlstore (PostgreSQL)
    MaxFaults       \* bound on refused statements and crashes

VARIABLES
    db,         \* the tables of the database
    step,       \* step[n]: statements that Connect of n has executed
    state,      \* state[n]: "idle", "migrating", "connected" or "failed"
    refused,    \* nodes whose last Connect met a refused statement
    faults

vars == <<db, step, state, refused, faults>>

Tables == {"nodes", "domains", "users", "jobs", "agents"}

create(t, cols) == [op |-> "create", table |-> t, cols |-> cols]
index(t, col) == [op |-> "index", table |-> t, cols |-> {col}]
add(t, col) == [op |-> "add", table |-> t, cols |-> {col}]
drop(t) == [op |-> "drop", table |-> t, cols |-> {}]

\* The columns the statements of the stores use.
NodeColumns == {"id", "private_key", "public_key"}
DomainColumns == {"name", "node_id", "is_default"}
UserColumns == {"email", "type", "public_key", "metadata", "created_at"}
JobColumns == {"message_id", "recipient_id", "endpoint_url", "status", "attempts", "max_attempts",
               "last_error", "next_retry_at", "delivered_at", "created_at", "updated_at"}

schema == <<create("nodes", NodeColumns), create("domains", DomainColumns),
            index("domains", "is_default"), create("users", UserColumns),
            create("jobs", JobColumns), index("jobs", "next_retry_at")>>

\* (variant) phase 3 was forgotten.
migrationsOld == <<add("nodes", "private_key"), add("nodes", "public_key")>>

migrations == <<add("nodes", "private_key"), add("nodes", "public_key"),
                add("users", "public_key"), add("users", "type"), drop("agents")>>

\* What one call of ExecContext executes: SQLite commits the statements of the
\* schema one by one, PostgreSQL runs them in one transaction.
Batches ==
    LET single(s) == [i \in DOMAIN s |-> <<s[i]>>]
    IN (IF Sqlite THEN single(schema) ELSE <<schema>>) \o single(migrations)

\* IF NOT EXISTS and IF EXISTS; ADD COLUMN of sqlite has neither.
Exec(d, s) ==
    CASE s.op = "create" -> IF d[s.table] = {} THEN [d EXCEPT ![s.table] = s.cols] ELSE d
      [] s.op = "index" -> d
      [] s.op = "add" -> [d EXCEPT ![s.table] = @ \cup s.cols]
      [] s.op = "drop" -> [d EXCEPT ![s.table] = {}]

\* The error of a statement that the database does not refuse: an index or a new
\* column needs its table, and in SQLite a column cannot be added twice.
Err(d, s) ==
    IF s.op \in {"index", "add"} /\ d[s.table] = {} THEN "no such table"
    ELSE IF s.op = "index" /\ ~(s.cols \subseteq d[s.table]) THEN "no such column"
    ELSE IF s.op = "add" /\ Sqlite /\ s.cols \subseteq d[s.table] THEN "duplicate column name"
    ELSE "nil"

\* Databases of older versions: without webhooks, without users' keys, with the
\* agents table, without node keys; and no database at all.
Fresh == [t \in Tables |-> {}]
Version4 == [Fresh EXCEPT !["nodes"] = NodeColumns, !["domains"] = DomainColumns, !["users"] = UserColumns]
Version2 == [Version4 EXCEPT !["users"] = @ \ {"type", "public_key"}, !["agents"] = {"email"}]
Version1 == [Version2 EXCEPT !["nodes"] = {"id"}]

Init ==
    /\ db \in {Fresh, Version1, Version2, Version4}
    /\ step = [n \in Nodes |-> 0]
    /\ state = [n \in Nodes |-> "idle"]
    /\ refused = {}
    /\ faults = 0

Connect(n) ==
    /\ state[n] \in {"idle", "failed"}
    /\ state' = [state EXCEPT ![n] = "migrating"]
    /\ step' = [step EXCEPT ![n] = 0]
    /\ refused' = refused \ {n}
    /\ UNCHANGED <<db, faults>>

\* migrate goes on after a statement that worked, or that added a column twice.
Tolerant(d, s) == Err(d, s) \in {"nil", "duplicate column name"}

\* One ExecContext of migrate.
Migrate(n) ==
    /\ state[n] = "migrating" /\ step[n] < Len(Batches)
    /\ LET b == Batches[step[n] + 1]
           after(i) == FoldLeft(Exec, db, SubSeq(b, 1, i))
       IN IF \A i \in DOMAIN b : Tolerant(after(i - 1), b[i])
          THEN /\ db' = after(Len(b))
               /\ step' = [step EXCEPT ![n] = @ + 1]
               /\ state' = [state EXCEPT ![n] = IF step[n] + 1 = Len(Batches) THEN "connected" ELSE @]
          ELSE state' = [state EXCEPT ![n] = "failed"] /\ UNCHANGED <<db, step>>
    /\ UNCHANGED <<refused, faults>>

\* The database refuses the statement (locked, connection lost): Connect returns
\* the error.
Refuse(n) ==
    /\ state[n] = "migrating" /\ faults < MaxFaults
    /\ state' = [state EXCEPT ![n] = "failed"]
    /\ refused' = refused \cup {n}
    /\ faults' = faults + 1
    /\ UNCHANGED <<db, step>>

\* The process stops in the middle, or later when it closes the store.
Crash(n) ==
    /\ state[n] = "migrating" /\ faults < MaxFaults
    /\ state' = [state EXCEPT ![n] = "idle"]
    /\ faults' = faults + 1
    /\ UNCHANGED <<db, step, refused>>

Close(n) ==
    /\ state[n] = "connected"
    /\ state' = [state EXCEPT ![n] = "idle"]
    /\ UNCHANGED <<db, step, refused, faults>>

Next == \E n \in Nodes : Connect(n) \/ Migrate(n) \/ Refuse(n) \/ Crash(n) \/ Close(n)

Spec == Init /\ [][Next]_vars

-----------------------------------------------------------------------------

\* Once Connect of some node has returned without error, the database has every
\* table and column the statements of the store use, and keeps them while other
\* nodes migrate, fail and crash.
SchemaReady ==
    \A n \in Nodes : state[n] = "connected" =>
        /\ NodeColumns \subseteq db["nodes"] /\ DomainColumns \subseteq db["domains"]
        /\ UserColumns \subseteq db["users"] /\ JobColumns \subseteq db["jobs"]

\* (sqlite/store.go:94-95) The migrations are idempotent: whatever an earlier or
\* a concurrent Connect has done already, Connect fails only if the database
\* refused a statement.
FailsOnlyIfRefused == \A n \in Nodes : state[n] = "failed" => n \in refused

=============================================================================
