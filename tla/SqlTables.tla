----------------------------- MODULE SqlTables -----------------------------
(***************************************************************************)
(* What the SQL statements of the two SQL stores do to a table: the part   *)
(* of the database engines that both stores rely on.                       *)
(***************************************************************************)
EXTENDS StoreRecords

\* INSERT ... ON CONFLICT(key) DO UPDATE SET cols, the rest of the row staying.
Upsert(T, row, key, cols) ==
    LET old == {x \in T : x[key] = row[key]}
    IN IF old = {} THEN T \cup {row}
       ELSE (T \ old) \cup {[f \in DOMAIN x |-> IF f \in cols THEN row[f] ELSE x[f]] : x \in old}

\* INSERT ... ON CONFLICT(msg, rcpt) DO NOTHING.
InsertIgnore(T, row) ==
    IF \E x \in T : x.msg = row.msg /\ x.rcpt = row.rcpt THEN T ELSE T \cup {row}

\* UPDATE ... SET cols WHERE the columns in keys are those of row.
Update(T, row, keys, cols) ==
    {IF \A k \in keys : x[k] = row[k] THEN [f \in DOMAIN x |-> IF f \in cols THEN row[f] ELSE x[f]] ELSE x : x \in T}

\* ORDER BY col, ORDER BY col DESC: rows with the same value in any one order.
Listings(S) == {s \in [1 .. Cardinality(S) -> S] : \A x \in S : \E i \in DOMAIN s : s[i] = x}
OrderBy(S, col) == CHOOSE s \in Listings(S) : \A i, j \in DOMAIN s : i < j => s[i][col] <= s[j][col]
OrderByDesc(S, col) == CHOOSE s \in Listings(S) : \A i, j \in DOMAIN s : i < j => s[i][col] >= s[j][col]

\* The unique index on is_default rejects a second default domain.
UniqueDefault(T) == Cardinality({x \in T : x.isDefault}) <= 1

\* v LIKE '%f%': NULL is not TRUE, whatever the pattern.  SQLite compares
\* without regard to case, PostgreSQL with.
LikeNoCase(v, f) == v # NULL /\ \A w \in f : \E x \in v : x \div 2 = w \div 2
LikeCase(v, f) == v # NULL /\ f \subseteq v
=============================================================================
