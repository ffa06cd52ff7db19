---------------------------- MODULE StoreRecords ----------------------------
(***************************************************************************)
(* The records of internal/store/store.go and the results of the Store     *)
(* interface.  Tables are sets of records.  Names, ids and times are       *)
(* numbers in their order, 0 standing for the empty string and the zero    *)
(* time.  A text is the set of its words ("web-search,image-gen"), a word  *)
(* is a number whose last bit tells an upper case spelling from a lower    *)
(* case one; NULL is a metadata key that is not there.                     *)
(***************************************************************************)
EXTENDS Integers, FiniteSets, Sequences

NULL == {-1}

Node(i, priv, pub) == [id |-> i, priv |-> priv, pub |-> pub]

Domain(n, node, def) == [name |-> n, node |-> node, isDefault |-> def]

User(e, t, k, m, c) == [email |-> e, type |-> t, key |-> k, meta |-> m, created |-> c]

Job(m, r, s, a, max, due, done, c) ==
    [msg |-> m, rcpt |-> r, status |-> s, attempts |-> a, max |-> max, due |-> due,
     delivered |-> done, created |-> c]

Empty == [nodes |-> {}, domains |-> {}, users |-> {}, jobs |-> {}]

\* What a write returns: the store afterwards and whether err is nil.
Done(db) == [db |-> db, ok |-> TRUE]
Fail(db) == [db |-> db, ok |-> FALSE]

OrNow(t, now) == IF t = 0 THEN now ELSE t

\* IsValidMetaKey: of the keys used here all but one.
BadKey == "badkey"
IsValidMetaKey(k) == k # BadKey

\* strings.Contains(v, f) for a filter of at most one word.
ContainsText(v, f) == f \subseteq v

\* UserMatchesFilters.
UserMatchesFilters(u, F) ==
    \A k \in DOMAIN F :
        IF k = "type" THEN ContainsText(u.type, F[k])
        ELSE ContainsText(IF u.meta[k] = NULL THEN {} ELSE u.meta[k], F[k])
=============================================================================
