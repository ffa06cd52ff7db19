--------------------------- MODULE PostgresStore ---------------------------
(* internal/store/sqlstore/store.go: every method is one statement. *)
EXTENDS SqlTables

SaveNode(db, n) ==
    IF n.id = 0 THEN Fail(db)
    ELSE Done([db EXCEPT !.nodes = Upsert(@, n, "id", {f \in {"priv", "pub"} : n[f] # 0})])

GetNode(db, i) == {x \in db.nodes : x.id = i}

\* (variant) is_default is not among the columns a conflict updates.
SaveDomainOnce(db, d) ==
    LET T == Upsert(db.domains, d, "name", {"node"})
    IN IF UniqueDefault(T) THEN Done([db EXCEPT !.domains = T]) ELSE Fail(db)

SaveDomain(db, d) ==
    LET T == Upsert(db.domains, d, "name", {"node", "isDefault"})
    IN IF UniqueDefault(T) THEN Done([db EXCEPT !.domains = T]) ELSE Fail(db)

GetDomain(db, n) == {x \in db.domains : x.name = n}

GetDefaultDomain(db) == {x \in db.domains : x.isDefault}

ListDomains(db) == OrderBy(db.domains, "name")

CountDomains(db) == Cardinality(db.domains)

\* (variant) created_at is among the columns a conflict updates.
SaveUserAnew(db, u, now) ==
    Done([db EXCEPT !.users = Upsert(@, [u EXCEPT !.created = OrNow(@, now)], "email",
                                     {"type", "key", "meta", "created"})])

SaveUser(db, u, now) ==
    Done([db EXCEPT !.users = Upsert(@, [u EXCEPT !.created = OrNow(@, now)], "email",
                                     {"type", "key", "meta"})])

GetUser(db, e) == {x \in db.users : x.email = e}

ListUsers(db) == OrderBy(db.users, "email")

SearchUsers(db, F) ==
    LET used == {k \in DOMAIN F : k = "type" \/ IsValidMetaKey(k)}
    IN OrderBy({u \in db.users : \A k \in used :
            LikeCase(IF k = "type" THEN u.type ELSE u.meta[k], F[k])}, "email")

CountUsers(db) == Cardinality(db.users)

SaveDeliveryJob(db, j, now) ==
    Done([db EXCEPT !.jobs = InsertIgnore(@,
            [j EXCEPT !.created = OrNow(@, now), !.max = IF @ = 0 THEN 5 ELSE @])])

UpdateDeliveryJob(db, j) ==
    Done([db EXCEPT !.jobs = Update(@, j, {"msg", "rcpt"},
                                    {"status", "attempts", "due", "delivered"})])

GetDeliveryJob(db, m, r) == {x \in db.jobs : x.msg = m /\ x.rcpt = r}

ListPendingDeliveryJobs(db, before, limit) ==
    LET due == OrderBy({x \in db.jobs : x.status \in {"pending", "failed"} /\ x.due <= before}, "due")
    IN IF limit > 0 /\ Len(due) > limit THEN SubSeq(due, 1, limit) ELSE due

ListDeliveryJobsByRecipient(db, r, status) ==
    OrderByDesc({x \in db.jobs : x.rcpt = r /\ status \in {"", x.status}}, "created")
=============================================================================
