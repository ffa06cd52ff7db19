------------------------------ MODULE MemStore ------------------------------
(* internal/store/memstore/memstore.go: every method under the store's lock. *)
EXTENDS StoreRecords, SequencesExt

SaveNode(db, n) ==
    LET old == {x \in db.nodes : x.id = n.id}
        keep(new, f) == IF new # 0 \/ old = {} THEN new ELSE (CHOOSE x \in old : TRUE)[f]
    IN IF n.id = 0 THEN Fail(db)
       ELSE Done([db EXCEPT !.nodes =
                (@ \ old) \cup {Node(n.id, keep(n.priv, "priv"), keep(n.pub, "pub"))}])

GetNode(db, i) == {x \in db.nodes : x.id = i}

\* A new default takes the place of the old one.
SaveDomain(db, d) ==
    LET others == {x \in db.domains : x.name # d.name}
    IN IF d.name = 0 THEN Fail(db)
       ELSE Done([db EXCEPT !.domains = {d} \cup
                IF d.isDefault THEN {[x EXCEPT !.isDefault = FALSE] : x \in others} ELSE others])

GetDomain(db, n) == {x \in db.domains : x.name = n}

GetDefaultDomain(db) == {x \in db.domains : x.isDefault}

ListDomains(db) == SetToSortSeq(db.domains, LAMBDA a, b : a.name < b.name)

CountDomains(db) == Cardinality(db.domains)

\* CreatedAt of an existing user stays unless it is zero.
SaveUser(db, u, now) ==
    LET old == {x \in db.users : x.email = u.email}
        created == IF \E x \in old : x.created # 0 THEN (CHOOSE x \in old : TRUE).created
                   ELSE u.created
    IN IF u.email = 0 THEN Fail(db)
       ELSE Done([db EXCEPT !.users = (@ \ old) \cup {[u EXCEPT !.created = created]}])

GetUser(db, e) == {x \in db.users : x.email = e}

ListUsers(db) == SetToSortSeq(db.users, LAMBDA a, b : a.email < b.email)

SearchUsers(db, F) ==
    SetToSortSeq({u \in db.users : UserMatchesFilters(u, F)}, LAMBDA a, b : a.email < b.email)

CountUsers(db) == Cardinality(db.users)

\* Only the first job of a message and recipient is kept.
SaveDeliveryJob(db, j, now) ==
    LET row == [j EXCEPT !.created = OrNow(@, now), !.max = IF @ = 0 THEN 5 ELSE @]
    IN IF \E x \in db.jobs : x.msg = j.msg /\ x.rcpt = j.rcpt THEN Done(db)
       ELSE Done([db EXCEPT !.jobs = @ \cup {row}])

UpdateDeliveryJob(db, j) ==
    LET old == {x \in db.jobs : x.msg = j.msg /\ x.rcpt = j.rcpt}
        new(x) == [x EXCEPT !.status = j.status, !.attempts = j.attempts, !.due = j.due,
                            !.delivered = j.delivered]
    IN IF old = {} THEN Fail(db)
       ELSE Done([db EXCEPT !.jobs = (@ \ old) \cup {new(x) : x \in old}])

GetDeliveryJob(db, m, r) == {x \in db.jobs : x.msg = m /\ x.rcpt = r}

\* Oldest first, cut at the limit; 0 is no limit.
ListPendingDeliveryJobs(db, before, limit) ==
    LET due == SetToSortSeq({x \in db.jobs : x.status \in {"pending", "failed"} /\ x.due <= before},
                            LAMBDA a, b : a.due < b.due)
    IN IF limit > 0 /\ Len(due) > limit THEN SubSeq(due, 1, limit) ELSE due

\* Newest first; "" is every status.
ListDeliveryJobsByRecipient(db, r, status) ==
    SetToSortSeq({x \in db.jobs : x.rcpt = r /\ status \in {"", x.status}},
                 LAMBDA a, b : a.created > b.created)
=============================================================================
