----------------------------- MODULE StoreSuite -----------------------------
(***************************************************************************)
(* The conformance suite of internal/store/storetest/storetest.go.  The    *)
(* suite runs each test once on an empty store with fixed data; here a     *)
(* test is a predicate on the contents `db` that the store has when the    *)
(* test starts, with its data chosen from what the tests use, so that it   *)
(* can be asked of every contents a store can reach.                       *)
(***************************************************************************)
EXTENDS StoreRecords, SequencesExt

CONSTANTS
    SaveNode(_, _), GetNode(_, _), SaveDomain(_, _), GetDomain(_, _), GetDefaultDomain(_),
    ListDomains(_), CountDomains(_), SaveUser(_, _, _), GetUser(_, _), ListUsers(_),
    SearchUsers(_, _), CountUsers(_), SaveDeliveryJob(_, _, _), UpdateDeliveryJob(_, _),
    GetDeliveryJob(_, _, _), ListPendingDeliveryJobs(_, _, _),
    ListDeliveryJobsByRecipient(_, _, _)

LOCAL NoMeta == [k \in {"skills", BadKey} |-> NULL]
LOCAL Skilled(s) == [k \in {"skills", BadKey} |-> IF k = "skills" THEN s ELSE NULL]
LOCAL Names == 1..3
LOCAL Ids(us) == [i \in DOMAIN us |-> us[i].email]
LOCAL Sorted(s) == \A i, j \in DOMAIN s : i < j => s[i] < s[j]

\* Saving all of a sequence of users or jobs.
LOCAL Users(db, us) == FoldLeft(LAMBDA d, u : SaveUser(d, u, 1).db, db, us)
LOCAL Jobs(db, js) == FoldLeft(LAMBDA d, j : SaveDeliveryJob(d, j, 1).db, db, js)

testNodeRoundTrip(db) ==
    /\ \A i \in Names : \E n \in GetNode(SaveNode(db, Node(i, 0, 0)).db, i) : n.id = i
    /\ \A i \in Names : i \notin {n.id : n \in db.nodes} => GetNode(db, i) = {}

testSaveNodeIdempotent(db) ==
    LET once == SaveNode(db, Node(1, 0, 0))
    IN once.ok /\ SaveNode(once.db, Node(1, 0, 0)) = once

testSaveNodeRequiresID(db) == ~SaveNode(db, Node(0, 0, 0)).ok

testDomainRoundTrip(db) ==
    \A n \in Names : LET w == SaveDomain(db, Domain(n, 1, FALSE))
                     IN w.ok /\ GetDomain(w.db, n) = {Domain(n, 1, FALSE)}

testDomainNotFound(db) ==
    \A n \in Names : n \notin {d.name : d \in db.domains} => GetDomain(db, n) = {}

\* On a store without a default.
testDefaultDomain(db) ==
    GetDefaultDomain(db) = {} =>
        \A n \in Names : LET w == SaveDomain(db, Domain(n, 1, TRUE))
                         IN w.ok /\ GetDefaultDomain(w.db) = {Domain(n, 1, TRUE)}

testListDomains(db) ==
    LET lst == ListDomains(db)
    IN Sorted([i \in DOMAIN lst |-> lst[i].name]) /\ ToSet(lst) = db.domains

testDomainCount(db) ==
    \A n \in Names : n \notin {d.name : d \in db.domains} =>
        CountDomains(SaveDomain(db, Domain(n, 1, FALSE)).db) = CountDomains(db) + 1

\* On a store that does not know the user: created_at, key, type and metadata
\* come back as they were written.
testUserRoundTrip(db) ==
    \A e \in Names : GetUser(db, e) = {} =>
        \A u \in {User(e, {}, 0, NoMeta, 2), User(e, {6}, 1, Skilled({2}), 2)} :
            LET w == SaveUser(db, u, 1) IN w.ok /\ GetUser(w.db, e) = {u}

\* Users that are there already take the new key, type and metadata as well.
testUserPublicKeyRoundTrip(db) ==
    \A e \in Names : \E u \in GetUser(SaveUser(db, User(e, {}, 1, NoMeta, 0), 1).db, e) : u.key = 1

testUserTypeRoundTrip(db) ==
    \A e \in Names : \E u \in GetUser(SaveUser(db, User(e, {6}, 0, NoMeta, 0), 1).db, e) : u.type = {6}

testUserMetadataRoundTrip(db) ==
    \A e \in Names : \E u \in GetUser(SaveUser(db, User(e, {}, 0, Skilled({2, 4}), 0), 1).db, e) :
        u.meta = Skilled({2, 4})

testUserNotFound(db) ==
    \A e \in Names : e \notin {u.email : u \in db.users} => GetUser(db, e) = {}

testUserCount(db) ==
    \A e \in Names : GetUser(db, e) = {} =>
        CountUsers(SaveUser(db, User(e, {}, 0, NoMeta, 0), 1).db) = CountUsers(db) + 1

testUserList(db) == Sorted(Ids(ListUsers(db))) /\ ToSet(ListUsers(db)) = db.users

testUserSearchByType(db) ==
    LET after == Users(db, <<User(1, {6}, 0, NoMeta, 0), User(2, {6}, 0, NoMeta, 0), User(3, {8}, 0, NoMeta, 0)>>)
    IN /\ Ids(SearchUsers(after, [k \in {"type"} |-> {6}])) = <<1, 2>>
       /\ Ids(SearchUsers(after, [k \in {"type"} |-> {8}])) = <<3>>

testUserSearchByMetadata(db) ==
    LET after == Users(db, <<User(1, {6}, 0, Skilled({2}), 0), User(2, {6}, 0, Skilled({4}), 0), User(3, {8}, 0, NoMeta, 0)>>)
    IN /\ Ids(SearchUsers(after, [k \in {"skills"} |-> {2}])) = <<1>>
       /\ Ids(SearchUsers(after, [k \in {"type", "skills"} |-> IF k = "type" THEN {6} ELSE {4}])) = <<2>>

testUserSearchSkillsContains(db) ==
    LET after == Users(db, <<User(1, {}, 0, Skilled({2, 4}), 0), User(2, {}, 0, Skilled({4}), 0), User(3, {}, 0, Skilled({10}), 0)>>)
    IN /\ Ids(SearchUsers(after, [k \in {"skills"} |-> {4}])) = <<1, 2>>
       /\ Ids(SearchUsers(after, [k \in {"skills"} |-> {2}])) = <<1>>

testUserSearchEmpty(db) == SearchUsers(db, [k \in {} |-> {}]) = ListUsers(db)

\* On a store that does not know the job.
testDeliveryJobRoundTrip(db) ==
    \A m \in Names : GetDeliveryJob(db, m, 1) = {} =>
        LET j == Job(m, 1, "pending", 0, 5, 1, 0, 1)
        IN GetDeliveryJob(SaveDeliveryJob(db, j, 2).db, m, 1) = {j}

testDeliveryJobUpdate(db) ==
    \A j \in db.jobs :
        \E x \in GetDeliveryJob(UpdateDeliveryJob(db, Job(j.msg, j.rcpt, "delivered", 1, 0, 0, 2, 0)).db, j.msg, j.rcpt) :
            x.status = "delivered" /\ x.attempts = 1 /\ x.delivered = 2 /\ x.max = j.max

testDeliveryJobNotFound(db) == GetDeliveryJob(db, 9, 9) = {}

\* On a store without other jobs that are due.
testDeliveryJobListPending(db) ==
    ListPendingDeliveryJobs(db, 4, 10) = <<>> =>
        LET after == Jobs(db, <<Job(7, 1, "pending", 0, 5, 3, 0, 1), Job(8, 1, "failed", 0, 5, 4, 0, 1), Job(9, 1, "pending", 0, 5, 6, 0, 1)>>)
            due == ListPendingDeliveryJobs(after, 4, 10)
        IN /\ [i \in DOMAIN due |-> due[i].msg] = <<7, 8>>
           /\ Len(ListPendingDeliveryJobs(after, 4, 1)) = 1

testDeliveryJobListByRecipient(db) ==
    LET after == Jobs(db, <<Job(7, 2, "pending", 0, 5, 1, 0, 2), Job(8, 2, "pending", 0, 5, 1, 0, 1), Job(9, 3, "pending", 0, 5, 1, 0, 2)>>)
    IN /\ \A r \in Names : ToSet(ListDeliveryJobsByRecipient(after, r, "")) = {j \in after.jobs : j.rcpt = r}
       /\ ListDeliveryJobsByRecipient(after, 3, "delivered") = <<>>

\* Run: every test that looks at the domains and nodes, the users, or the jobs.
Run(db) ==
    /\ testNodeRoundTrip(db) /\ testSaveNodeIdempotent(db) /\ testSaveNodeRequiresID(db)
    /\ testDomainRoundTrip(db) /\ testDomainNotFound(db) /\ testDefaultDomain(db)
    /\ testListDomains(db) /\ testDomainCount(db)
    /\ testUserRoundTrip(db) /\ testUserPublicKeyRoundTrip(db) /\ testUserTypeRoundTrip(db)
    /\ testUserMetadataRoundTrip(db) /\ testUserNotFound(db) /\ testUserCount(db)
    /\ testUserList(db) /\ testUserSearchByType(db) /\ testUserSearchByMetadata(db)
    /\ testUserSearchSkillsContains(db) /\ testUserSearchEmpty(db)
    /\ testDeliveryJobRoundTrip(db) /\ testDeliveryJobUpdate(db) /\ testDeliveryJobNotFound(db)
    /\ testDeliveryJobListPending(db) /\ testDeliveryJobListByRecipient(db)
=============================================================================
