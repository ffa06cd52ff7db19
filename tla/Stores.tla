------------------------------- MODULE Stores -------------------------------
(***************************************************************************)
(* The three backends of internal/store side by side: the same sequence of *)
(* writes goes to each of them, and what they answer and what they hold    *)
(* afterwards is compared.                                                 *)
(***************************************************************************)
EXTENDS StoreRecords, SequencesExt

CONSTANTS
    NodeInputs, DomainInputs, UserInputs, JobInputs,    \* records to write
    Filters,        \* filters to search users with
    MaxTime         \* bound on the clock

ASSUME StoresAssumption == MaxTime \in Nat \ {0}

M == INSTANCE MemStore
L == INSTANCE SqliteStore
P == INSTANCE PostgresStore

\* The conformance suite, run against each of them.
MemSuite == INSTANCE StoreSuite WITH
    SaveNode <- M!SaveNode, GetNode <- M!GetNode, SaveDomain <- M!SaveDomain,
    GetDomain <- M!GetDomain, GetDefaultDomain <- M!GetDefaultDomain,
    ListDomains <- M!ListDomains, CountDomains <- M!CountDomains,
    SaveUser <- M!SaveUser, GetUser <- M!GetUser, ListUsers <- M!ListUsers,
    SearchUsers <- M!SearchUsers, CountUsers <- M!CountUsers,
    SaveDeliveryJob <- M!SaveDeliveryJob, UpdateDeliveryJob <- M!UpdateDeliveryJob,
    GetDeliveryJob <- M!GetDeliveryJob,
    ListPendingDeliveryJobs <- M!ListPendingDeliveryJobs,
    ListDeliveryJobsByRecipient <- M!ListDeliveryJobsByRecipient
LiteSuite == INSTANCE StoreSuite WITH
    SaveNode <- L!SaveNode, GetNode <- L!GetNode, SaveDomain <- L!SaveDomain,
    GetDomain <- L!GetDomain, GetDefaultDomain <- L!GetDefaultDomain,
    ListDomains <- L!ListDomains, CountDomains <- L!CountDomains,
    SaveUser <- L!SaveUser, GetUser <- L!GetUser, ListUsers <- L!ListUsers,
    SearchUsers <- L!SearchUsers, CountUsers <- L!CountUsers,
    SaveDeliveryJob <- L!SaveDeliveryJob, UpdateDeliveryJob <- L!UpdateDeliveryJob,
    GetDeliveryJob <- L!GetDeliveryJob,
    ListPendingDeliveryJobs <- L!ListPendingDeliveryJobs,
    ListDeliveryJobsByRecipient <- L!ListDeliveryJobsByRecipient
PgSuite == INSTANCE StoreSuite WITH
    SaveNode <- P!SaveNode, GetNode <- P!GetNode, SaveDomain <- P!SaveDomain,
    GetDomain <- P!GetDomain, GetDefaultDomain <- P!GetDefaultDomain,
    ListDomains <- P!ListDomains, CountDomains <- P!CountDomains,
    SaveUser <- P!SaveUser, GetUser <- P!GetUser, ListUsers <- P!ListUsers,
    SearchUsers <- P!SearchUsers, CountUsers <- P!CountUsers,
    SaveDeliveryJob <- P!SaveDeliveryJob, UpdateDeliveryJob <- P!UpdateDeliveryJob,
    GetDeliveryJob <- P!GetDeliveryJob,
    ListPendingDeliveryJobs <- P!ListPendingDeliveryJobs,
    ListDeliveryJobsByRecipient <- P!ListDeliveryJobsByRecipient

VARIABLES
    mem, lite, pg,  \* the contents of the three stores
    last,           \* the last write: its kind and who accepted it
    clock

vars == <<mem, lite, pg, last, clock>>

Init ==
    /\ mem = Empty /\ lite = Empty /\ pg = Empty
    /\ last = [kind |-> "none", mem |-> TRUE, lite |-> TRUE, pg |-> TRUE]
    /\ clock = 1

Write(kind, m, l, p) ==
    /\ mem' = m.db /\ lite' = l.db /\ pg' = p.db
    /\ last' = [kind |-> kind, mem |-> m.ok, lite |-> l.ok, pg |-> p.ok]
    /\ UNCHANGED clock

SaveNode(n) ==
    Write("node", M!SaveNode(mem, n), L!SaveNode(lite, n), P!SaveNode(pg, n))

SaveDomain(d) ==
    Write(IF d.name = 0 THEN "unnamed" ELSE IF d.isDefault THEN "default" ELSE "domain",
          M!SaveDomain(mem, d), L!SaveDomain(lite, d), P!SaveDomain(pg, d))

SaveUser(u) ==
    Write(IF u.email = 0 THEN "unnamed" ELSE "user",
          M!SaveUser(mem, u, clock), L!SaveUser(lite, u, clock), P!SaveUser(pg, u, clock))

SaveDeliveryJob(j) ==
    Write("job", M!SaveDeliveryJob(mem, j, clock), L!SaveDeliveryJob(lite, j, clock),
          P!SaveDeliveryJob(pg, j, clock))

UpdateDeliveryJob(j) ==
    Write("update", M!UpdateDeliveryJob(mem, j), L!UpdateDeliveryJob(lite, j),
          P!UpdateDeliveryJob(pg, j))

Tick ==
    /\ clock < MaxTime
    /\ clock' = clock + 1
    /\ UNCHANGED <<mem, lite, pg, last>>

Next ==
    \/ \E n \in NodeInputs : SaveNode(n)
    \/ \E d \in DomainInputs : SaveDomain(d)
    \/ \E u \in UserInputs : SaveUser(u)
    \/ \E j \in JobInputs : SaveDeliveryJob(j) \/ UpdateDeliveryJob(j)
    \/ Tick

Spec == Init /\ [][Next]_vars

-----------------------------------------------------------------------------

\* The two SQL stores are interchangeable: whatever was written, they accepted
\* and refused the same writes and hold the same rows.
SqlStoresAgree == lite = pg /\ last.lite = last.pg

\* (store.go:24) At most one Domain per Store may have IsDefault=true: memstore
\* moves the default, the SQL stores refuse the second one.
AtMostOneDefault ==
    \A db \in {mem, lite, pg} : Cardinality({d \in db.domains : d.isDefault}) <= 1

\* The memory store stands in for the SQL stores in tests: except for a second
\* default domain, an empty name and the update of a missing job it gives the
\* same answer, and apart from created_at the nodes, users and jobs are the same.
MemStandsIn ==
    /\ last.mem # last.lite => last.kind \in {"default", "unnamed", "update"}
    /\ mem.nodes = lite.nodes /\ mem.jobs = lite.jobs
    /\ {[u EXCEPT !.created = 0] : u \in mem.users}
          = {[u EXCEPT !.created = 0] : u \in {v \in lite.users : v.email # 0}}

\* Registration time and node keys are written once: no later write of the same
\* user changes created_at, and a write without keys erases none.
FirstWriteStays ==
    [][\A s \in {<<mem, mem'>>, <<lite, lite'>>, <<pg, pg'>>} :
        /\ \A u \in s[1].users : u.created # 0 =>
              \E v \in s[2].users : v.email = u.email /\ v.created = u.created
        /\ \A n \in s[1].nodes : \E k \in s[2].nodes :
              k.id = n.id /\ (n.priv # 0 => k.priv # 0) /\ (n.pub # 0 => k.pub # 0)]_vars

\* (store.go:98-102) A search finds the same users in every store, but for one
\* without an address, whom the memory store does not accept.
SearchAgrees ==
    \A F \in Filters :
        LET emails(us) == SelectSeq([i \in DOMAIN us |-> us[i].email], LAMBDA e : e # 0)
        IN /\ emails(L!SearchUsers(lite, F)) = emails(M!SearchUsers(mem, F))
           /\ emails(P!SearchUsers(pg, F)) = emails(M!SearchUsers(mem, F))

\* (store.go:114-116) The sweeper gets the open jobs that are due, oldest first,
\* and at the limit none is passed over for a younger one.
OldestJobsFirst ==
    \A before \in 1..MaxTime, limit \in 0..2 :
        \A lst \in {M!ListPendingDeliveryJobs(mem, before, limit),
                    L!ListPendingDeliveryJobs(lite, before, limit)} :
            LET due == {j \in lite.jobs : j.status \in {"pending", "failed"} /\ j.due <= before}
            IN /\ ToSet(lst) \subseteq due
               /\ Len(lst) = IF limit = 0 \/ Cardinality(due) < limit THEN Cardinality(due) ELSE limit
               /\ \A i \in DOMAIN lst, j \in due \ ToSet(lst) : lst[i].due <= j.due
               /\ \A i, k \in DOMAIN lst : i < k => lst[i].due <= lst[k].due

\* (storetest.go) The conformance suite passes whatever the store holds when it
\* starts, not only on an empty store.
Conforms == MemSuite!Run(mem) /\ LiteSuite!Run(lite) /\ PgSuite!Run(pg)

\* (store.go:98) SearchUsers returns users whose metadata matches all supplied filters.
SearchMatchesAll ==
    \A F \in Filters : \A u \in ToSet(L!SearchUsers(lite, F)) : UserMatchesFilters(u, F)
=============================================================================
