------------------------------ MODULE Accounts ------------------------------
(***************************************************************************)
(* Users and delivery reports of internal/server/server.go on one node     *)
(* with an SQL store: concurrent RegisterUser calls, one store access at a *)
(* time, which may fail; the calls that read; the lookups of the local     *)
(* registry and of the mailbox router.  The dispatcher changes delivery    *)
(* jobs meanwhile.                                                         *)
(***************************************************************************)
EXTENDS SqliteStore, SequencesExt

CONSTANTS
    NodeID,         \* a number
    Calls,          \* calls of RegisterUser
    Requests,       \* what they ask for: users without created_at
    Readers,        \* calls of ListDeliveryFailures
    DomainSets,     \* domains the store may hold
    JobSets,        \* delivery jobs it may hold
    MaxFaults       \* bound on failed store accesses

VARIABLES
    db,         \* the store
    call,       \* call[c]: where RegisterUser is, its request, the user it holds
    report,     \* report[r]: where ListDeliveryFailures is and what it has
    steady,     \* steady[r]: jobs that were failed or dead ever since r began
    faults

vars == <<db, call, report, steady, faults>>

NoUser == User(0, {}, 0, [k \in {"skills", BadKey} |-> NULL], 0)
Now == 1

Init ==
    /\ \E D \in DomainSets, J \in JobSets : db = [Empty EXCEPT !.domains = D, !.jobs = J]
    /\ call = [c \in Calls |-> [pc |-> "new", req |-> NoUser, u |-> NoUser]]
    /\ report = [r \in Readers |-> [pc |-> "new", rcpt |-> 0, got |-> <<>>]]
    /\ steady = [r \in Readers |-> {}]
    /\ faults = 0

\* What a store access of RegisterUser does next: the answer of the store, or a
\* failure, which ends the call at all places but one.
At(c, pc) == call[c].pc = pc
Goto(c, pc, u) == call' = [call EXCEPT ![c].pc = pc, ![c].u = u]

\* Check: a user who is there is updated, another one is registered.
RegisterUser(c, req) ==
    /\ At(c, "new")
    /\ LET old == GetUser(db, req.email)
           new == IF old = {} THEN NoUser
                  ELSE [req EXCEPT !.created = (CHOOSE x \in old : TRUE).created]
       IN call' = [call EXCEPT ![c] =
              [pc |-> IF old = {} THEN "register" ELSE "update", req |-> req, u |-> new]]
    /\ UNCHANGED <<db, report, steady, faults>>

UpdateUser(c) ==
    /\ At(c, "update")
    /\ db' = SaveUser(db, call[c].u, Now).db
    /\ Goto(c, "ok", NoUser)
    /\ UNCHANGED <<report, steady, faults>>

\* The registry stores type and metadata; a key takes two more accesses.
Register(c) ==
    /\ At(c, "register")
    /\ db' = SaveUser(db, [call[c].req EXCEPT !.key = 0, !.created = Now], Now).db
    /\ Goto(c, IF call[c].req.key = 0 THEN "ok" ELSE "reread", NoUser)
    /\ UNCHANGED <<report, steady, faults>>

\* (variant) the user read before the registration is used.
RereadNot(c) ==
    /\ At(c, "reread")
    /\ Goto(c, "save key", call[c].u)
    /\ UNCHANGED <<db, report, steady, faults>>

\* (variant) whichever user is first is read.
RereadAny(c) ==
    /\ At(c, "reread")
    /\ Goto(c, "save key", [ListUsers(db)[1] EXCEPT !.email = call[c].req.email])
    /\ UNCHANGED <<db, report, steady, faults>>

Reread(c) ==
    /\ At(c, "reread")
    /\ Goto(c, "save key", CHOOSE x \in GetUser(db, call[c].req.email) : TRUE)
    /\ UNCHANGED <<db, report, steady, faults>>

\* The error of this read is not looked at: the user is the zero value.
RereadFails(c) ==
    /\ At(c, "reread") /\ faults < MaxFaults
    /\ Goto(c, "save key", NoUser)
    /\ faults' = faults + 1
    /\ UNCHANGED <<db, report, steady>>

SaveKey(c) ==
    /\ At(c, "save key")
    /\ db' = SaveUser(db, [call[c].u EXCEPT !.key = call[c].req.key], Now).db
    /\ Goto(c, "ok", NoUser)
    /\ UNCHANGED <<report, steady, faults>>

AccessFails(c) ==
    /\ call[c].pc \in {"new", "update", "register", "save key"} /\ faults < MaxFaults
    /\ Goto(c, "failed", NoUser)
    /\ faults' = faults + 1
    /\ UNCHANGED <<db, report, steady>>

-----------------------------------------------------------------------------

\* ListDeliveryFailures, for one recipient: first the failed jobs, then the dead.
Failing(d, rcpt) == {x \in d.jobs : x.status \in {"failed", "dead"} /\ x.rcpt = rcpt}

ListDeliveryFailures(r, rcpt) ==
    /\ report[r].pc = "new"
    /\ report' = [report EXCEPT ![r] = [pc |-> "first", rcpt |-> rcpt, got |-> <<>>]]
    /\ steady' = [steady EXCEPT ![r] = {x.msg : x \in Failing(db, rcpt)}]
    /\ UNCHANGED <<db, call, faults>>

\* (variant) the dead jobs, then the failed.
StatusesSwapped == <<"dead", "failed">>

Statuses == <<"failed", "dead">>

ListStatus(r) ==
    /\ report[r].pc \in {"first", "second"}
    /\ LET i == IF report[r].pc = "first" THEN 1 ELSE 2
       IN report' = [report EXCEPT ![r].pc = IF i = 1 THEN "second" ELSE "done",
              ![r].got = @ \o ListDeliveryJobsByRecipient(db, report[r].rcpt, Statuses[i])]
    /\ UNCHANGED <<db, call, steady, faults>>

\* The dispatcher after an attempt: a job that is open fails once more, gives up
\* or is delivered.
JobChanges(j, status) ==
    /\ j.status \in {"pending", "failed"} /\ Readers # {}
    /\ db' = UpdateDeliveryJob(db, [j EXCEPT !.status = status]).db
    /\ steady' = [r \in Readers |-> steady[r] \cap {x.msg : x \in Failing(db', report[r].rcpt)}]
    /\ UNCHANGED <<call, report, faults>>

Next ==
    \/ \E c \in Calls :
          \/ \E req \in Requests : RegisterUser(c, req)
          \/ UpdateUser(c) \/ Register(c) \/ Reread(c) \/ RereadFails(c) \/ SaveKey(c) \/ AccessFails(c)
    \/ \E r \in Readers : ListStatus(r) \/ \E x \in db.jobs : ListDeliveryFailures(r, x.rcpt)
    \/ \E j \in db.jobs : \E s \in {"failed", "dead", "delivered"} : JobChanges(j, s)

Spec == Init /\ [][Next]_vars

-----------------------------------------------------------------------------

\* GetDeliveryStatus, and ListDeliveryFailures of a store at rest.
GetDeliveryStatus(m, rcpt) == IF m = 0 \/ rcpt = 0 THEN {} ELSE GetDeliveryJob(db, m, rcpt)
DeliveryFailures(rcpt) ==
    ListDeliveryJobsByRecipient(db, rcpt, "failed") \o ListDeliveryJobsByRecipient(db, rcpt, "dead")

\* userToProto, GetUser, ListUsers and GetStatus.
userToProto(u) == [email |-> u.email, type |-> u.type, key |-> u.key, meta |-> u.meta, node |-> NodeID]
UserProfile(e) == IF e = 0 THEN {} ELSE {userToProto(u) : u \in GetUser(db, e)}
UserProfiles == LET us == ListUsers(db) IN [i \in DOMAIN us |-> userToProto(us[i])]
GetStatus == [domains |-> CountDomains(db), users |-> CountUsers(db), node |-> NodeID]

\* Lookup of the local registry for user e (0 when the target is a bare domain)
\* at domain d: the domain of a known user, the domain, the default.
Lookup(e, d) ==
    LET named == GetDomain(db, d)
        def == GetDefaultDomain(db)
        owner(S) == (CHOOSE x \in S : TRUE).node
    IN IF e # 0 /\ GetUser(db, e) # {} /\ named # {} THEN owner(named)
       ELSE IF named # {} THEN owner(named)
       ELSE IF def = {} THEN 0 ELSE owner(def)

\* localRouter.Route and storeUserResolver: only users in the store have a mailbox.
Route(e) == IF GetUser(db, e) = {} THEN "not found" ELSE "mailbox"

-----------------------------------------------------------------------------

\* (server.go:142) The public key of a registration that returned ok is stored
\* with the user, with the type and metadata of the same request, as long as
\* nobody else registers that address.
KeyPersisted ==
    \A c \in Calls :
        At(c, "ok") /\ (\A e \in Calls \ {c} : call[e].req.email # call[c].req.email) =>
            UserProfile(call[c].req.email) = {userToProto(call[c].req)}

\* However calls interleave and fail, a registered user stays registered and has
\* a mailbox, GetStatus counts the profiles ListUsers shows, and every field of a
\* profile was sent in a request for that user.
ProfilesOwn ==
    /\ \A c \in Calls : At(c, "ok") => Route(call[c].req.email) = "mailbox"
    /\ Len(UserProfiles) = GetStatus.users
    /\ \A i \in DOMAIN UserProfiles :
          LET p == UserProfiles[i]
              sent == {call[c].req : c \in {x \in Calls : call[x].req.email = p.email}}
          IN p.email # 0 => /\ \E q \in sent : q.type = p.type
                            /\ \E q \in sent : q.meta = p.meta
                            /\ p.key = 0 \/ \E q \in sent : q.key = p.key

\* (registry.go:32) ErrNotFound exactly if there is no mapping and no default:
\* knowing the user never changes where their mail goes.
LookupByDomain ==
    \A e \in {q.email : q \in Requests} \cup {0}, d \in 1..3 :
        Lookup(e, d) = IF GetDomain(db, d) # {} THEN (CHOOSE x \in GetDomain(db, d) : TRUE).node
                       ELSE IF GetDefaultDomain(db) # {} THEN (CHOOSE x \in GetDefaultDomain(db) : TRUE).node
                       ELSE 0

\* A report misses no job that is failing all the time, although the dispatcher
\* may give up on it between the two queries, and what it lists
\* GetDeliveryStatus finds.
NoFailureMissed ==
    \A r \in Readers : report[r].pc = "done" =>
        /\ steady[r] \subseteq {report[r].got[i].msg : i \in DOMAIN report[r].got}
        /\ \A i \in DOMAIN report[r].got : GetDeliveryStatus(report[r].got[i].msg, report[r].rcpt) # {}

\* (postbox.proto:212) An empty recipient returns the failures of all users.
EmptyListsAll ==
    ToSet(DeliveryFailures(0)) = {x \in db.jobs : x.status \in {"failed", "dead"}}
=============================================================================
