------------------------- MODULE Membership_proof -------------------------
(***************************************************************************)
(* What holds of presence and domains for any nodes, domains, calls and    *)
(* bounds.                                                                 *)
(***************************************************************************)
EXTENDS Membership, TLAPS

-----------------------------------------------------------------------------
(* Presence *)

\* HeartbeatTTL is at least two ticks.
LEMMA TTLBounds == HeartbeatTTL \in Nat /\ HeartbeatTTL >= 2 /\ MaxLost \in Nat
  BY MembershipAssumption DEF Presence!ConstantsOK

\* The ticker fires at least once per HeartbeatTTL.
LEMMA PeriodBounds == Presence!Period \in Nat /\ Presence!Period >= 1 /\ Presence!Period < HeartbeatTTL
  BY TTLBounds, SMT DEF Presence!Period

\* The nodes start with no key and no heartbeat.
LEMMA HeartbeatInit == Presence!Init => Presence!HeartbeatInv
  BY TTLBounds, SMT DEF Presence!Init, Presence!HeartbeatInv, Presence!TypeOK

\* Every step of Redis, the tickers and the processes preserves the invariant.
LEMMA HeartbeatNext == Presence!HeartbeatInv /\ [Presence!Next]_(Presence!vars) => Presence!HeartbeatInv'
  <1> SUFFICES ASSUME Presence!HeartbeatInv, [Presence!Next]_(Presence!vars) PROVE Presence!HeartbeatInv'
    OBVIOUS
  <1> USE TTLBounds, PeriodBounds
  <1>1. ASSUME NEW n \in Announcers, Presence!Start(n) PROVE Presence!HeartbeatInv'
    BY <1>1, SMTT(20) DEF Presence!Start, Presence!HeartbeatInv, Presence!TypeOK
  <1>2. ASSUME NEW n \in Announcers, Presence!Announce(n) PROVE Presence!HeartbeatInv'
    BY <1>2, SMTT(20) DEF Presence!Announce, Presence!HeartbeatInv, Presence!TypeOK
  <1>3. ASSUME NEW n \in Announcers, Presence!AnnounceFails(n) PROVE Presence!HeartbeatInv'
    BY <1>3, SMTT(20) DEF Presence!AnnounceFails, Presence!HeartbeatInv, Presence!TypeOK
  <1>4. ASSUME NEW n \in Announcers, Presence!Close(n) PROVE Presence!HeartbeatInv'
    BY <1>4, SMTT(20) DEF Presence!Close, Presence!HeartbeatInv, Presence!TypeOK
  <1>5. ASSUME NEW n \in Announcers, Presence!Return(n) PROVE Presence!HeartbeatInv'
    BY <1>5, SMTT(20) DEF Presence!Return, Presence!Stopped, Presence!HeartbeatInv, Presence!TypeOK
  <1>6. ASSUME NEW n \in Announcers, Presence!Crash(n) PROVE Presence!HeartbeatInv'
    BY <1>6, SMTT(20) DEF Presence!Crash, Presence!Stopped, Presence!HeartbeatInv, Presence!TypeOK
  <1>7. CASE Presence!Tick
    <2>1. Presence!TypeOK'
      BY <1>7, SMTT(20) DEF Presence!Tick, Presence!HeartbeatInv, Presence!TypeOK
    <2>2. ASSUME NEW n \in Announcers, st'[n] # "down"
          PROVE  /\ wait'[n] <= Presence!Period
                 /\ n \notin missed' => ttl'[n] >= wait'[n] + (HeartbeatTTL - Presence!Period)
      BY <1>7, <2>2, SMTT(20) DEF Presence!Tick, Presence!HeartbeatInv, Presence!TypeOK
    <2>3. ASSUME NEW n \in Announcers, st'[n] = "down"
          PROVE  ttl'[n] + since'[n] <= HeartbeatTTL \/ ttl'[n] = 0
      BY <1>7, <2>3, SMTT(20) DEF Presence!Tick, Presence!HeartbeatInv, Presence!TypeOK
    <2> QED
      BY <2>1, <2>2, <2>3 DEF Presence!HeartbeatInv
  <1>8. CASE UNCHANGED Presence!vars
    BY <1>8 DEF Presence!vars, Presence!HeartbeatInv, Presence!TypeOK
  <1> QED
    BY <1>1, <1>2, <1>3, <1>4, <1>5, <1>6, <1>7, <1>8 DEF Presence!Next

\* The strengthened invariant holds in every reachable state.
THEOREM HeartbeatInvariant == Presence!Spec => []Presence!HeartbeatInv
  BY HeartbeatInit, HeartbeatNext, PTL DEF Presence!Spec

\* (registry.go:129-130) A running node whose last announcement did not fail is
\* visible in Redis, for every HeartbeatTTL: half a TTL is left when it fires.
THEOREM AliveVisibleHolds == Presence!Spec => []Presence!AliveVisible
  <1>1. Presence!HeartbeatInv => Presence!AliveVisible
    BY TTLBounds, PeriodBounds, SMT DEF Presence!HeartbeatInv, Presence!TypeOK, Presence!AliveVisible
  <1> QED
    BY <1>1, HeartbeatInvariant, PTL

\* A node that was closed or has crashed is visible for less than HeartbeatTTL.
THEOREM GoneWithinTTLHolds == Presence!Spec => []Presence!GoneWithinTTL
  <1>1. Presence!HeartbeatInv => Presence!GoneWithinTTL
    BY TTLBounds, SMT DEF Presence!HeartbeatInv, Presence!TypeOK, Presence!GoneWithinTTL
  <1> QED
    BY <1>1, HeartbeatInvariant, PTL

\* What peers see of a node is true, for every number of nodes, every HeartbeatTTL
\* and any failures: it is visible while it runs, and not for long after.
THEOREM PresenceTrueHolds == Presence!Spec => []PresenceTrue
  BY AliveVisibleHolds, GoneWithinTTLHolds, PTL DEF PresenceTrue

-----------------------------------------------------------------------------
(* Domains *)

\* Saving a row adds its name to those of the table, and takes none away.
LEMMA UpsertNames ==
    ASSUME NEW T \in SUBSET Domains!DomainRows, NEW row \in Domains!DomainRows,
           NEW U, U = Domains!Upsert(T, row, "name", {"node", "isDefault"})
    PROVE  /\ U \in SUBSET Domains!DomainRows
           /\ \A x \in T : \E y \in U : y.name = x.name
           /\ \E y \in U : y.name = row.name
           /\ \A y \in U : y.name = row.name \/ \E x \in T : x.name = y.name
<1> DEFINE old == {x \in T : x["name"] = row["name"]}
           new(x) == [f \in DOMAIN x |-> IF f \in {"node", "isDefault"} THEN row[f] ELSE x[f]]
<1>1. ASSUME NEW x \in T PROVE new(x) \in Domains!DomainRows /\ new(x).name = x.name
  BY <1>1 DEF Domains!DomainRows
<1>2. CASE old = {}
  <2>1. U = T \cup {row}
    BY <1>2 DEF Domains!Upsert
  <2> QED
    BY <2>1
<1>3. CASE old # {}
  <2>1. U = (T \ old) \cup {new(x) : x \in old}
    BY <1>3 DEF Domains!Upsert
  <2>2. U \in SUBSET Domains!DomainRows
    BY <2>1, <1>1
  <2>3. ASSUME NEW x \in T PROVE \E y \in U : y.name = x.name
    <3>1. x \in old => new(x) \in U /\ new(x).name = x.name
      BY <2>1, <1>1
    <3>2. x \notin old => x \in U
      BY <2>1
    <3> QED
      BY <3>1, <3>2
  <2>4. \E y \in U : y.name = row.name
    <3>1. PICK x \in T : x["name"] = row["name"]
      BY <1>3
    <3> QED
      BY <2>3, <3>1
  <2>5. ASSUME NEW y \in U PROVE y.name = row.name \/ \E x \in T : x.name = y.name
    BY <2>1, <1>1
  <2> QED
    BY <2>2, <2>3, <2>4, <2>5
<1> QED
  BY <1>2, <1>3

\* A store after a write: the table is typed, keeps the names it had and has, of
\* others, at most the one written and, when the write succeeds, that one.
Saved(n, row, ok) ==
    /\ dbs' \in [Members -> [nodes : SUBSET {}, domains : SUBSET Domains!DomainRows,
                             users : SUBSET {}, jobs : SUBSET {}]]
    /\ \A m \in Members, d \in Names : Domains!Lists(dbs[m], d) => Domains!Lists(dbs'[m], d)
    /\ ok => Domains!Lists(dbs'[n], row.name)
    /\ \A m \in Members : \A y \in dbs'[m].domains :
          y.name = row.name \/ \E x \in dbs[m].domains : x.name = y.name

\* SaveDomain, in both places.
LEMMA SaveDomainStep ==
    ASSUME Domains!TypeOK, NEW n \in Members, NEW row \in Domains!DomainRows,
           dbs' = [dbs EXCEPT ![n] = Domains!SaveDomain(dbs[n], row).db]
    PROVE  Saved(n, row, Domains!SaveDomain(dbs[n], row).ok)
<1>0. PICK w : w = Domains!SaveDomain(dbs[n], row)
  OBVIOUS
<1>9. dbs' = [dbs EXCEPT ![n] = w.db]
  BY <1>0, Zenon
<1> DEFINE DB == [nodes : SUBSET {}, domains : SUBSET Domains!DomainRows, users : SUBSET {}, jobs : SUBSET {}]
           T == dbs[n].domains
           U == Domains!Upsert(T, row, "name", {"node", "isDefault"})
<1>1. dbs \in [Members -> DB] /\ dbs[n] \in DB /\ T \in SUBSET Domains!DomainRows
  BY DEF Domains!TypeOK
<1>2. /\ U \in SUBSET Domains!DomainRows
      /\ \A x \in T : \E y \in U : y.name = x.name
      /\ \E y \in U : y.name = row.name
      /\ \A y \in U : y.name = row.name \/ \E x \in T : x.name = y.name
  BY <1>1, UpsertNames
<1>3. CASE w = [db |-> [dbs[n] EXCEPT !.domains = U], ok |-> TRUE]
  <2>1. w.db \in DB /\ w.db.domains = U
    BY <1>1, <1>2, <1>3
  <2>2. dbs' \in [Members -> DB] /\ dbs'[n].domains = U /\ \A m \in Members \ {n} : dbs'[m] = dbs[m]
    BY <1>1, <1>9, <2>1
  <2> QED
    BY <1>0, <1>2, <2>2 DEF Saved, Domains!Lists
<1>4. CASE w = [db |-> dbs[n], ok |-> FALSE]
  <2>1. dbs' = dbs /\ ~w.ok
    BY <1>1, <1>4, <1>9
  <2> QED
    BY <1>0, <1>1, <2>1 DEF Saved, Domains!Lists
<1> QED
  BY <1>0, <1>3, <1>4, Zenon DEF Domains!SaveDomain, Domains!Done, Domains!Fail

\* A call that is moved on keeps its arguments.
MovedOn(c, pc) ==
    /\ call' \in [Calls -> Domains!CallStates]
    /\ call'[c].pc = pc /\ call'[c].node = call[c].node /\ call'[c].name = call[c].name
    /\ call'[c].target = call[c].target
    /\ \A e \in Calls \ {c} : call'[e] = call[e]
    /\ \A e \in Calls : call'[e].pc # "new" =>
          call'[e].node \in Members /\ call'[e].name \in Names /\ call'[e].target \in Members

\* Goto, of a call that has begun.
LEMMA GotoStep ==
    ASSUME Domains!TypeOK, NEW c \in Calls, NEW pc \in Domains!Progress \ {"new"}, call[c].pc # "new",
           call' = [call EXCEPT ![c].pc = pc]
    PROVE  MovedOn(c, pc)
  BY DEF Domains!TypeOK, Domains!CallStates, MovedOn

\* A step that moves call c only, takes away neither routes nor rows, and is in
\* order for the default, the tables and c.
OneCallMoves(c) ==
    /\ \A d \in Names : domRoute[d] # 0 => domRoute'[d] # 0
    /\ \A m \in Members, d \in Names : Domains!Lists(dbs[m], d) => Domains!Lists(dbs'[m], d)
    /\ \A e \in Calls \ {c} : call'[e] = call[e]
    /\ default' # 0 => domRoute'[default'] # 0
    /\ Domains!ListedIsRouted'
    /\ call'[c].pc \in {"default", "save"} => domRoute'[call'[c].name] # 0
    /\ call'[c].pc \in {"ok", "remap"} => Domains!Lists(dbs'[call'[c].node], call'[c].name)

\* Such a step keeps the invariant.
LEMMA DomainFrame ==
    ASSUME Domains!DomainInv, Domains!TypeOK', NEW c \in Calls, OneCallMoves(c)
    PROVE  Domains!DomainInv'
<1> SUFFICES ASSUME NEW e \in Calls \ {c}
             PROVE  /\ call'[e].pc \in {"default", "save"} => domRoute'[call'[e].name] # 0
                    /\ call'[e].pc \in {"ok", "remap"} => Domains!Lists(dbs'[call'[e].node], call'[e].name)
  BY DEF Domains!DomainInv, OneCallMoves
<1>1. call'[e] = call[e]
  BY Zenon DEF OneCallMoves
<1>2. call[e].pc \in {"default", "save", "ok", "remap"} => call[e].node \in Members /\ call[e].name \in Names
  BY DEF Domains!DomainInv, Domains!TypeOK
<1>3. /\ call[e].pc \in {"default", "save"} => domRoute[call[e].name] # 0
      /\ call[e].pc \in {"ok", "remap"} => Domains!Lists(dbs[call[e].node], call[e].name)
  BY DEF Domains!DomainInv
<1> QED
  BY <1>1, <1>2, <1>3 DEF OneCallMoves

\* Every step of a call, a crash and the heartbeats keep the invariant.
LEMMA DomainStep == Domains!DomainInv /\ [Domains!Next]_domainVars => Domains!DomainInv'
<1> SUFFICES ASSUME Domains!DomainInv, [Domains!Next]_domainVars PROVE Domains!DomainInv'
  OBVIOUS
<1>a. Domains!TypeOK /\ Domains!ListedIsRouted /\ (default # 0 => domRoute[default] # 0)
  BY DEF Domains!DomainInv
<1>b. /\ domRoute \in [Names -> Members \cup {0}]
      /\ default \in Names \cup {0}
      /\ call \in [Calls -> Domains!CallStates]
      /\ \A c \in Calls : call[c].pc # "new" => call[c].node \in Members /\ call[c].name \in Names /\ call[c].target \in Members
      /\ \A n \in Members : \A x \in dbs[n].domains : x.name \in Names
  BY <1>a DEF Domains!TypeOK, Domains!DomainRows
<1>c. 0 \notin Members /\ 0 \notin Names
  BY MembershipAssumption DEF Domains!ConstantsOK
<1>1. ASSUME NEW c \in Calls, NEW n \in Members, NEW d \in Names, NEW def \in BOOLEAN,
             Domains!RegisterDomain(c, n, d, def)
      PROVE  Domains!DomainInv'
  <2> DEFINE existing == Domains!GetDomain(dbs[n], d)
             pc == IF existing = {} THEN "route" ELSE IF \E x \in existing : x.node # n THEN "exists" ELSE "ok"
  <2>1. call' = [call EXCEPT ![c] = [pc |-> pc, node |-> n, name |-> d, def |-> def, target |-> n]]
        /\ UNCHANGED <<domRoute, default, dbs>>
    BY <1>1 DEF Domains!RegisterDomain
  <2>2. Domains!TypeOK'
    BY <2>1, <1>a, <1>b DEF Domains!TypeOK, Domains!CallStates, Domains!Progress
  <2>3. call'[c].pc = pc /\ call'[c].node = n /\ call'[c].name = d
    BY <2>1, <1>b
  <2>4. pc = "ok" => Domains!Lists(dbs[n], d)
    BY DEF Domains!GetDomain, Domains!Lists
  <2>5. \A m \in Members, x \in Names : Domains!Lists(dbs[m], x) <=> Domains!Lists(dbs'[m], x)
    BY <2>1 DEF Domains!Lists
  <2>6. Domains!ListedIsRouted'
    BY <2>1, <1>a DEF Domains!ListedIsRouted
  <2>z. OneCallMoves(c)
    BY <2>1, <2>2, <2>3, <2>4, <2>5, <2>6, <1>a, <1>b DEF OneCallMoves
  <2> QED
    BY <2>2, <2>z, DomainFrame, Zenon
<1>2. ASSUME NEW c \in Calls, NEW n \in Members, NEW d \in Names, NEW t \in Members, Domains!RemapDomain(c, n, d, t)
      PROVE  Domains!DomainInv'
  <2> DEFINE old == Domains!GetDomain(dbs[n], d)
             pc == IF old = {} THEN "notfound" ELSE "remap"
             def == \E x \in old : x.isDefault
  <2>1. call' = [call EXCEPT ![c] = [pc |-> pc, node |-> n, name |-> d, def |-> def, target |-> t]]
        /\ UNCHANGED <<domRoute, default, dbs>>
    BY <1>2 DEF Domains!RemapDomain
  <2>2. Domains!TypeOK'
    <3>1. def \in BOOLEAN /\ pc \in Domains!Progress \ {"new"}
      BY DEF Domains!Progress
    <3> HIDE DEF def, pc
    <3> QED
      BY <2>1, <3>1, <1>a, <1>b DEF Domains!TypeOK, Domains!CallStates
  <2>3. call'[c].pc = pc /\ call'[c].node = n /\ call'[c].name = d
    BY <2>1, <1>b
  <2>4. pc = "remap" => Domains!Lists(dbs[n], d)
    BY DEF Domains!GetDomain, Domains!Lists
  <2>5. \A m \in Members, x \in Names : Domains!Lists(dbs[m], x) <=> Domains!Lists(dbs'[m], x)
    BY <2>1 DEF Domains!Lists
  <2>6. Domains!ListedIsRouted'
    BY <2>1, <1>a DEF Domains!ListedIsRouted
  <2>z. OneCallMoves(c)
    BY <2>1, <2>2, <2>3, <2>4, <2>5, <2>6, <1>a, <1>b DEF OneCallMoves
  <2> QED
    BY <2>2, <2>z, DomainFrame, Zenon
<1>3. ASSUME NEW c \in Calls, Domains!SetRoute(c) PROVE Domains!DomainInv'
  <2> DEFINE pc == IF call[c].def THEN "default" ELSE "save"
  <2>1. call[c].pc = "route" /\ call' = [call EXCEPT ![c].pc = pc] /\ UNCHANGED <<default, dbs>>
        /\ domRoute' = [domRoute EXCEPT ![call[c].name] = call[c].node]
    BY <1>3 DEF Domains!SetRoute, Domains!Goto
  <2>2. call[c].node \in Members /\ call[c].name \in Names
    BY <2>1, <1>b
  <2>3. domRoute' \in [Names -> Members \cup {0}] /\ domRoute'[call[c].name] # 0 /\ \A d \in Names : domRoute[d] # 0 => domRoute'[d] # 0
    BY <2>1, <2>2, <1>b, <1>c
  <2>4. pc \in Domains!Progress \ {"new"}
    BY DEF Domains!Progress
  <2>5. /\ call' \in [Calls -> Domains!CallStates]
        /\ call'[c].pc = pc /\ call'[c].name = call[c].name
        /\ \A e \in Calls \ {c} : call'[e] = call[e]
        /\ \A e \in Calls : call'[e].pc # "new" =>
              call'[e].node \in Members /\ call'[e].name \in Names /\ call'[e].target \in Members
    <3>1. MovedOn(c, pc)
      BY <2>1, <2>4, <1>a, GotoStep, Zenon
    <3> QED
      BY <3>1, Zenon DEF MovedOn
  <2>6. Domains!TypeOK'
    BY <2>1, <2>3, <2>5, <1>a DEF Domains!TypeOK
  <2>7. \A m \in Members, x \in Names : Domains!Lists(dbs[m], x) <=> Domains!Lists(dbs'[m], x)
    BY <2>1 DEF Domains!Lists
  <2>8. Domains!ListedIsRouted'
    BY <2>1, <2>3, <1>a, <1>b DEF Domains!ListedIsRouted
  <2>z. OneCallMoves(c)
    BY <2>1, <2>3, <2>5, <2>6, <2>7, <2>8, <1>a, <1>b DEF OneCallMoves
  <2> QED
    BY <2>6, <2>z, DomainFrame, Zenon
<1>4. ASSUME NEW c \in Calls, Domains!SetDefault(c) PROVE Domains!DomainInv'
  <2>1. call[c].pc = "default" /\ call' = [call EXCEPT ![c].pc = "save"] /\ UNCHANGED <<domRoute, dbs>>
        /\ default' = call[c].name
    BY <1>4 DEF Domains!SetDefault, Domains!Goto
  <2>2. call[c].name \in Names /\ domRoute[call[c].name] # 0
    BY <2>1, <1>b DEF Domains!DomainInv
  <2>3. /\ call' \in [Calls -> Domains!CallStates]
        /\ call'[c].pc = "save" /\ call'[c].name = call[c].name
        /\ \A e \in Calls \ {c} : call'[e] = call[e]
        /\ \A e \in Calls : call'[e].pc # "new" =>
              call'[e].node \in Members /\ call'[e].name \in Names /\ call'[e].target \in Members
    <3>1. "save" \in Domains!Progress \ {"new"}
      BY DEF Domains!Progress
    <3>2. MovedOn(c, "save")
      BY <2>1, <3>1, <1>a, GotoStep, Zenon
    <3> QED
      BY <3>2, Zenon DEF MovedOn
  <2>4. Domains!TypeOK'
    BY <2>1, <2>2, <2>3, <1>a DEF Domains!TypeOK
  <2>5. \A m \in Members, x \in Names : Domains!Lists(dbs[m], x) <=> Domains!Lists(dbs'[m], x)
    BY <2>1 DEF Domains!Lists
  <2>6. Domains!ListedIsRouted'
    BY <2>1, <1>a DEF Domains!ListedIsRouted
  <2>z. OneCallMoves(c)
    BY <2>1, <2>2, <2>3, <2>4, <2>5, <2>6 DEF OneCallMoves
  <2> QED
    BY <2>4, <2>z, DomainFrame, Zenon
<1>5. ASSUME NEW c \in Calls, NEW t \in Members, NEW pc \in {"ok", "remapped"},
             call[c].pc # "new", domRoute[call[c].name] # 0,
             LET w == Domains!SaveDomain(dbs[call[c].node], Domains!Domain(call[c].name, t, call[c].def))
             IN /\ dbs' = [dbs EXCEPT ![call[c].node] = w.db]
                /\ call' = [call EXCEPT ![c].pc = IF w.ok THEN pc ELSE "failed"],
             UNCHANGED <<domRoute, default>>
      PROVE  Domains!DomainInv'
  <2> DEFINE n == call[c].node
             row == Domains!Domain(call[c].name, t, call[c].def)
             w == Domains!SaveDomain(dbs[n], row)
             to == IF w.ok THEN pc ELSE "failed"
  <2>1. n \in Members /\ call[c].name \in Names
    BY <1>5, <1>b
  <2>2. row \in Domains!DomainRows /\ row.name = call[c].name
    BY <2>1, <1>b DEF Domains!DomainRows, Domains!Domain, Domains!CallStates
  <2>3. dbs' = [dbs EXCEPT ![n] = w.db] /\ call' = [call EXCEPT ![c].pc = to]
    BY <1>5
  <2>a. to \in Domains!Progress \ {"new"} /\ to \in {pc, "failed"} /\ (to # "failed" => w.ok)
    BY <1>5 DEF Domains!Progress
  <2> HIDE DEF n, row, w, to
  <2>4. /\ dbs' \in [Members -> [nodes : SUBSET {}, domains : SUBSET Domains!DomainRows,
                                 users : SUBSET {}, jobs : SUBSET {}]]
        /\ \A m \in Members, d \in Names : Domains!Lists(dbs[m], d) => Domains!Lists(dbs'[m], d)
        /\ w.ok => Domains!Lists(dbs'[n], row.name)
        /\ \A m \in Members : \A y \in dbs'[m].domains :
              y.name = row.name \/ \E x \in dbs[m].domains : x.name = y.name
    <3>1. dbs' = [dbs EXCEPT ![n] = Domains!SaveDomain(dbs[n], row).db]
      BY <2>3, Zenon DEF w
    <3>2. Saved(n, row, w.ok)
      BY <2>1, <2>2, <3>1, <1>a, SaveDomainStep, Zenon DEF w
    <3> QED
      BY <3>2, Zenon DEF Saved
  <2>5. /\ call' \in [Calls -> Domains!CallStates]
        /\ call'[c].pc = to /\ call'[c].name = call[c].name /\ call'[c].node = n
        /\ \A e \in Calls \ {c} : call'[e] = call[e]
        /\ \A e \in Calls : call'[e].pc # "new" =>
              call'[e].node \in Members /\ call'[e].name \in Names /\ call'[e].target \in Members
    <3>1. call[c].pc # "new" /\ call' = [call EXCEPT ![c].pc = to]
      BY <1>5, <2>3, Zenon
    <3>2. MovedOn(c, to)
      BY <2>a, <3>1, <1>a, GotoStep, Zenon
    <3> QED
      BY <3>2, Zenon DEF MovedOn, n
  <2>6. Domains!TypeOK'
    BY <1>5, <2>4, <2>5, <1>a DEF Domains!TypeOK
  <2>7. Domains!ListedIsRouted'
    <3>1. domRoute' = domRoute /\ domRoute[row.name] # 0
      BY <1>5, <2>2, Zenon
    <3>2. ASSUME NEW m \in Members, NEW y \in dbs'[m].domains PROVE domRoute[y.name] # 0
      <4>1. y.name = row.name \/ \E x \in dbs[m].domains : x.name = y.name
        BY <2>4, Zenon
      <4>2. CASE y.name = row.name
        BY <3>1, <4>2, Zenon
      <4>3. ASSUME NEW x \in dbs[m].domains, x.name = y.name PROVE domRoute[y.name] # 0
        <5>1. domRoute[x.name] # 0
          BY <1>a, Zenon DEF Domains!ListedIsRouted
        <5> QED
          BY <4>3, <5>1, Zenon
      <4> QED
        BY <4>1, <4>2, <4>3, Zenon
    <3> QED
      BY <3>1, <3>2, Zenon DEF Domains!ListedIsRouted
  <2>z. OneCallMoves(c)
    BY <1>5, <2>1, <2>2, <2>a, <2>4, <2>5, <2>6, <2>7, <1>a DEF OneCallMoves
  <2> QED
    BY <2>6, <2>z, DomainFrame, Zenon
<1>6. ASSUME NEW c \in Calls, Domains!SaveLocal(c) PROVE Domains!DomainInv'
  <2>1. call[c].pc = "save" /\ domRoute[call[c].name] # 0 /\ call[c].node \in Members
    BY <1>6, <1>b DEF Domains!SaveLocal, Domains!DomainInv
  <2> QED
    BY <1>5, <1>6, <2>1, Zenon DEF Domains!SaveLocal, Domains!Goto
<1>7. ASSUME NEW c \in Calls, Domains!RemapSave(c) PROVE Domains!DomainInv'
  <2>1. call[c].pc = "remap" /\ call[c].node \in Members /\ call[c].target \in Members
        /\ Domains!Lists(dbs[call[c].node], call[c].name)
    BY <1>7, <1>b DEF Domains!RemapSave, Domains!DomainInv
  <2>2. domRoute[call[c].name] # 0
    BY <2>1, <1>a DEF Domains!Lists, Domains!ListedIsRouted
  <2> QED
    BY <1>5, <1>7, <2>1, <2>2, Zenon DEF Domains!RemapSave, Domains!Goto
<1>8. ASSUME NEW c \in Calls, Domains!AccessFails(c) PROVE Domains!DomainInv'
  <2>1. call[c].pc # "new" /\ call' = [call EXCEPT ![c].pc = "failed"] /\ UNCHANGED <<domRoute, default, dbs>>
    BY <1>8 DEF Domains!AccessFails, Domains!Goto, Domains!Busy
  <2>2. /\ call' \in [Calls -> Domains!CallStates]
        /\ call'[c].pc = "failed"
        /\ \A e \in Calls \ {c} : call'[e] = call[e]
        /\ \A e \in Calls : call'[e].pc # "new" =>
              call'[e].node \in Members /\ call'[e].name \in Names /\ call'[e].target \in Members
    <3>1. "failed" \in Domains!Progress \ {"new"}
      BY DEF Domains!Progress
    <3>2. MovedOn(c, "failed")
      BY <2>1, <3>1, <1>a, GotoStep, Zenon
    <3> QED
      BY <3>2, Zenon DEF MovedOn
  <2>3. Domains!TypeOK'
    BY <2>1, <2>2, <1>a DEF Domains!TypeOK
  <2>4. \A m \in Members, x \in Names : Domains!Lists(dbs[m], x) <=> Domains!Lists(dbs'[m], x)
    BY <2>1 DEF Domains!Lists
  <2>5. Domains!ListedIsRouted'
    BY <2>1, <1>a DEF Domains!ListedIsRouted
  <2>z. OneCallMoves(c)
    BY <2>1, <2>2, <2>3, <2>4, <2>5, <1>a DEF OneCallMoves
  <2> QED
    BY <2>3, <2>z, DomainFrame, Zenon
<1>9. ASSUME NEW n \in Members, Domains!Crash(n) PROVE Domains!DomainInv'
  <2>1. UNCHANGED <<domRoute, default, dbs>>
        /\ call' = [c \in Calls |-> IF call[c].node = n /\ call[c].pc \in Domains!Busy
                                    THEN [call[c] EXCEPT !.pc = "lost"] ELSE call[c]]
    BY <1>9 DEF Domains!Crash
  <2>2. ASSUME NEW c \in Calls
        PROVE  /\ call'[c] \in Domains!CallStates
               /\ call'[c] = call[c] \/ (/\ call[c].pc # "new" /\ call'[c].pc = "lost"
                                         /\ call'[c].node = call[c].node /\ call'[c].name = call[c].name
                                         /\ call'[c].target = call[c].target)
    BY <2>1, <1>b DEF Domains!CallStates, Domains!Progress, Domains!Busy
  <2>3. call' \in [Calls -> Domains!CallStates]
    BY <2>1, <2>2
  <2>4. Domains!TypeOK'
    BY <2>1, <2>2, <2>3, <1>a, <1>b, Zenon DEF Domains!TypeOK
  <2>5. \A m \in Members, x \in Names : Domains!Lists(dbs[m], x) <=> Domains!Lists(dbs'[m], x)
    BY <2>1 DEF Domains!Lists
  <2>6. Domains!ListedIsRouted'
    BY <2>1, <1>a DEF Domains!ListedIsRouted
  <2>7. ASSUME NEW c \in Calls
        PROVE  /\ call'[c].pc \in {"default", "save"} => domRoute'[call'[c].name] # 0
               /\ call'[c].pc \in {"ok", "remap"} => Domains!Lists(dbs'[call'[c].node], call'[c].name)
    BY <2>1, <2>2, <2>5, <1>b DEF Domains!DomainInv
  <2> QED
    BY <2>1, <2>4, <2>6, <2>7, <1>a DEF Domains!DomainInv
<1>10. CASE UNCHANGED <<domRoute, default, dbs, call>>
  BY <1>10 DEF Domains!DomainInv, Domains!TypeOK, Domains!ListedIsRouted, Domains!Lists
<1>11. ASSUME NEW n \in Members, Domains!Presence(n) PROVE Domains!DomainInv'
  BY <1>10, <1>11 DEF Domains!Presence
<1>12. CASE UNCHANGED domainVars
  BY <1>10, <1>12 DEF domainVars
<1> QED
  BY <1>1, <1>2, <1>3, <1>4, <1>6, <1>7, <1>8, <1>9, <1>11, <1>12 DEF Domains!Next, Domains!Step

\* DomainInv holds in every reachable state.
THEOREM DomainInvariant == Domains!Spec => []Domains!DomainInv
<1>1. Domains!Init => Domains!DomainInv
  BY MembershipAssumption DEF Domains!Init, Domains!DomainInv, Domains!TypeOK, Domains!ListedIsRouted, Domains!Empty,
     Domains!Idle, Domains!CallStates, Domains!Progress, Domains!ConstantsOK
<1>2. Domains!DomainInv /\ [Domains!Next]_(Domains!vars) => Domains!DomainInv'
  BY DomainStep DEF Domains!vars, domainVars
<1> QED
  BY <1>1, <1>2, PTL DEF Domains!Spec

\* Once a default domain is set every lookup of every domain succeeds, whatever
\* fails or crashes, and Discover returns the owner's address while it is visible.
THEOREM LookupsRightHolds == Domains!Spec => []LookupsRight
<1>1. Domains!DomainInv => LookupsRight
  <2> SUFFICES ASSUME Domains!DomainInv PROVE LookupsRight
    OBVIOUS
  <2>1. Domains!DefaultResolves
    BY DEF Domains!DomainInv, Domains!TypeOK, Domains!DefaultResolves, Domains!LookupRedis, Domains!NotFound
  <2>2. Domains!DiscoverAddress
    BY DEF Domains!DiscoverAddress, Domains!Discover, Domains!Lookup, Domains!ResolveRedis, Domains!NotFound
  <2> QED
    BY <2>1, <2>2 DEF LookupsRight
<1> QED
  BY <1>1, DomainInvariant, PTL

\* What RegisterDomain acknowledged stays in the store of its node and keeps a
\* route, and no store lists a domain that Redis does not know.
THEOREM RoutesStayHolds == Domains!Spec => []RoutesStay
<1>1. Domains!DomainInv => RoutesStay
  <2> SUFFICES ASSUME Domains!DomainInv PROVE RoutesStay
    OBVIOUS
  <2>1. ASSUME NEW c \in Calls, call[c].pc = "ok"
        PROVE  Domains!GetDomain(dbs[call[c].node], call[c].name) # {} /\ domRoute[call[c].name] # 0
    <3>1. Domains!Lists(dbs[call[c].node], call[c].name) /\ call[c].node \in Members
      BY <2>1 DEF Domains!DomainInv, Domains!TypeOK
    <3> QED
      BY <3>1 DEF Domains!Lists, Domains!GetDomain, Domains!DomainInv, Domains!ListedIsRouted
  <2> QED
    BY <2>1 DEF RoutesStay, Domains!RegisteredStays, Domains!DomainInv
<1> QED
  BY <1>1, DomainInvariant, PTL
=============================================================================
