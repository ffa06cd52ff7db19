-------------------------- MODULE Forwarder_proof --------------------------
(***************************************************************************)
(* No recipient is lost and no copy is without a reason, for any nodes,    *)
(* users and routes, and any number of requests, executions and faults:    *)
(* CoverInv, HomeInv, Numbered and PaidInv of Forwarder are inductive.     *)
(***************************************************************************)
EXTENDS Forwarder, TLAPS

-----------------------------------------------------------------------------
(* The steps of an execution *)

\* The length, the elements and the domain of a sequence.
LEMMA LenProperties ==
    ASSUME NEW S, NEW seq \in Seq(S)
    PROVE  Len(seq) \in Nat /\ seq \in [1..Len(seq) -> S] /\ DOMAIN seq = 1..Len(seq)
  OBVIOUS

\* Changing elements of a sequence leaves a sequence of the same length.
LEMMA Reseq ==
    ASSUME NEW S, NEW s \in Seq(S), NEW t \in [DOMAIN s -> S]
    PROVE  t \in Seq(S) /\ Len(t) = Len(s) /\ DOMAIN t = DOMAIN s
<1>1. Len(s) \in Nat /\ DOMAIN s = 1..Len(s)
  BY LenProperties, Zenon
<1> QED
  BY <1>1

\* g is f, except that its connection may have been closed.
CutOnly(g, f) == g = f \/ g = [f EXCEPT !.cut = TRUE]

\* g is a later stage of execution f.
SameCall(g, f) == g.req = f.req /\ g.node = f.node /\ g.recips = f.recips /\ g.deliverTo = f.deliverTo

\* Losing its connection changes nothing else of an execution.
LEMMA CutKeeps ==
    ASSUME NEW f \in Frames, NEW g, CutOnly(g, f)
    PROVE  /\ g \in Frames
           /\ SameCall(g, f)
           /\ g.pc = f.pc /\ g.groups = f.groups /\ g.local = f.local /\ g.target = f.target /\ g.child = f.child
  BY Zenon DEF CutOnly, Frames, SameCall

\* What FellBack and Forwarded do to an execution.
LEMMA BackStep ==
    ASSUME NEW f \in Frames, f.target \in Nodes
    PROVE  /\ FellBack(f) \in Frames /\ Forwarded(f) \in Frames
           /\ SameCall(FellBack(f), f) /\ SameCall(Forwarded(f), f)
           /\ FellBack(f).pc = "split" /\ Forwarded(f).pc = "split"
           /\ FellBack(f).groups = [f.groups EXCEPT ![f.target] = {}]
           /\ Forwarded(f).groups = [f.groups EXCEPT ![f.target] = {}]
           /\ FellBack(f).local = f.local \cup f.groups[f.target] /\ Forwarded(f).local = f.local
           /\ ~FellBack(f).cut /\ ~Forwarded(f).cut
  BY Zenon DEF FellBack, Forwarded, Frames, NoCall, SameCall

\* A forward that ends in an error: its execution takes the group back, and the
\* others lose at most their connection.
LEMMA ErrorStep ==
    ASSUME TypeOK, NEW c \in DOMAIN calls, NEW f \in Frames, f.target \in Nodes, f.req = calls[c].req,
           NEW e \in BOOLEAN, ForwardError(c, f, e)
    PROVE  /\ calls' \in Seq(Frames) /\ DOMAIN calls' = DOMAIN calls /\ Len(calls') = Len(calls)
           /\ calls'[c] = FellBack(f)
           /\ \A d \in DOMAIN calls \ {c} : CutOnly(calls'[d], calls[d])
           /\ conns' \in [Nodes -> SUBSET Nodes]
           /\ failed' \in [Requests -> Nat] /\ failed'[f.req] = failed[f.req] + 1
           /\ \A r \in Requests : failed'[r] >= failed[r]
<1> DEFINE cs == [calls EXCEPT ![c] = FellBack(f)]
<1>1. calls \in Seq(Frames) /\ FellBack(f) \in Frames /\ FellBack(f).pc = "split" /\ f.req \in Requests
  <2>1. calls \in Seq(Frames) /\ f.req \in Requests
    BY Zenon DEF TypeOK, Frames
  <2>2. FellBack(f) \in Frames /\ FellBack(f).pc = "split"
    BY BackStep, Zenon
  <2> QED
    BY <2>1, <2>2, Zenon
<1>2. calls \in [DOMAIN calls -> Frames]
  BY <1>1, LenProperties, Zenon
<1>3. cs \in [DOMAIN calls -> Frames] /\ cs[c] = FellBack(f) /\ \A d \in DOMAIN calls \ {c} : cs[d] = calls[d]
  BY <1>1, <1>2, Zenon
<1>4. calls' \in [DOMAIN calls -> Frames] /\ calls'[c] = FellBack(f)
      /\ \A d \in DOMAIN calls \ {c} : CutOnly(calls'[d], calls[d])
  <2>1. CASE ~e
    BY <2>1, <1>3, Zenon DEF ForwardError, CutOnly
  <2>2. CASE e
    <3>1. calls' = Evict(f.node, f.target, cs)
      BY <2>2, Zenon DEF ForwardError
    <3>2. calls' = [d \in DOMAIN calls |-> IF cs[d].node = f.node /\ cs[d].pc = "wait" /\ cs[d].target = f.target
                                           THEN [cs[d] EXCEPT !.cut = TRUE] ELSE cs[d]]
      BY <3>1, <1>3, Zenon DEF Evict
    <3> HIDE DEF cs
    <3>3. \A d \in DOMAIN calls : CutOnly(calls'[d], cs[d])
      BY <3>2, Zenon DEF CutOnly
    <3>4. \A d \in DOMAIN calls : calls'[d] \in Frames
      BY <3>3, <1>3, CutKeeps, Zenon
    <3> QED
      BY <3>2, <3>3, <3>4, <1>1, <1>3, Zenon
  <2> QED
    BY <2>1, <2>2, Zenon
<1>5. conns' \in [Nodes -> SUBSET Nodes]
  BY Zenon DEF ForwardError, TypeOK, Frames
<1>6. failed' \in [Requests -> Nat] /\ failed'[f.req] = failed[f.req] + 1 /\ \A r \in Requests : failed'[r] >= failed[r]
  BY <1>1 DEF ForwardError, TypeOK
<1> QED
  BY <1>1, <1>4, <1>5, <1>6, Reseq, Zenon

\* One execution moves on, and the others stay as they are.
LEMMA MoveOn ==
    ASSUME TypeOK, NEW c \in DOMAIN calls, NEW g \in Frames, calls' = [calls EXCEPT ![c] = g]
    PROVE  /\ calls' \in Seq(Frames) /\ DOMAIN calls' = DOMAIN calls /\ Len(calls') = Len(calls)
           /\ calls'[c] = g /\ \A d \in DOMAIN calls \ {c} : calls'[d] = calls[d]
<1>1. calls \in Seq(Frames) /\ calls \in [DOMAIN calls -> Frames]
  BY LenProperties, Zenon DEF TypeOK
<1>2. calls' \in [DOMAIN calls -> Frames] /\ calls'[c] = g /\ \A d \in DOMAIN calls \ {c} : calls'[d] = calls[d]
  BY <1>1, Zenon
<1> QED
  BY <1>1, <1>2, Reseq, Zenon

\* Execution k = g begins.
Begins(s, t, k, g) == DOMAIN t = DOMAIN s \cup {k} /\ k \notin DOMAIN s /\ t[k] = g

\* A new execution comes after the others, which stay as they are.
LEMMA Begin ==
    ASSUME NEW s \in Seq(Frames), NEW g \in Frames, NEW t, t = Append(s, g)
    PROVE  /\ t \in Seq(Frames) /\ Len(t) = Len(s) + 1 /\ DOMAIN t = DOMAIN s \cup {Len(s) + 1}
           /\ Len(s) + 1 \notin DOMAIN s
           /\ t[Len(s) + 1] = g /\ \A d \in DOMAIN s : t[d] = s[d]
<1>1. Len(s) \in Nat /\ DOMAIN s = 1..Len(s)
  BY LenProperties, Zenon
<1>2. t \in Seq(Frames) /\ Len(t) = Len(s) + 1 /\ t[Len(s) + 1] = g /\ \A d \in 1..Len(s) : t[d] = s[d]
  BY <1>1
<1>3. DOMAIN t = 1..Len(t)
  BY <1>2, LenProperties, Zenon
<1> QED
  BY <1>1, <1>2, <1>3

\* An execution begins as a frame.
LEMMA FrameType ==
    ASSUME NEW r \in Requests, NEW n \in Nodes, NEW R \in SUBSET Users, NEW D \in SUBSET Users
    PROVE  Frame(r, n, R, D) \in Frames
  BY Zenon DEF Frame, Frames, Nothing, NoCall

\* What the proofs need of counting; the library of finite sets proves it (at the end).
Counting ==
    /\ \A S \in SUBSET Requests : Cardinality(S) \in Nat
    /\ \A i \in Nat : Cardinality(1..i) = i
    /\ Cardinality({}) = 0
    /\ \A S, x : S \subseteq {x} => Cardinality(S) \in 0..1
    /\ \A S, x, y : S \subseteq {x} \cup {y} => Cardinality(S) \in 0..2

\* The number of requests so far.
LEMMA IssuedType ==
    ASSUME Counting, TypeOK
    PROVE  Issued \in Nat
<1>1. \A c \in DOMAIN calls : calls[c].req \in Requests
  <2>1. calls \in [DOMAIN calls -> Frames]
    BY LenProperties, Zenon DEF TypeOK
  <2> QED
    BY <2>1, Zenon DEF Frames
<1>2. {calls[c].req : c \in DOMAIN calls} \in SUBSET Requests
  BY <1>1, Zenon
<1> QED
  BY <1>2, Zenon DEF Counting, Issued

\* A client calls SendMessage: an execution with the next request begins.
LEMMA ArriveStep ==
    ASSUME Counting, TypeOK, NEW n \in Nodes, NEW R \in SUBSET Users, Arrive(n, R)
    PROVE  /\ calls' = Append(calls, Frame(Issued + 1, n, R, {})) /\ Frame(Issued + 1, n, R, {}) \in Frames
           /\ UNCHANGED <<route, conns, delivered, failed, faults, moves>>
<1>1. Issued + 1 \in Requests
  BY ForwarderAssumption, IssuedType DEF Arrive, Requests
<1> QED
  BY <1>1, FrameType, Zenon DEF Arrive

\* classify: the recipients are split into local ones and groups by owner.
LEMMA ClassifyStep ==
    ASSUME TypeOK, NEW c \in DOMAIN calls, NEW bad \in SUBSET Users, Classify(c, bad),
           NEW f, f = calls[c]
    PROVE  /\ f.pc = "classify"
           /\ SameCall(calls'[c], f) /\ calls'[c].pc = "split" /\ calls'[c].cut = f.cut
           /\ calls'[c].local = {u \in f.recips : u \in bad \/ route[u] \in {NoNode, f.node}}
           /\ calls'[c].groups = [n \in Nodes |-> {u \in f.recips \ bad : n # f.node /\ route[u] = n}]
           /\ calls' \in Seq(Frames) /\ DOMAIN calls' = DOMAIN calls
           /\ \A d \in DOMAIN calls \ {c} : calls'[d] = calls[d]
           /\ faults' = IF bad = {} THEN faults ELSE faults + 1
           /\ UNCHANGED <<route, conns, delivered, failed, moves>>
<1> DEFINE g == [f EXCEPT !.pc = "split",
                 !.local = {u \in f.recips : u \in bad \/ route[u] \in {NoNode, f.node}},
                 !.groups = [n \in Nodes |-> {u \in f.recips \ bad : n # f.node /\ route[u] = n}]]
<1>1. f \in Frames
  BY LenProperties DEF TypeOK
<1>2. /\ g \in Frames /\ SameCall(g, f) /\ g.pc = "split" /\ g.cut = f.cut
      /\ g.local = {u \in f.recips : u \in bad \/ route[u] \in {NoNode, f.node}}
      /\ g.groups = [n \in Nodes |-> {u \in f.recips \ bad : n # f.node /\ route[u] = n}]
  BY <1>1, Zenon DEF Frames, SameCall
<1>3. calls' = [calls EXCEPT ![c] = g]
  BY Zenon DEF Classify
<1> HIDE DEF g
<1>4. /\ calls' \in Seq(Frames) /\ DOMAIN calls' = DOMAIN calls /\ Len(calls') = Len(calls)
      /\ calls'[c] = g /\ \A d \in DOMAIN calls \ {c} : calls'[d] = calls[d]
  BY <1>2, <1>3, MoveOn, Zenon
<1> QED
  BY <1>2, <1>4, Zenon DEF Classify, Running

\* A group is forwarded: an execution begins on the target, and this one waits.
LEMMA ForwardStep ==
    ASSUME TypeOK, NEW c \in DOMAIN calls, NEW n \in Nodes, Forward(c, n), NEW f, f = calls[c]
    PROVE  /\ f.pc = "split" /\ f.groups[n] # {}
           /\ calls' \in Seq(Frames)
           /\ SameCall(calls'[c], f) /\ calls'[c].pc = "wait" /\ calls'[c].target = n
           /\ calls'[c].groups = f.groups /\ calls'[c].local = f.local /\ calls'[c].cut = f.cut
           /\ Begins(calls, calls', calls'[c].child, Frame(f.req, n, f.recips, f.groups[n]))
           /\ \A d \in DOMAIN calls \ {c} : calls'[d] = calls[d]
           /\ conns' \in [Nodes -> SUBSET Nodes]
           /\ UNCHANGED <<route, delivered, failed, faults, moves>>
<1> DEFINE k == Len(calls) + 1
           g == [f EXCEPT !.pc = "wait", !.target = n, !.child = k]
           cs == [calls EXCEPT ![c] = g]
           h == Frame(f.req, n, f.recips, f.groups[n])
<1>1. calls \in Seq(Frames) /\ calls \in [DOMAIN calls -> Frames] /\ f \in Frames /\ Len(calls) \in Nat
  BY LenProperties DEF TypeOK
<1>2. g \in Frames /\ f.req \in Requests /\ f.recips \in SUBSET Users /\ f.groups[n] \in SUBSET Users
      /\ f.node \in Nodes
      /\ SameCall(g, f) /\ g.pc = "wait" /\ g.target = n /\ g.child = k
      /\ g.groups = f.groups /\ g.local = f.local /\ g.cut = f.cut
  <2>1. k \in Nat
    BY <1>1
  <2>2. g \in Frames /\ SameCall(g, f) /\ g.pc = "wait" /\ g.target = n /\ g.child = k
        /\ g.groups = f.groups /\ g.local = f.local /\ g.cut = f.cut
    BY <1>1, <2>1, Zenon DEF Frames, SameCall
  <2> QED
    BY <1>1, <2>2, Zenon DEF Frames
<1>3. h \in Frames
  BY <1>2, FrameType, Zenon
<1>4. cs \in [DOMAIN calls -> Frames] /\ cs[c] = g /\ \A d \in DOMAIN calls \ {c} : cs[d] = calls[d]
  BY <1>1, <1>2, Zenon
<1>5. cs \in Seq(Frames) /\ Len(cs) = Len(calls) /\ DOMAIN cs = DOMAIN calls
  BY <1>1, <1>4, Reseq, Zenon
<1>6. calls' = Append(cs, h)
  BY <1>1, Zenon DEF Forward
<1> HIDE DEF g, h, cs
<1>7. /\ calls' \in Seq(Frames) /\ DOMAIN calls' = DOMAIN cs \cup {k} /\ k \notin DOMAIN cs
      /\ calls'[k] = h /\ \A d \in DOMAIN cs : calls'[d] = cs[d]
  BY <1>3, <1>5, <1>6, Begin
<1>8. conns' \in [Nodes -> SUBSET Nodes]
  BY <1>2, Zenon DEF Forward, TypeOK
<1>9. f.pc = "split" /\ f.groups[n] # {} /\ UNCHANGED <<route, delivered, failed, faults, moves>>
  BY Zenon DEF Forward, Running
<1> QED
  <2>1. Begins(calls, calls', k, h) /\ calls'[c].child = k
    BY <1>1, <1>2, <1>4, <1>5, <1>7, Zenon DEF Begins
  <2> HIDE DEF k
  <2> QED
    BY <1>2, <1>4, <1>5, <1>7, <1>8, <1>9, <2>1 DEF h

\* The local handler writes at most one copy for each it delivers to.
LEMMA DeliverStep ==
    ASSUME TypeOK, NEW c \in DOMAIN calls, NEW got \in SUBSET Users, DeliverLocal(c, got), NEW f, f = calls[c]
    PROVE  /\ f.pc = "split" /\ f.groups = Nothing /\ f.local # {}
           /\ got \subseteq Delivers(f)
           /\ calls' \in Seq(Frames) /\ DOMAIN calls' = DOMAIN calls
           /\ SameCall(calls'[c], f) /\ calls'[c].groups = f.groups /\ calls'[c].local = f.local
           /\ calls'[c].cut = f.cut /\ calls'[c].pc = IF got = Delivers(f) THEN "ok" ELSE "error"
           /\ \A d \in DOMAIN calls \ {c} : calls'[d] = calls[d]
           /\ got # Delivers(f) => faults' = faults + 1
           /\ faults' \in Nat /\ faults' >= faults
           /\ delivered' \in [Requests -> [Users -> [Nodes -> Nat]]]
           /\ \A r \in Requests, u \in Users, n \in Nodes :
                 delivered'[r][u][n] = IF r = f.req /\ u \in got /\ n = f.node
                                       THEN delivered[r][u][n] + 1 ELSE delivered[r][u][n]
           /\ UNCHANGED <<route, conns, failed, moves>>
<1> DEFINE pc == IF got = Delivers(f) THEN "ok" ELSE "error"
           g == [f EXCEPT !.pc = pc]
           targets == Scope([f EXCEPT !.recips = f.local])
<1>1. f \in Frames
  BY LenProperties DEF TypeOK
<1>2. targets = Delivers(f)
  BY <1>1, Zenon DEF Frames, Scope, Delivers
<1>3. g \in Frames /\ SameCall(g, f) /\ g.groups = f.groups /\ g.local = f.local /\ g.cut = f.cut /\ g.pc = pc
  BY <1>1, Zenon DEF Frames, SameCall
<1>4. calls' = [calls EXCEPT ![c].pc = IF got = targets THEN "ok" ELSE "error"]
  BY Zenon DEF DeliverLocal
<1>5. calls' = [calls EXCEPT ![c] = g]
  BY <1>2, <1>4, Zenon
<1>6. /\ got \subseteq targets /\ faults \in Nat
      /\ faults' = IF got = targets THEN faults ELSE faults + 1
      /\ delivered' = [delivered EXCEPT ![f.req] = [u \in Users |-> [n \in Nodes |->
                delivered[f.req][u][n] + IF u \in got /\ n = f.node THEN 1 ELSE 0]]]
      /\ UNCHANGED <<route, conns, failed, moves>>
      /\ f.pc = "split" /\ f.groups = Nothing /\ f.local # {}
  <2>1. /\ got \subseteq targets /\ faults' = IF got = targets THEN faults ELSE faults + 1
    BY Zenon DEF DeliverLocal
  <2>2. delivered' = [delivered EXCEPT ![f.req] = [u \in Users |-> [n \in Nodes |->
                delivered[f.req][u][n] + IF u \in got /\ n = f.node THEN 1 ELSE 0]]]
    BY Zenon DEF DeliverLocal, TypeOK
  <2>3. /\ UNCHANGED <<route, conns, failed, moves>>
        /\ f.pc = "split" /\ f.groups = Nothing /\ f.local # {}
    BY Zenon DEF DeliverLocal, Running
  <2> QED
    BY <2>1, <2>2, <2>3, Zenon DEF TypeOK
<1> HIDE DEF g, targets
<1>7. /\ calls' \in Seq(Frames) /\ DOMAIN calls' = DOMAIN calls /\ Len(calls') = Len(calls)
      /\ calls'[c] = g /\ \A d \in DOMAIN calls \ {c} : calls'[d] = calls[d]
  BY <1>3, <1>5, MoveOn, Zenon
<1>8. /\ delivered' \in [Requests -> [Users -> [Nodes -> Nat]]]
      /\ \A r \in Requests, u \in Users, n \in Nodes :
            delivered'[r][u][n] = IF r = f.req /\ u \in got /\ n = f.node
                                  THEN delivered[r][u][n] + 1 ELSE delivered[r][u][n]
  <2>1. delivered \in [Requests -> [Users -> [Nodes -> Nat]]] /\ f.req \in Requests /\ f.node \in Nodes
    BY <1>1, Zenon DEF TypeOK, Frames
  <2> DEFINE row == [u \in Users |-> [n \in Nodes |->
                delivered[f.req][u][n] + IF u \in got /\ n = f.node THEN 1 ELSE 0]]
  <2>2. ASSUME NEW u \in Users
        PROVE  /\ row[u] \in [Nodes -> Nat]
               /\ \A n \in Nodes : row[u][n] = IF u \in got /\ n = f.node THEN delivered[f.req][u][n] + 1
                                                                         ELSE delivered[f.req][u][n]
    BY <2>1
  <2>3. row \in [Users -> [Nodes -> Nat]]
    BY <2>2, Zenon
  <2>4. delivered' = [delivered EXCEPT ![f.req] = row]
    BY <1>6, Zenon
  <2> HIDE DEF row
  <2>5. delivered' \in [Requests -> [Users -> [Nodes -> Nat]]]
    BY <2>1, <2>3, <2>4, Zenon
  <2> QED
    BY <2>1, <2>2, <2>4, <2>5
<1> QED
  BY <1>2, <1>3, <1>6, <1>7, <1>8

\* Forwarder.Close takes the connections from the calls of one node.
LEMMA CloseStep ==
    ASSUME TypeOK, NEW n \in Nodes, Close(n)
    PROVE  /\ calls' \in Seq(Frames) /\ DOMAIN calls' = DOMAIN calls
           /\ \A d \in DOMAIN calls : CutOnly(calls'[d], calls[d])
           /\ conns' \in [Nodes -> SUBSET Nodes]
           /\ faults' = faults + 1
           /\ UNCHANGED <<route, delivered, failed, moves>>
<1>1. calls \in Seq(Frames) /\ calls \in [DOMAIN calls -> Frames]
  BY LenProperties, Zenon DEF TypeOK
<1>2. \A d \in DOMAIN calls : CutOnly(calls'[d], calls[d])
  BY Zenon DEF Close, CutOnly
<1>3. calls' \in [DOMAIN calls -> Frames]
  BY <1>1, <1>2, CutKeeps, Zenon DEF Close
<1> QED
  BY <1>1, <1>2, <1>3, Reseq, Zenon DEF Close, TypeOK

-----------------------------------------------------------------------------
(* NoLoss *)

\* What Accounted says survives more executions, more copies and a lost connection.
LEMMA AccountedStays ==
    ASSUME NEW f \in Frames, NEW g, CutOnly(g, f), NEW cs, NEW cs2, NEW D, NEW D2,
           Accounted(f, cs, D), DOMAIN cs \subseteq DOMAIN cs2,
           \A d \in DOMAIN cs : cs2[d].req = cs[d].req /\ cs2[d].deliverTo = cs[d].deliverTo,
           \A r \in Requests, u \in Users, n \in Nodes : D[r][u][n] > 0 => D2[r][u][n] > 0
    PROVE  Accounted(g, cs2, D2)
<1>1. /\ g.req = f.req /\ g.recips = f.recips /\ g.deliverTo = f.deliverTo /\ g.pc = f.pc
      /\ g.groups = f.groups /\ g.local = f.local /\ g.target = f.target /\ g.child = f.child
  BY CutKeeps, Zenon DEF SameCall
<1>2. f.req \in Requests /\ f.recips \in SUBSET Users /\ f.deliverTo \in SUBSET Users /\ Scope(f) \in SUBSET Users
      /\ Scope(g) = Scope(f)
  BY <1>1, Zenon DEF Frames, Scope
<1>3. \A u \in Users : (\E n \in Nodes : D[f.req][u][n] > 0) => \E n \in Nodes : D2[f.req][u][n] > 0
  BY <1>2, Zenon
<1> QED
  BY <1>1, <1>2, <1>3 DEF Accounted

\* So a step that changes execution c, loses connections and begins others keeps
\* CoverInv if it keeps it for c and those that begin.
LEMMA CoverFrame ==
    ASSUME CoverInv, TypeOK', DOMAIN calls \subseteq DOMAIN calls',
           \A d \in DOMAIN calls :
              \/ CutOnly(calls'[d], calls[d])
              \/ SameCall(calls'[d], calls[d]) /\ Accounted(calls'[d], calls', delivered'),
           \A r \in Requests, u \in Users, n \in Nodes : delivered[r][u][n] > 0 => delivered'[r][u][n] > 0,
           \A d \in DOMAIN calls' \ DOMAIN calls : Accounted(calls'[d], calls', delivered')
    PROVE  CoverInv'
<1>1. \A d \in DOMAIN calls : calls[d] \in Frames /\ Accounted(calls[d], calls, delivered)
  BY LenProperties DEF CoverInv, TypeOK
<1>2. \A d \in DOMAIN calls : calls'[d].req = calls[d].req /\ calls'[d].deliverTo = calls[d].deliverTo
  BY <1>1, CutKeeps DEF SameCall
<1>3. \A d \in DOMAIN calls : Accounted(calls'[d], calls', delivered')
  BY <1>1, <1>2, AccountedStays
<1> QED
  BY <1>3, Zenon DEF CoverInv

\* A group that was given back is among the local recipients.
LEMMA FallbackStep ==
    ASSUME CoverInv, NEW c \in DOMAIN calls, NEW n \in Nodes, NEW f,
           calls[c].pc \in {"split", "wait"}, f = [calls[c] EXCEPT !.target = n],
           NEW e \in BOOLEAN, ForwardError(c, f, e),
           UNCHANGED <<route, delivered, moves>>, faults' \in Nat
    PROVE  CoverInv'
<1>1. calls[c] \in Frames /\ Accounted(calls[c], calls, delivered) /\ TypeOK
  BY LenProperties DEF CoverInv, TypeOK
<1>2. f \in Frames /\ f.target = n /\ f.req = calls[c].req
  BY <1>1, Zenon DEF Frames
<1>3. /\ calls' \in Seq(Frames) /\ DOMAIN calls' = DOMAIN calls
      /\ calls'[c] = FellBack(f)
      /\ \A d \in DOMAIN calls \ {c} : CutOnly(calls'[d], calls[d])
      /\ conns' \in [Nodes -> SUBSET Nodes] /\ failed' \in [Requests -> Nat]
  BY <1>1, <1>2, ErrorStep, Zenon
<1>4. TypeOK'
  BY <1>1, <1>3, Zenon DEF TypeOK
<1>5. /\ SameCall(calls'[c], f) /\ calls'[c].pc = "split"
      /\ calls'[c].groups = [f.groups EXCEPT ![f.target] = {}]
      /\ calls'[c].local = f.local \cup f.groups[f.target]
  BY <1>2, <1>3, BackStep, Zenon
<1>6. /\ SameCall(calls'[c], calls[c])
      /\ calls'[c].local = calls[c].local \cup calls[c].groups[n]
      /\ calls'[c].groups = [calls[c].groups EXCEPT ![n] = {}] /\ calls[c].groups \in [Nodes -> SUBSET Users]
  BY <1>1, <1>5, Zenon DEF Frames, SameCall
<1>7. Accounted(calls'[c], calls', delivered')
  BY <1>1, <1>5, <1>6, Zenon DEF Accounted, SameCall
<1> QED
  BY <1>3, <1>4, <1>6, <1>7, CoverFrame, Zenon

\* Every step of the interceptors, Close and Move keeps everyone accounted for.
LEMMA CoverStep == Counting /\ CoverInv /\ [Next]_vars => CoverInv'
<1> SUFFICES ASSUME Counting, CoverInv, [Next]_vars PROVE CoverInv'
  BY Zenon
<1>a. TypeOK /\ calls \in Seq(Frames) /\ faults \in Nat /\ moves \in Nat
  BY Zenon DEF CoverInv, TypeOK
<1>b. \A d \in DOMAIN calls : calls[d] \in Frames /\ Accounted(calls[d], calls, delivered)
  BY LenProperties DEF CoverInv, TypeOK
<1>1. ASSUME NEW n \in Nodes, NEW R \in (SUBSET Users) \ {{}}, Arrive(n, R) PROVE CoverInv'
  <2> DEFINE k == Len(calls) + 1
             g == Frame(Issued + 1, n, R, {})
  <2>1. calls' = Append(calls, g) /\ g \in Frames /\ UNCHANGED <<route, conns, delivered, failed, faults, moves>>
    BY <1>1, <1>a, ArriveStep, Zenon
  <2>2. /\ calls' \in Seq(Frames) /\ DOMAIN calls' = DOMAIN calls \cup {k}
        /\ calls'[k] = g /\ \A d \in DOMAIN calls : calls'[d] = calls[d]
    <3> HIDE DEF g
    <3> QED
      BY <1>a, <2>1, Begin
  <2>3. TypeOK'
    BY <2>1, <2>2, <1>a, Zenon DEF TypeOK
  <2>4. Accounted(g, calls', delivered')
    BY Zenon DEF Accounted, Frame, Nothing
  <2> HIDE DEF g, k
  <2> QED
    BY <2>1, <2>2, <2>3, <2>4, CoverFrame, Zenon DEF CutOnly
<1>2. ASSUME NEW c \in DOMAIN calls, NEW bad \in SUBSET Users, Classify(c, bad) PROVE CoverInv'
  <2>0. PICK f : f = calls[c]
    BY Zenon
  <2>1. /\ SameCall(calls'[c], f) /\ calls'[c].pc = "split"
        /\ calls'[c].local = {u \in f.recips : u \in bad \/ route[u] \in {NoNode, f.node}}
        /\ calls'[c].groups = [n \in Nodes |-> {u \in f.recips \ bad : n # f.node /\ route[u] = n}]
        /\ calls' \in Seq(Frames) /\ DOMAIN calls' = DOMAIN calls
        /\ \A d \in DOMAIN calls \ {c} : calls'[d] = calls[d]
        /\ faults' = IF bad = {} THEN faults ELSE faults + 1
        /\ UNCHANGED <<route, conns, delivered, failed, moves>>
    BY <1>2, <2>0, <1>a, ClassifyStep
  <2>2. TypeOK'
    BY <2>1, <1>a DEF TypeOK
  <2>3. \A u \in f.recips : u \in calls'[c].local \/ \E n \in Nodes : u \in calls'[c].groups[n]
    <3> SUFFICES ASSUME NEW u \in f.recips, u \notin calls'[c].local PROVE u \in calls'[c].groups[route[u]] /\ route[u] \in Nodes
      BY Zenon
    <3>1. u \in Users /\ route[u] \in Nodes \cup {NoNode}
      BY <2>0, <1>a, <1>b, Zenon DEF TypeOK, Frames
    <3> QED
      BY <2>1, <3>1
  <2>4. Accounted(calls'[c], calls', delivered')
    BY <2>0, <2>1, <2>3, <1>b DEF Accounted, SameCall
  <2> QED
    BY <2>0, <2>1, <2>2, <2>4, CoverFrame, Zenon DEF CutOnly
<1>3. ASSUME NEW c \in DOMAIN calls, NEW n \in Nodes, Forward(c, n) PROVE CoverInv'
  <2>0. PICK f : f = calls[c]
    BY Zenon
  <2>1. /\ f.pc = "split" /\ f.groups[n] # {}
        /\ calls' \in Seq(Frames)
        /\ SameCall(calls'[c], f) /\ calls'[c].pc = "wait" /\ calls'[c].target = n
        /\ calls'[c].groups = f.groups /\ calls'[c].local = f.local
        /\ Begins(calls, calls', calls'[c].child, Frame(f.req, n, f.recips, f.groups[n]))
        /\ \A d \in DOMAIN calls \ {c} : calls'[d] = calls[d]
        /\ conns' \in [Nodes -> SUBSET Nodes]
        /\ UNCHANGED <<route, delivered, failed, faults, moves>>
    BY <1>3, <2>0, <1>a, ForwardStep
  <2>p. PICK k : k = calls'[c].child
    BY Zenon
  <2>k. /\ DOMAIN calls' = DOMAIN calls \cup {k} /\ k \notin DOMAIN calls
        /\ calls'[c].child = k /\ calls'[k] = Frame(f.req, n, f.recips, f.groups[n])
    BY <2>1, <2>p, Zenon DEF Begins
  <2>2. TypeOK'
    BY <2>1, <1>a, Zenon DEF TypeOK
  <2>3. /\ calls'[k].req = f.req /\ calls'[k].deliverTo = f.groups[n] /\ calls'[k].pc = "classify"
        /\ calls'[k].recips = f.recips /\ calls'[k].groups = Nothing
    BY <2>k DEF Frame
  <2>4. Accounted(calls'[c], calls', delivered')
    BY <2>0, <2>1, <2>k, <2>3, <1>b, Zenon DEF Accounted, SameCall
  <2>5. Accounted(calls'[k], calls', delivered')
    <3>1. f.groups[n] \subseteq f.recips
      BY <2>0, <1>b, Zenon DEF Accounted
    <3> QED
      BY <2>3, <3>1, Zenon DEF Accounted, Nothing
  <2> QED
    BY <2>0, <2>1, <2>k, <2>2, <2>4, <2>5, CoverFrame, Zenon DEF CutOnly
<1>4. ASSUME NEW c \in DOMAIN calls, NEW n \in Nodes, NEW e \in BOOLEAN, ForwardFails(c, n, e) PROVE CoverInv'
  <2>1. /\ calls[c].pc = "split" /\ ForwardError(c, [calls[c] EXCEPT !.target = n], e)
        /\ faults' = faults + 1 /\ UNCHANGED <<route, delivered, moves>>
    BY <1>4, Zenon DEF ForwardFails, Running
  <2> QED
    BY <2>1, <1>a, FallbackStep
<1>5. ASSUME NEW c \in DOMAIN calls, NEW e \in BOOLEAN, calls[c].pc = "wait", ForwardError(c, calls[c], e),
             UNCHANGED <<route, delivered, moves>>, faults' \in Nat
      PROVE  CoverInv'
  <2>1. calls[c].target \in Nodes /\ calls[c] = [calls[c] EXCEPT !.target = calls[c].target]
    BY <1>5, <1>b, Zenon DEF Accounted, Frames
  <2>2. PICK n \in Nodes : n = calls[c].target
    BY <2>1, Zenon
  <2> QED
    BY <1>5, <2>1, <2>2, FallbackStep
<1>6. ASSUME NEW c \in DOMAIN calls, NEW e \in BOOLEAN, Lose(c, e) PROVE CoverInv'
  BY <1>5, <1>6, <1>a DEF Lose, Running
<1>7. ASSUME NEW c \in DOMAIN calls, NEW e \in BOOLEAN, Return(c, e) PROVE CoverInv'
  <2> DEFINE f == calls[c]
             g == Forwarded(f)
  <2>1. calls[c].pc = "wait" /\ UNCHANGED <<route, delivered, faults, moves>>
    BY <1>7, Zenon DEF Return, Running
  <2>2. CASE ForwardError(c, calls[c], e)
    BY <2>1, <2>2, <1>5, <1>a, Zenon
  <2>3. CASE calls[f.child].pc = "ok" /\ calls' = [calls EXCEPT ![c] = g] /\ UNCHANGED <<conns, failed>>
    <3>1. f \in Frames /\ f.target \in Nodes /\ f.child \in DOMAIN calls
      BY <2>1, <1>b, Zenon DEF Accounted
    <3>2. /\ g \in Frames /\ SameCall(g, f) /\ g.pc = "split" /\ g.local = f.local
          /\ g.groups = [f.groups EXCEPT ![f.target] = {}] /\ f.groups \in [Nodes -> SUBSET Users]
      BY <3>1, BackStep, Zenon DEF Frames
    <3>3. /\ calls' \in Seq(Frames) /\ DOMAIN calls' = DOMAIN calls
          /\ calls'[c] = g /\ \A d \in DOMAIN calls \ {c} : calls'[d] = calls[d]
      <4> HIDE DEF g
      <4> QED
        BY <2>3, <3>2, <1>a, MoveOn, Zenon
    <3>4. TypeOK'
      BY <2>1, <2>3, <3>3, <1>a, Zenon DEF TypeOK
    <3>6. \A u \in f.groups[f.target] : \E n \in Nodes : delivered[f.req][u][n] > 0
      BY <2>1, <2>3, <3>1, <1>b, Zenon DEF Accounted, Scope
    <3>7. Accounted(calls'[c], calls', delivered')
      BY <2>1, <3>1, <3>2, <3>3, <3>6, <1>b DEF Accounted, SameCall
    <3> QED
      BY <2>1, <3>2, <3>3, <3>4, <3>7, CoverFrame, Zenon DEF CutOnly
  <2> QED
    BY <1>7, <2>2, <2>3, Zenon DEF Return
<1>8. ASSUME NEW c \in DOMAIN calls, AnswerForwarded(c) PROVE CoverInv'
  <2> DEFINE f == calls[c]
             g == [f EXCEPT !.pc = "ok"]
  <2>1. /\ f.pc = "split" /\ f.groups = Nothing /\ f.local = {}
        /\ calls' = [calls EXCEPT ![c] = g]
        /\ UNCHANGED <<route, conns, delivered, failed, faults, moves>>
    BY <1>8, Zenon DEF AnswerForwarded, Running
  <2>2. g \in Frames /\ SameCall(g, f) /\ g.pc = "ok" /\ g.groups = f.groups
    BY <1>b, Zenon DEF Frames, SameCall
  <2> HIDE DEF g
  <2>3. /\ calls' \in Seq(Frames) /\ DOMAIN calls' = DOMAIN calls
        /\ calls'[c] = g /\ \A d \in DOMAIN calls \ {c} : calls'[d] = calls[d]
    BY <2>1, <2>2, <1>a, MoveOn, Zenon
  <2>4. TypeOK'
    BY <2>1, <2>3, <1>a, Zenon DEF TypeOK
  <2>5. Accounted(g, calls', delivered')
    BY <2>1, <2>2, <1>b, Zenon DEF Accounted, Scope, Nothing, SameCall
  <2> QED
    BY <2>1, <2>2, <2>3, <2>4, <2>5, CoverFrame, Zenon DEF CutOnly
<1>9. ASSUME NEW c \in DOMAIN calls, NEW got \in SUBSET Users, DeliverLocal(c, got) PROVE CoverInv'
  <2>0. PICK f : f = calls[c]
    BY Zenon
  <2>1. /\ f.pc = "split" /\ f.groups = Nothing /\ f.local # {}
        /\ got \subseteq Delivers(f)
        /\ calls' \in Seq(Frames) /\ DOMAIN calls' = DOMAIN calls
        /\ SameCall(calls'[c], f) /\ calls'[c].groups = f.groups
        /\ calls'[c].pc = IF got = Delivers(f) THEN "ok" ELSE "error"
        /\ \A d \in DOMAIN calls \ {c} : calls'[d] = calls[d]
        /\ faults' \in Nat
        /\ delivered' \in [Requests -> [Users -> [Nodes -> Nat]]]
        /\ \A r \in Requests, u \in Users, n \in Nodes :
              delivered'[r][u][n] = IF r = f.req /\ u \in got /\ n = f.node
                                    THEN delivered[r][u][n] + 1 ELSE delivered[r][u][n]
        /\ UNCHANGED <<route, conns, failed, moves>>
    BY <1>9, <2>0, <1>a, DeliverStep
  <2>2. TypeOK'
    BY <2>1, <1>a, Zenon DEF TypeOK
  <2>4. \A r \in Requests, u \in Users, n \in Nodes :
            /\ delivered[r][u][n] \in Nat
            /\ delivered[r][u][n] > 0 => delivered'[r][u][n] > 0
    <3> TAKE r \in Requests, u \in Users, n \in Nodes
    <3>1. delivered[r][u][n] \in Nat
      BY <1>a DEF TypeOK
    <3>2. delivered'[r][u][n] \in {delivered[r][u][n], delivered[r][u][n] + 1}
      BY <2>1, ZenonT(30)
    <3> QED
      BY <3>1, <3>2
  <2>5. ASSUME got = Delivers(f), NEW u \in Scope(f) PROVE \E n \in Nodes : delivered'[f.req][u][n] > 0
    <3>1. f.req \in Requests /\ f.node \in Nodes /\ f.recips \in SUBSET Users /\ f.deliverTo \in SUBSET Users
          /\ f.local \in SUBSET Users /\ u \in Users
      BY <2>0, <1>b, Zenon DEF Frames, Scope
    <3>2. CASE u \in got
      <4>1. delivered[f.req][u][f.node] \in Nat /\ delivered'[f.req][u][f.node] = delivered[f.req][u][f.node] + 1
        BY <2>1, <2>4, <3>1, <3>2, Zenon
      <4> QED
        BY <3>1, <4>1
    <3>3. CASE u \notin got
      <4>1. \E n \in Nodes : delivered[f.req][u][n] > 0
        BY <2>0, <2>1, <2>5, <3>3, <1>b, Zenon DEF Accounted, Delivers, Scope, Nothing
      <4> QED
        BY <2>4, <3>1, <4>1, Zenon
    <3> QED
      BY <3>2, <3>3, Zenon
  <2>6. Accounted(calls'[c], calls', delivered')
    BY <2>0, <2>1, <2>5, <1>b, Zenon DEF Accounted, Scope, SameCall
  <2> QED
    BY <2>0, <2>1, <2>2, <2>4, <2>6, CoverFrame, Zenon DEF CutOnly
<1>10. ASSUME NEW n \in Nodes, Close(n) PROVE CoverInv'
  <2>1. /\ calls' \in Seq(Frames) /\ DOMAIN calls' = DOMAIN calls
        /\ \A d \in DOMAIN calls : CutOnly(calls'[d], calls[d])
        /\ conns' \in [Nodes -> SUBSET Nodes]
        /\ faults' = faults + 1
        /\ UNCHANGED <<route, delivered, failed, moves>>
    BY <1>10, <1>a, CloseStep, Zenon
  <2>2. TypeOK'
    BY <2>1, <1>a DEF TypeOK
  <2> QED
    BY <2>1, <2>2, CoverFrame, Zenon
<1>11. ASSUME NEW u \in Users, NEW n \in Nodes \cup {NoNode}, Move(u, n) PROVE CoverInv'
  <2>1. moves' = moves + 1 /\ route' \in [Users -> Nodes \cup {NoNode}] /\ UNCHANGED <<calls, conns, delivered, failed, faults>>
    BY <1>11, <1>a, Zenon DEF Move, TypeOK
  <2> QED
    BY <2>1, <1>a DEF CoverInv, TypeOK
<1>12. CASE UNCHANGED vars
  BY <1>12, Zenon DEF vars, CoverInv, TypeOK
<1>13. ASSUME NEW c \in DOMAIN calls, Handle(c) PROVE CoverInv'
  BY <1>13, <1>2, <1>3, <1>4, <1>6, <1>7, <1>8, <1>9, Zenon DEF Handle
<1> QED
  BY <1>1, <1>10, <1>11, <1>12, <1>13, Zenon DEF Next

-----------------------------------------------------------------------------
(* DeliveredAtOwner *)

\* While nothing fails and nobody moves, every execution delivers what its node owns.
LEMMA HomeStep == Counting /\ CoverInv /\ HomeInv /\ [Next]_vars => HomeInv'
<1> SUFFICES ASSUME Counting, CoverInv, HomeInv, [Next]_vars, faults' = 0, moves' = 0
             PROVE  DeliveredAtOwner' /\ \A d \in DOMAIN calls' : AtHome(calls'[d], route')
  BY Zenon DEF HomeInv
<1>a. TypeOK /\ calls \in Seq(Frames) /\ faults \in Nat /\ moves \in Nat
  BY Zenon DEF CoverInv, TypeOK
<1>b. \A d \in DOMAIN calls : calls[d] \in Frames /\ Accounted(calls[d], calls, delivered)
  BY LenProperties DEF CoverInv, TypeOK
<1>c. ASSUME faults = 0, moves = 0
      PROVE  DeliveredAtOwner /\ \A d \in DOMAIN calls : AtHome(calls[d], route)
  BY <1>c, Zenon DEF HomeInv
<1>d. ASSUME faults = 0, moves = 0, UNCHANGED <<route, delivered>>, DOMAIN calls \subseteq DOMAIN calls',
             \A d \in DOMAIN calls' : (d \in DOMAIN calls /\ calls'[d] = calls[d]) \/ AtHome(calls'[d], route)
      PROVE  DeliveredAtOwner' /\ \A d \in DOMAIN calls' : AtHome(calls'[d], route')
  BY <1>c, <1>d, Zenon DEF DeliveredAtOwner
<1>1. ASSUME NEW n \in Nodes, NEW R \in (SUBSET Users) \ {{}}, Arrive(n, R)
      PROVE  DeliveredAtOwner' /\ \A d \in DOMAIN calls' : AtHome(calls'[d], route')
  <2>0. PICK g, k : g = Frame(Issued + 1, n, R, {}) /\ k = Len(calls) + 1
    BY Zenon
  <2>1. calls' = Append(calls, g) /\ g \in Frames /\ UNCHANGED <<route, conns, delivered, failed, faults, moves>>
    BY <1>1, <1>a, <2>0, ArriveStep, Zenon
  <2>2. DOMAIN calls' = DOMAIN calls \cup {k} /\ calls'[k] = g /\ \A d \in DOMAIN calls : calls'[d] = calls[d]
    BY <1>a, <2>0, <2>1, Begin
  <2>3. AtHome(g, route)
    BY <2>0, Zenon DEF AtHome, Frame, Nothing
  <2> QED
    BY <2>1, <2>2, <2>3, <1>d, Zenon
<1>2. ASSUME NEW c \in DOMAIN calls, NEW bad \in SUBSET Users, Classify(c, bad)
      PROVE  DeliveredAtOwner' /\ \A d \in DOMAIN calls' : AtHome(calls'[d], route')
  <2>0. PICK f : f = calls[c]
    BY Zenon
  <2>1. /\ SameCall(calls'[c], f) /\ calls'[c].pc = "split" /\ calls'[c].cut = f.cut
        /\ calls'[c].local = {u \in f.recips : u \in bad \/ route[u] \in {NoNode, f.node}}
        /\ calls'[c].groups = [n \in Nodes |-> {u \in f.recips \ bad : n # f.node /\ route[u] = n}]
        /\ calls' \in Seq(Frames) /\ DOMAIN calls' = DOMAIN calls
        /\ \A d \in DOMAIN calls \ {c} : calls'[d] = calls[d]
        /\ faults' = IF bad = {} THEN faults ELSE faults + 1
        /\ UNCHANGED <<route, conns, delivered, failed, moves>>
    BY <1>2, <2>0, <1>a, ClassifyStep
  <2>2. bad = {} /\ faults = 0 /\ moves = 0
    BY <2>1, <1>a
  <2>3. AtHome(calls'[c], route)
    BY <2>0, <2>1, <2>2, <1>c DEF AtHome, SameCall
  <2> QED
    BY <2>1, <2>2, <2>3, <1>d, Zenon
<1>3. ASSUME NEW c \in DOMAIN calls, NEW n \in Nodes, Forward(c, n)
      PROVE  DeliveredAtOwner' /\ \A d \in DOMAIN calls' : AtHome(calls'[d], route')
  <2>0. PICK f : f = calls[c]
    BY Zenon
  <2>1. /\ SameCall(calls'[c], f) /\ calls'[c].pc = "wait"
        /\ calls'[c].groups = f.groups /\ calls'[c].local = f.local /\ calls'[c].cut = f.cut
        /\ Begins(calls, calls', calls'[c].child, Frame(f.req, n, f.recips, f.groups[n]))
        /\ \A d \in DOMAIN calls \ {c} : calls'[d] = calls[d]
        /\ UNCHANGED <<route, delivered, failed, faults, moves>>
    BY <1>3, <2>0, <1>a, ForwardStep
  <2>2. PICK k : /\ DOMAIN calls' = DOMAIN calls \cup {k} /\ calls'[k] = Frame(f.req, n, f.recips, f.groups[n])
    BY <2>1, Zenon DEF Begins
  <2>3. AtHome(calls'[c], route)
    BY <2>0, <2>1, <1>c DEF AtHome, SameCall
  <2>4. AtHome(calls'[k], route)
    BY <2>0, <2>1, <2>2, <1>c DEF AtHome, Frame, Nothing
  <2> QED
    BY <2>1, <2>2, <2>3, <2>4, <1>d, Zenon
<1>4. ASSUME NEW c \in DOMAIN calls, NEW e \in BOOLEAN, Return(c, e)
      PROVE  DeliveredAtOwner' /\ \A d \in DOMAIN calls' : AtHome(calls'[d], route')
  <2>0. PICK f : f = calls[c]
    BY Zenon
  <2>1. f.pc = "wait" /\ UNCHANGED <<route, delivered, faults, moves>>
    BY <1>4, <2>0, Zenon DEF Return, Running
  <2>2. f \in Frames /\ f.target \in Nodes /\ f.child \in DOMAIN calls /\ calls[f.child].pc # "error" /\ AtHome(f, route)
    BY <2>0, <2>1, <1>b, <1>c, Zenon DEF Accounted, AtHome
  <2>3. calls' = [calls EXCEPT ![c] = Forwarded(f)]
    BY <1>4, <2>0, <2>2, Zenon DEF Return
  <2>4. /\ Forwarded(f) \in Frames /\ SameCall(Forwarded(f), f) /\ Forwarded(f).pc = "split" /\ ~Forwarded(f).cut
        /\ Forwarded(f).groups = [f.groups EXCEPT ![f.target] = {}] /\ Forwarded(f).local = f.local
    BY <2>2, BackStep, Zenon
  <2>5. DOMAIN calls' = DOMAIN calls /\ calls'[c] = Forwarded(f) /\ \A d \in DOMAIN calls \ {c} : calls'[d] = calls[d]
    BY <2>3, <2>4, <1>a, MoveOn, Zenon
  <2>6. AtHome(calls'[c], route)
    BY <2>2, <2>4, <2>5 DEF AtHome, SameCall, Frames
  <2> QED
    BY <2>1, <2>5, <2>6, <1>d, Zenon
<1>5. ASSUME NEW c \in DOMAIN calls, AnswerForwarded(c)
      PROVE  DeliveredAtOwner' /\ \A d \in DOMAIN calls' : AtHome(calls'[d], route')
  <2>0. PICK f, g : f = calls[c] /\ g = [f EXCEPT !.pc = "ok"]
    BY Zenon
  <2>1. calls' = [calls EXCEPT ![c] = g] /\ UNCHANGED <<route, conns, delivered, failed, faults, moves>>
    BY <1>5, <2>0, Zenon DEF AnswerForwarded
  <2>2. g \in Frames /\ SameCall(g, f) /\ g.pc = "ok" /\ g.groups = f.groups /\ g.local = f.local /\ g.cut = f.cut
    BY <2>0, <1>b, Zenon DEF Frames, SameCall
  <2>3. DOMAIN calls' = DOMAIN calls /\ calls'[c] = g /\ \A d \in DOMAIN calls \ {c} : calls'[d] = calls[d]
    BY <2>1, <2>2, <1>a, MoveOn, Zenon
  <2>4. AtHome(g, route)
    BY <2>0, <2>1, <2>2, <1>c DEF AtHome, SameCall
  <2> QED
    BY <2>1, <2>3, <2>4, <1>d, Zenon
<1>6. ASSUME NEW c \in DOMAIN calls, NEW got \in SUBSET Users, DeliverLocal(c, got)
      PROVE  DeliveredAtOwner' /\ \A d \in DOMAIN calls' : AtHome(calls'[d], route')
  <2>0. PICK f : f = calls[c]
    BY Zenon
  <2>1. /\ got \subseteq Delivers(f)
        /\ DOMAIN calls' = DOMAIN calls
        /\ SameCall(calls'[c], f) /\ calls'[c].groups = f.groups /\ calls'[c].local = f.local
        /\ calls'[c].cut = f.cut /\ calls'[c].pc = IF got = Delivers(f) THEN "ok" ELSE "error"
        /\ \A d \in DOMAIN calls \ {c} : calls'[d] = calls[d]
        /\ got # Delivers(f) => faults' = faults + 1
        /\ faults' \in Nat /\ faults' >= faults
        /\ \A r \in Requests, u \in Users, n \in Nodes :
              delivered'[r][u][n] = IF r = f.req /\ u \in got /\ n = f.node
                                    THEN delivered[r][u][n] + 1 ELSE delivered[r][u][n]
        /\ UNCHANGED <<route, conns, failed, moves>>
    BY <1>6, <2>0, <1>a, DeliverStep
  <2>2. faults = 0 /\ moves = 0 /\ got = Delivers(f)
    BY <2>1, <1>a
  <2>3. AtHome(f, route)
    BY <2>0, <2>2, <1>c, Zenon
  <2>4. AtHome(calls'[c], route)
    BY <2>1, <2>2, <2>3, Zenon DEF AtHome, SameCall
  <2>5. \A u \in got : route[u] # NoNode => route[u] = f.node
    BY <2>1, <2>3, Zenon DEF AtHome, Delivers
  <2>6. DeliveredAtOwner'
    <3> SUFFICES ASSUME NEW r \in Requests, NEW u \in Users, NEW n \in Nodes,
                        delivered'[r][u][n] > 0, route[u] # NoNode
                 PROVE  n = route[u]
      BY <2>1, Zenon DEF DeliveredAtOwner
    <3>1. CASE r = f.req /\ u \in got /\ n = f.node
      BY <2>5, <3>1, Zenon
    <3>2. CASE ~(r = f.req /\ u \in got /\ n = f.node)
      BY <2>1, <2>2, <3>2, <1>c, Zenon DEF DeliveredAtOwner
    <3> QED
      BY <3>1, <3>2, Zenon
  <2> QED
    BY <2>1, <2>2, <2>4, <2>6, <1>c, Zenon
<1>7. ASSUME NEW c \in DOMAIN calls, NEW e \in BOOLEAN, Lose(c, e) PROVE FALSE
  <2>1. IF calls[c].cut THEN UNCHANGED faults ELSE faults' = faults + 1
    BY <1>7, Zenon DEF Lose
  <2>2. moves = 0
    BY <1>7, Zenon DEF Lose
  <2> QED
    BY <2>1, <2>2, <1>a, <1>c DEF AtHome
<1>8. ASSUME NEW c \in DOMAIN calls, NEW n \in Nodes, NEW e \in BOOLEAN, ForwardFails(c, n, e) PROVE FALSE
  BY <1>8, <1>a DEF ForwardFails
<1>9. ASSUME NEW n \in Nodes, Close(n) PROVE FALSE
  BY <1>9, <1>a DEF Close
<1>10. ASSUME NEW u \in Users, NEW n \in Nodes \cup {NoNode}, Move(u, n) PROVE FALSE
  BY <1>10, <1>a DEF Move
<1>11. CASE UNCHANGED vars
  BY <1>11, <1>c, Zenon DEF vars, DeliveredAtOwner
<1>12. ASSUME NEW c \in DOMAIN calls, Handle(c)
       PROVE  DeliveredAtOwner' /\ \A d \in DOMAIN calls' : AtHome(calls'[d], route')
  BY <1>12, <1>2, <1>3, <1>4, <1>5, <1>6, <1>7, <1>8, Zenon DEF Handle
<1> QED
  BY <1>1, <1>9, <1>10, <1>11, <1>12, Zenon DEF Next

-----------------------------------------------------------------------------
(* Requests and their numbers *)

\* The requests that have executions.
Reqs(cs) == {cs[c].req : c \in DOMAIN cs}

\* A step in which no execution begins and no copy is written keeps Numbered.
LEMMA NumberedFrame ==
    ASSUME Numbered, DOMAIN calls' = DOMAIN calls, delivered' = delivered,
           \A d \in DOMAIN calls : /\ SameCall(calls'[d], calls[d])
                                   /\ calls[d].pc \in {"ok", "error"} =>
                                         calls'[d].pc = calls[d].pc /\ calls'[d].local = calls[d].local
    PROVE  Numbered'
<1>1. Reqs(calls') = Reqs(calls)
  BY Zenon DEF Reqs, SameCall
<1>2. (Reqs(calls) = 1..Issued)'
  BY <1>1, Zenon DEF Issued, Numbered, Reqs
<1>3. \A c, d \in DOMAIN calls' : calls'[c].req = calls'[d].req =>
          /\ calls'[c].recips = calls'[d].recips
          /\ calls'[c].deliverTo = {} /\ calls'[d].deliverTo = {} => c = d
  BY DEF Numbered, SameCall
<1>4. ASSUME NEW r \in Requests, NEW u \in Users, NEW n \in Nodes, delivered'[r][u][n] > 0
      PROVE  \E c \in DOMAIN calls' : /\ calls'[c].req = r /\ calls'[c].node = n
                                      /\ calls'[c].pc \in {"ok", "error"} /\ u \in Delivers(calls'[c])
  <2>1. PICK c \in DOMAIN calls : /\ calls[c].req = r /\ calls[c].node = n
                                  /\ calls[c].pc \in {"ok", "error"} /\ u \in Delivers(calls[c])
    BY <1>4 DEF Numbered
  <2>2. calls'[c].req = r /\ calls'[c].node = n /\ calls'[c].pc \in {"ok", "error"} /\ u \in Delivers(calls'[c])
    BY <2>1, Zenon DEF SameCall, Delivers
  <2> QED
    BY <2>2, Zenon
<1> QED
  BY <1>2, <1>3, <1>4, Zenon DEF Numbered, Reqs

\* Copies are only written by executions that end, and the executions of a request
\* agree on its recipients.
LEMMA NumberedStep == Counting /\ CoverInv /\ Numbered /\ [Next]_vars => Numbered'
<1> SUFFICES ASSUME Counting, CoverInv, Numbered, [Next]_vars PROVE Numbered'
  BY Zenon
<1>a. TypeOK /\ calls \in Seq(Frames) /\ Issued \in Nat
  BY IssuedType, Zenon DEF CoverInv, TypeOK
<1>b. \A d \in DOMAIN calls : calls[d] \in Frames /\ Accounted(calls[d], calls, delivered)
  BY LenProperties DEF CoverInv, TypeOK
<1>c. Reqs(calls) = 1..Issued
  BY Zenon DEF Numbered, Reqs
<1>1. ASSUME NEW n \in Nodes, NEW R \in (SUBSET Users) \ {{}}, Arrive(n, R) PROVE Numbered'
  <2>0. PICK i, g, k : i = Issued /\ g = Frame(i + 1, n, R, {}) /\ k = Len(calls) + 1
    BY Zenon
  <2>1. calls' = Append(calls, g) /\ g \in Frames /\ delivered' = delivered
    BY <1>1, <1>a, <2>0, ArriveStep, Zenon
  <2>2. DOMAIN calls' = DOMAIN calls \cup {k} /\ k \notin DOMAIN calls
        /\ calls'[k] = g /\ \A d \in DOMAIN calls : calls'[d] = calls[d]
    BY <1>a, <2>0, <2>1, Begin
  <2>3. g.req = i + 1 /\ g.recips = R /\ g.deliverTo = {}
    BY <2>0, Zenon DEF Frame
  <2>4. Reqs(calls') = Reqs(calls) \cup {i + 1}
    BY <2>2, <2>3 DEF Reqs
  <2>5. Reqs(calls') = 1..(i + 1)
    BY <2>0, <2>4, <1>a, <1>c
  <2>6. Issued' = i + 1
    <3>1. Issued' = Cardinality(1..(i + 1))
      BY <2>5, Zenon DEF Issued, Reqs
    <3>2. Cardinality(1..(i + 1)) = i + 1
      <4>1. i + 1 \in Nat
        BY <2>0, <1>a
      <4> QED
        BY <4>1, Zenon DEF Counting
    <3> QED
      BY <3>1, <3>2, Zenon
  <2>7. \A d \in DOMAIN calls : calls[d].req # i + 1
    <3>1. \A d \in DOMAIN calls : calls[d].req \in 1..i
      BY <2>0, <1>c, Zenon DEF Reqs
    <3>2. i + 1 \notin 1..i
      BY <2>0, <1>a
    <3> QED
      BY <3>1, <3>2, Zenon
  <2>8. \A c, d \in DOMAIN calls' : calls'[c].req = calls'[d].req =>
          /\ calls'[c].recips = calls'[d].recips
          /\ calls'[c].deliverTo = {} /\ calls'[d].deliverTo = {} => c = d
    BY <2>2, <2>3, <2>7 DEF Numbered
  <2>9. \A r \in Requests, u \in Users, m \in Nodes : delivered'[r][u][m] > 0 =>
          \E c \in DOMAIN calls' : /\ calls'[c].req = r /\ calls'[c].node = m
                                   /\ calls'[c].pc \in {"ok", "error"} /\ u \in Delivers(calls'[c])
    BY <2>1, <2>2 DEF Numbered
  <2> QED
    BY <2>5, <2>6, <2>8, <2>9, Zenon DEF Numbered, Reqs
<1>2. ASSUME NEW c \in DOMAIN calls, NEW n \in Nodes, Forward(c, n) PROVE Numbered'
  <2>0. PICK f : f = calls[c]
    BY Zenon
  <2>1. /\ f.pc = "split" /\ f.groups[n] # {}
        /\ SameCall(calls'[c], f) /\ calls'[c].pc = "wait"
        /\ Begins(calls, calls', calls'[c].child, Frame(f.req, n, f.recips, f.groups[n]))
        /\ \A d \in DOMAIN calls \ {c} : calls'[d] = calls[d]
        /\ UNCHANGED <<route, delivered, failed, faults, moves>>
    BY <1>2, <2>0, <1>a, ForwardStep
  <2>2. PICK k : /\ DOMAIN calls' = DOMAIN calls \cup {k} /\ k \notin DOMAIN calls
                 /\ calls'[k] = Frame(f.req, n, f.recips, f.groups[n])
    BY <2>1, Zenon DEF Begins
  <2>3. calls'[k].req = f.req /\ calls'[k].recips = f.recips /\ calls'[k].deliverTo # {}
    BY <2>1, <2>2, SMTT(30) DEF Frame
  <2>4. \A d \in DOMAIN calls : SameCall(calls'[d], calls[d])
    BY <2>0, <2>1, Zenon DEF SameCall
  <2>5. Reqs(calls') = Reqs(calls)
    BY <2>0, <2>2, <2>3, <2>4 DEF Reqs, SameCall
  <2>6. (Reqs(calls) = 1..Issued)'
    BY <2>5, <1>c, Zenon DEF Issued, Reqs
  <2>7. \A b, d \in DOMAIN calls' : calls'[b].req = calls'[d].req =>
          /\ calls'[b].recips = calls'[d].recips
          /\ calls'[b].deliverTo = {} /\ calls'[d].deliverTo = {} => b = d
    BY <2>0, <2>2, <2>3, <2>4 DEF Numbered, SameCall
  <2>8. \A r \in Requests, u \in Users, m \in Nodes : delivered'[r][u][m] > 0 =>
          \E d \in DOMAIN calls' : /\ calls'[d].req = r /\ calls'[d].node = m
                                   /\ calls'[d].pc \in {"ok", "error"} /\ u \in Delivers(calls'[d])
    BY <2>0, <2>1, <2>2 DEF Numbered
  <2> QED
    BY <2>6, <2>7, <2>8, Zenon DEF Numbered, Reqs
<1>3. ASSUME NEW c \in DOMAIN calls, NEW got \in SUBSET Users, DeliverLocal(c, got) PROVE Numbered'
  <2>0. PICK f : f = calls[c]
    BY Zenon
  <2>1. /\ f.pc = "split"
        /\ got \subseteq Delivers(f)
        /\ DOMAIN calls' = DOMAIN calls
        /\ SameCall(calls'[c], f) /\ calls'[c].groups = f.groups /\ calls'[c].local = f.local
        /\ calls'[c].pc = IF got = Delivers(f) THEN "ok" ELSE "error"
        /\ \A d \in DOMAIN calls \ {c} : calls'[d] = calls[d]
        /\ \A r \in Requests, u \in Users, n \in Nodes :
              delivered'[r][u][n] = IF r = f.req /\ u \in got /\ n = f.node
                                    THEN delivered[r][u][n] + 1 ELSE delivered[r][u][n]
    BY <1>3, <2>0, <1>a, DeliverStep
  <2>2. \A d \in DOMAIN calls : SameCall(calls'[d], calls[d])
    BY <2>0, <2>1, Zenon DEF SameCall
  <2>3. Reqs(calls') = Reqs(calls)
    BY <2>1, <2>2 DEF Reqs, SameCall
  <2>4. (Reqs(calls) = 1..Issued)'
    BY <2>3, <1>c, Zenon DEF Issued, Reqs
  <2>5. \A b, d \in DOMAIN calls' : calls'[b].req = calls'[d].req =>
          /\ calls'[b].recips = calls'[d].recips
          /\ calls'[b].deliverTo = {} /\ calls'[d].deliverTo = {} => b = d
    BY <2>1, <2>2 DEF Numbered, SameCall
  <2>6. ASSUME NEW r \in Requests, NEW u \in Users, NEW m \in Nodes, delivered'[r][u][m] > 0
        PROVE  \E d \in DOMAIN calls' : /\ calls'[d].req = r /\ calls'[d].node = m
                                        /\ calls'[d].pc \in {"ok", "error"} /\ u \in Delivers(calls'[d])
    <3>1. CASE r = f.req /\ u \in got /\ m = f.node
      <4>1. calls'[c].req = r /\ calls'[c].node = m /\ calls'[c].pc \in {"ok", "error"} /\ u \in Delivers(calls'[c])
        BY <2>1, <3>1, Zenon DEF SameCall, Delivers
      <4> QED
        BY <2>1, <4>1, Zenon
    <3>2. CASE delivered[r][u][m] > 0
      <4>1. PICK d \in DOMAIN calls : /\ calls[d].req = r /\ calls[d].node = m
                                      /\ calls[d].pc \in {"ok", "error"} /\ u \in Delivers(calls[d])
        BY <3>2 DEF Numbered
      <4>2. d # c
        BY <2>0, <2>1, <4>1, Zenon
      <4> QED
        BY <2>1, <4>1, <4>2, Zenon
    <3> QED
      BY <2>1, <2>6, <3>1, <3>2, Zenon
  <2> QED
    BY <2>4, <2>5, <2>6, Zenon DEF Numbered, Reqs
<1>4. ASSUME NEW c \in DOMAIN calls, calls[c].pc \notin {"ok", "error"}, DOMAIN calls' = DOMAIN calls,
             delivered' = delivered, SameCall(calls'[c], calls[c]),
             \A d \in DOMAIN calls \ {c} : CutOnly(calls'[d], calls[d])
      PROVE  Numbered'
  <2>1. \A d \in DOMAIN calls \ {c} : SameCall(calls'[d], calls[d]) /\ calls'[d].pc = calls[d].pc
                                      /\ calls'[d].local = calls[d].local
    BY <1>4, <1>b, CutKeeps, Zenon
  <2> QED
    BY <1>4, <2>1, NumberedFrame, Zenon
<1>5. ASSUME NEW c \in DOMAIN calls, NEW bad \in SUBSET Users, Classify(c, bad) PROVE Numbered'
  <2>0. PICK f : f = calls[c]
    BY Zenon
  <2>1. /\ f.pc = "classify" /\ SameCall(calls'[c], f) /\ DOMAIN calls' = DOMAIN calls
        /\ \A d \in DOMAIN calls \ {c} : calls'[d] = calls[d]
        /\ delivered' = delivered
    BY <1>5, <2>0, <1>a, ClassifyStep, Zenon
  <2> QED
    BY <2>0, <2>1, <1>4, Zenon DEF CutOnly
<1>6. ASSUME NEW c \in DOMAIN calls, NEW f \in Frames, calls[c].pc \in {"split", "wait"},
             SameCall(f, calls[c]), f.target \in Nodes, NEW e \in BOOLEAN, ForwardError(c, f, e), delivered' = delivered
      PROVE  Numbered'
  <2>1. f.req = calls[c].req
    BY <1>6, Zenon DEF SameCall
  <2>2. DOMAIN calls' = DOMAIN calls /\ calls'[c] = FellBack(f)
        /\ \A d \in DOMAIN calls \ {c} : CutOnly(calls'[d], calls[d])
    BY <1>6, <1>a, <2>1, ErrorStep, Zenon
  <2>3. SameCall(calls'[c], calls[c])
    <3>1. SameCall(FellBack(f), f)
      BY <1>6, BackStep, Zenon
    <3> QED
      BY <1>6, <2>2, <3>1, Zenon DEF SameCall
  <2> QED
    BY <1>4, <1>6, <2>2, <2>3, Zenon
<1>7. ASSUME NEW c \in DOMAIN calls, NEW n \in Nodes, NEW e \in BOOLEAN, ForwardFails(c, n, e) PROVE Numbered'
  <2>0. PICK f : f = [calls[c] EXCEPT !.target = n]
    BY Zenon
  <2>1. calls[c].pc = "split" /\ ForwardError(c, f, e) /\ delivered' = delivered
    BY <1>7, <2>0, Zenon DEF ForwardFails, Running
  <2>2. f \in Frames /\ f.target = n /\ SameCall(f, calls[c])
    BY <2>0, <1>b, Zenon DEF Frames, SameCall
  <2> QED
    BY <2>1, <2>2, <1>6, Zenon
<1>8. ASSUME NEW c \in DOMAIN calls, NEW e \in BOOLEAN, calls[c].pc = "wait", ForwardError(c, calls[c], e), delivered' = delivered
      PROVE  Numbered'
  <2>0. PICK f : f = calls[c]
    BY Zenon
  <2>1. f \in Frames /\ f.target \in Nodes /\ SameCall(f, calls[c])
    BY <2>0, <1>8, <1>b, Zenon DEF Accounted, SameCall
  <2> QED
    BY <2>0, <2>1, <1>8, <1>6, Zenon
<1>9. ASSUME NEW c \in DOMAIN calls, NEW e \in BOOLEAN, Lose(c, e) PROVE Numbered'
  BY <1>9, <1>8, Zenon DEF Lose, Running
<1>10. ASSUME NEW c \in DOMAIN calls, NEW g \in Frames, SameCall(g, calls[c]), calls[c].pc \in {"split", "wait"},
              calls' = [calls EXCEPT ![c] = g], delivered' = delivered
       PROVE  Numbered'
  <2>1. DOMAIN calls' = DOMAIN calls /\ calls'[c] = g /\ \A d \in DOMAIN calls \ {c} : calls'[d] = calls[d]
    BY <1>10, <1>a, MoveOn, Zenon
  <2> QED
    BY <1>4, <1>10, <2>1, Zenon DEF CutOnly
<1>11. ASSUME NEW c \in DOMAIN calls, NEW e \in BOOLEAN, Return(c, e) PROVE Numbered'
  <2>0. PICK f, g : f = calls[c] /\ g = Forwarded(f)
    BY Zenon
  <2>1. f.pc = "wait" /\ delivered' = delivered
    BY <1>11, <2>0, Zenon DEF Return, Running
  <2>2. f \in Frames /\ f.target \in Nodes
    BY <2>0, <2>1, <1>b, Zenon DEF Accounted
  <2>3. g \in Frames /\ SameCall(g, f)
    BY <2>0, <2>2, BackStep, Zenon
  <2>4. ForwardError(c, f, e) \/ calls' = [calls EXCEPT ![c] = g]
    BY <1>11, <2>0, Zenon DEF Return
  <2> QED
    BY <2>0, <2>1, <2>3, <2>4, <1>8, <1>10, Zenon
<1>12. ASSUME NEW c \in DOMAIN calls, AnswerForwarded(c) PROVE Numbered'
  <2>0. PICK f, g : f = calls[c] /\ g = [f EXCEPT !.pc = "ok"]
    BY Zenon
  <2>1. f.pc = "split" /\ calls' = [calls EXCEPT ![c] = g] /\ delivered' = delivered
    BY <1>12, <2>0, Zenon DEF AnswerForwarded, Running
  <2>2. g \in Frames /\ SameCall(g, f)
    BY <2>0, <1>b, Zenon DEF Frames, SameCall
  <2> QED
    BY <2>0, <2>1, <2>2, <1>10, Zenon
<1>13. ASSUME NEW n \in Nodes, Close(n) PROVE Numbered'
  <2>1. DOMAIN calls' = DOMAIN calls /\ delivered' = delivered
        /\ \A d \in DOMAIN calls : CutOnly(calls'[d], calls[d])
    BY <1>13, <1>a, CloseStep, Zenon
  <2>2. \A d \in DOMAIN calls : SameCall(calls'[d], calls[d]) /\ calls'[d].pc = calls[d].pc
                                /\ calls'[d].local = calls[d].local
    BY <2>1, <1>b, CutKeeps, Zenon
  <2> QED
    BY <2>1, <2>2, NumberedFrame, Zenon
<1>14. CASE UNCHANGED <<calls, delivered>>
  BY <1>14 DEF Numbered, Issued
<1>15. ASSUME NEW u \in Users, NEW n \in Nodes \cup {NoNode}, Move(u, n) PROVE Numbered'
  BY <1>14, <1>15, Zenon DEF Move
<1>16. CASE UNCHANGED vars
  BY <1>14, <1>16, Zenon DEF vars
<1>17. ASSUME NEW c \in DOMAIN calls, Handle(c) PROVE Numbered'
  BY <1>17, <1>2, <1>3, <1>5, <1>7, <1>9, <1>11, <1>12, Zenon DEF Handle
<1> QED
  BY <1>1, <1>13, <1>15, <1>16, <1>17, Zenon DEF Next

-----------------------------------------------------------------------------
(* CopiesPaidFor *)

\* What PaidInv asks of stage g of execution f, among executions cs.
Settled(g, f, cs, rt, F) ==
    /\ SameCall(g, f) /\ Grouped(g, rt)
    /\ Together(f.recips, rt) =>
          /\ Single(g, rt)
          /\ f.deliverTo = {} =>
                \A d \in DOMAIN cs : cs[d].req = f.req /\ cs[d].deliverTo # {} => Paired(g, cs[d], F)

\* A step in which no execution begins keeps PaidInv if each execution that it
\* moves on is settled and no second copy is written.
LEMMA PaidFrame ==
    ASSUME CoverInv, PaidInv, moves = 0, UNCHANGED <<route, moves>>, DOMAIN calls' = DOMAIN calls,
           \A d \in DOMAIN calls : CutOnly(calls'[d], calls[d]) \/ Settled(calls'[d], calls[d], calls, route, failed'),
           failed' \in [Requests -> Nat], \A r \in Requests : failed'[r] >= failed[r],
           \A c \in DOMAIN calls : Together(calls[c].recips, route) =>
              \A u \in Users, n \in Nodes : delivered'[calls[c].req][u][n] <= 1
    PROVE  PaidInv'
<1>a. \A d \in DOMAIN calls : calls[d] \in Frames /\ calls[d].req \in Requests
  <2>1. \A d \in DOMAIN calls : calls[d] \in Frames
    BY LenProperties DEF CoverInv, TypeOK
  <2> QED
    BY <2>1, Zenon DEF Frames
<1>b. failed \in [Requests -> Nat]
  BY Zenon DEF CoverInv, TypeOK
<1>1. ASSUME NEW c \in DOMAIN calls
      PROVE  /\ SameCall(calls'[c], calls[c]) /\ Grouped(calls'[c], route)
             /\ Together(calls[c].recips, route) =>
                   /\ Single(calls'[c], route)
                   /\ calls[c].deliverTo = {} => \A d \in DOMAIN calls :
                         calls[d].req = calls[c].req /\ calls[d].deliverTo # {} => Paired(calls'[c], calls[d], failed')
  <2>1. CASE Settled(calls'[c], calls[c], calls, route, failed')
    BY <2>1, Zenon DEF Settled
  <2>2. CASE CutOnly(calls'[c], calls[c])
    <3>1. /\ SameCall(calls'[c], calls[c]) /\ calls'[c].pc = calls[c].pc
          /\ calls'[c].groups = calls[c].groups /\ calls'[c].local = calls[c].local
      BY <2>2, <1>a, CutKeeps, Zenon
    <3>2. Grouped(calls'[c], route)
      BY <3>1 DEF PaidInv, Grouped, SameCall
    <3>3. ASSUME Together(calls[c].recips, route) PROVE Single(calls'[c], route)
      BY <3>1, <3>3, Zenon DEF PaidInv, Single, SameCall
    <3>4. ASSUME Together(calls[c].recips, route), calls[c].deliverTo = {}, NEW d \in DOMAIN calls,
                 calls[d].req = calls[c].req, calls[d].deliverTo # {}
          PROVE  Paired(calls'[c], calls[d], failed')
      <4>1. Paired(calls[c], calls[d], failed)
        BY <3>4, Zenon DEF PaidInv
      <4>2. failed[calls[c].req] >= 1 => failed'[calls[c].req] >= 1
        BY <1>a, <1>b
      <4> QED
        BY <3>1, <4>1, <4>2, Zenon DEF Paired, SameCall
    <3> QED
      BY <3>1, <3>2, <3>3, <3>4, Zenon
  <2> QED
    BY <2>1, <2>2, Zenon
<1>2. ASSUME NEW c \in DOMAIN calls, Together(calls'[c].recips, route)
      PROVE  /\ Single(calls'[c], route)
             /\ \A u \in Users, n \in Nodes : delivered'[calls'[c].req][u][n] <= 1
             /\ \A d \in DOMAIN calls : calls'[c].req = calls'[d].req /\ calls'[d].deliverTo # {} =>
                   IF calls'[c].deliverTo # {} THEN c = d ELSE Paired(calls'[c], calls'[d], failed')
  <2>1. SameCall(calls'[c], calls[c]) /\ Together(calls[c].recips, route)
    BY <1>1, <1>2, Zenon DEF SameCall
  <2>2. ASSUME NEW d \in DOMAIN calls, calls'[c].req = calls'[d].req, calls'[d].deliverTo # {}
        PROVE  IF calls'[c].deliverTo # {} THEN c = d ELSE Paired(calls'[c], calls'[d], failed')
    <3>1. SameCall(calls'[d], calls[d]) /\ calls[c].req = calls[d].req /\ calls[d].deliverTo # {}
      BY <1>1, <2>1, <2>2, Zenon DEF SameCall
    <3>2. CASE calls'[c].deliverTo # {}
      BY <2>1, <3>1, <3>2, Zenon DEF PaidInv, SameCall
    <3>3. CASE calls'[c].deliverTo = {}
      <4>1. Paired(calls'[c], calls[d], failed')
        BY <1>1, <2>1, <3>1, <3>3, Zenon DEF SameCall
      <4> QED
        BY <3>1, <3>3, <4>1, Zenon DEF Paired, SameCall
    <3> QED
      BY <3>2, <3>3, Zenon
  <2>3. \A u \in Users, n \in Nodes : delivered'[calls'[c].req][u][n] <= 1
    BY <2>1, Zenon DEF SameCall
  <2> QED
    BY <1>1, <2>1, <2>2, <2>3, Zenon
<1> QED
  BY <1>1, <1>2, Zenon DEF PaidInv

\* When the recipients have one owner, only that node's group is not empty.
LEMMA OneGroup ==
    ASSUME NEW f \in Frames, Grouped(f, route), Together(f.recips, route),
           NEW n \in Nodes, f.groups[n] # {}, \A m \in Nodes : f.groups[m] \subseteq f.recips
    PROVE  /\ \A m \in Nodes \ {n} : f.groups[m] = {}
           /\ \A u \in f.recips : route[u] = n
<1>1. PICK u \in f.groups[n] : route[u] = n
  BY Zenon DEF Grouped
<1> QED
  BY <1>1 DEF Grouped, Together

\* After a forward, whether it succeeded or fell back, the execution is settled.
LEMMA EndSettles ==
    ASSUME CoverInv, PaidInv, moves = 0, NEW c \in DOMAIN calls, NEW n \in Nodes,
           calls[c].pc \in {"split", "wait"}, calls[c].groups[n] # {}, NEW g, SameCall(g, calls[c]),
           g.pc = "split", g.groups = [calls[c].groups EXCEPT ![n] = {}],
           NEW F, \A r \in Requests : F[r] >= failed[r], F \in [Requests -> Nat],
           \/ g.local = calls[c].local
           \/ g.local = calls[c].local \cup calls[c].groups[n] /\ F[calls[c].req] >= 1
    PROVE  Settled(g, calls[c], calls, route, F)
<1>0. PICK f : f = calls[c]
  BY Zenon
<1>1. f \in Frames /\ Accounted(f, calls, delivered) /\ Grouped(f, route)
  BY <1>0, LenProperties DEF CoverInv, TypeOK, PaidInv
<1>2. f.groups \in [Nodes -> SUBSET Users] /\ f.req \in Requests /\ \A m \in Nodes : f.groups[m] \subseteq f.recips
  BY <1>1, Zenon DEF Frames, Accounted
<1>3. \A m \in Nodes : g.groups[m] = IF m = n THEN {} ELSE f.groups[m]
  BY <1>0, <1>2, Zenon
<1>4. Grouped(g, route)
  BY <1>0, <1>1, <1>3 DEF Grouped, SameCall
<1>5. ASSUME Together(f.recips, route) PROVE g.groups = Nothing /\ \A m \in Nodes \ {n} : f.groups[m] = {}
  <2>1. \A m \in Nodes \ {n} : f.groups[m] = {}
    BY <1>0, <1>1, <1>2, <1>5, OneGroup, Zenon
  <2> QED
    BY <1>0, <1>2, <1>3, <2>1, Zenon DEF Nothing
<1>6. ASSUME Together(f.recips, route) PROVE Single(g, route)
  BY <1>0, <1>5, <1>6, ZenonT(30) DEF PaidInv, Single, SameCall
<1>7. ASSUME Together(f.recips, route), f.deliverTo = {}, NEW d \in DOMAIN calls, calls[d].req = f.req, calls[d].deliverTo # {}
      PROVE  Paired(g, calls[d], F)
  <2>1. Paired(f, calls[d], failed)
    BY <1>0, <1>7, Zenon DEF PaidInv
  <2>2. failed \in [Requests -> Nat]
    BY Zenon DEF CoverInv, TypeOK
  <2>3. failed[f.req] >= 1 => F[f.req] >= 1
    BY <1>2, <2>2
  <2> QED
    BY <1>0, <1>5, <1>7, <2>1, <2>3, Zenon DEF Paired, SameCall
<1> QED
  BY <1>0, <1>4, <1>6, <1>7, Zenon DEF Settled

\* Every step keeps PaidInv.
LEMMA PaidStep == Counting /\ CoverInv /\ Numbered /\ PaidInv /\ [Next]_vars => PaidInv'
<1> SUFFICES ASSUME Counting, CoverInv, Numbered, PaidInv, [Next]_vars, moves' = 0 PROVE PaidInv'
  BY Zenon DEF PaidInv
<1>a. /\ TypeOK /\ calls \in Seq(Frames) /\ Issued \in Nat /\ moves \in Nat /\ failed \in [Requests -> Nat]
      /\ \A r \in Requests, u \in Users, n \in Nodes : delivered[r][u][n] \in Nat
  BY IssuedType DEF CoverInv, TypeOK
<1>b. \A d \in DOMAIN calls : calls[d] \in Frames /\ Accounted(calls[d], calls, delivered)
  BY LenProperties DEF CoverInv, TypeOK
<1>c. \A d \in DOMAIN calls : calls[d].req \in Requests /\ calls[d].node \in Nodes
  BY <1>b, Zenon DEF Frames
<1>d. ASSUME moves = 0, NEW c \in DOMAIN calls
      PROVE  /\ Grouped(calls[c], route)
             /\ Together(calls[c].recips, route) =>
                  /\ Single(calls[c], route)
                  /\ \A u \in Users, n \in Nodes : delivered[calls[c].req][u][n] <= 1
                  /\ \A d \in DOMAIN calls : calls[c].req = calls[d].req /\ calls[d].deliverTo # {} =>
                        IF calls[c].deliverTo # {} THEN c = d ELSE Paired(calls[c], calls[d], failed)
  BY <1>d, Zenon DEF PaidInv
<1>e. \A c, d \in DOMAIN calls : calls[c].req = calls[d].req =>
          /\ calls[c].recips = calls[d].recips
          /\ calls[c].deliverTo = {} /\ calls[d].deliverTo = {} => c = d
  BY Zenon DEF Numbered
<1>1. ASSUME NEW n \in Nodes, NEW R \in (SUBSET Users) \ {{}}, Arrive(n, R) PROVE PaidInv'
  <2>0. PICK i, g, k : i = Issued /\ g = Frame(i + 1, n, R, {}) /\ k = Len(calls) + 1
    BY Zenon
  <2>1. calls' = Append(calls, g) /\ g \in Frames /\ UNCHANGED <<route, conns, delivered, failed, faults, moves>>
    BY <1>1, <1>a, <2>0, ArriveStep, Zenon
  <2>2. DOMAIN calls' = DOMAIN calls \cup {k} /\ k \notin DOMAIN calls
        /\ calls'[k] = g /\ \A d \in DOMAIN calls : calls'[d] = calls[d]
    BY <1>a, <2>0, <2>1, Begin, SMTT(30)
  <2>3. g.req = i + 1 /\ g.deliverTo = {} /\ g.groups = Nothing /\ i + 1 \in Requests
    BY <2>0, <2>1, Zenon DEF Frame, Frames
  <2>4. \A d \in DOMAIN calls : calls[d].req # i + 1
    <3>1. Reqs(calls) = 1..i
      BY <2>0, Zenon DEF Numbered, Reqs
    <3>2. \A d \in DOMAIN calls : calls[d].req \in 1..i
      BY <3>1, Zenon DEF Reqs
    <3> QED
      BY <2>0, <3>2, <1>a
  <2>5. \A u \in Users, m \in Nodes : delivered[i + 1][u][m] <= 1
    <3> TAKE u \in Users, m \in Nodes
    <3>1. ~(delivered[i + 1][u][m] > 0)
      BY <2>3, <2>4 DEF Numbered
    <3>2. delivered[i + 1][u][m] \in Nat
      BY <2>3, <1>a, Zenon
    <3> QED
      BY <3>1, <3>2
  <2>6. Grouped(g, route) /\ Single(g, route)
    BY <2>3, Zenon DEF Grouped, Nothing, Single
  <2>7. ASSUME NEW c \in DOMAIN calls
        PROVE  /\ Grouped(calls'[c], route)
               /\ Together(calls'[c].recips, route) =>
                    /\ Single(calls'[c], route)
                    /\ \A u \in Users, m \in Nodes : delivered[calls'[c].req][u][m] <= 1
                    /\ \A d \in DOMAIN calls' : calls'[c].req = calls'[d].req /\ calls'[d].deliverTo # {} =>
                          IF calls'[c].deliverTo # {} THEN c = d ELSE Paired(calls'[c], calls'[d], failed)
    BY <2>1, <2>2, <2>3, <1>d, Zenon
  <2>8. \A d \in DOMAIN calls' : calls'[k].req = calls'[d].req => calls'[d].deliverTo = {}
    BY <2>2, <2>3, <2>4, Zenon
  <2> QED
    BY <2>1, <2>2, <2>3, <2>5, <2>6, <2>7, <2>8, SMTT(30) DEF PaidInv
<1>2. ASSUME NEW c \in DOMAIN calls, NEW n \in Nodes, Forward(c, n) PROVE PaidInv'
  <2>0. PICK f : f = calls[c]
    BY Zenon
  <2>1. /\ f.pc = "split" /\ f.groups[n] # {}
        /\ SameCall(calls'[c], f) /\ calls'[c].pc = "wait"
        /\ calls'[c].groups = f.groups /\ calls'[c].local = f.local
        /\ Begins(calls, calls', calls'[c].child, Frame(f.req, n, f.recips, f.groups[n]))
        /\ \A d \in DOMAIN calls \ {c} : calls'[d] = calls[d]
        /\ UNCHANGED <<route, delivered, failed, faults, moves>>
    BY <1>2, <2>0, <1>a, ForwardStep, SMTT(30)
  <2>2. PICK k : /\ DOMAIN calls' = DOMAIN calls \cup {k} /\ k \notin DOMAIN calls
                 /\ calls'[k] = Frame(f.req, n, f.recips, f.groups[n])
    BY <2>1, Zenon DEF Begins
  <2>3. /\ calls'[k].req = f.req /\ calls'[k].recips = f.recips /\ calls'[k].deliverTo = f.groups[n]
        /\ calls'[k].node = n /\ calls'[k].groups = Nothing
    BY <2>2, SMTT(30) DEF Frame
  <2>4. Grouped(f, route) /\ f \in Frames /\ \A m \in Nodes : f.groups[m] \subseteq f.recips
    BY <2>0, <2>1, <1>b, <1>d, Zenon DEF Accounted
  <2>5. \A d \in DOMAIN calls : /\ SameCall(calls'[d], calls[d]) /\ calls'[d].groups = calls[d].groups
                                /\ calls'[d].local = calls[d].local
    BY <2>0, <2>1, Zenon DEF SameCall
  <2>6. \A d \in DOMAIN calls' : Grouped(calls'[d], route)
    <3>1. Grouped(calls'[k], route)
      BY <2>3, Zenon DEF Grouped, Nothing
    <3>2. ASSUME NEW d \in DOMAIN calls PROVE Grouped(calls'[d], route)
      BY <2>1, <2>5, <1>d, SMTT(30) DEF Grouped, SameCall
    <3> QED
      BY <2>2, <3>1, <3>2, Zenon
  <2>7. ASSUME Together(f.recips, route) PROVE f.deliverTo = {} /\ \A d \in DOMAIN calls : calls[d].req = f.req => calls[d].deliverTo = {}
    <3>1. f.groups # Nothing
      BY <2>1, Zenon DEF Nothing
    <3>2. f.deliverTo = {}
      BY <2>0, <2>1, <2>7, <3>1, <1>d, Zenon DEF Single
    <3>3. ASSUME NEW d \in DOMAIN calls, calls[d].req = f.req, calls[d].deliverTo # {} PROVE FALSE
      <4>1. Paired(f, calls[d], failed)
        BY <2>0, <2>1, <2>7, <3>2, <3>3, <1>d, Zenon
      <4> QED
        BY <2>1, <3>1, <4>1, Zenon DEF Paired
    <3> QED
      BY <3>2, <3>3, Zenon
  <2>8. ASSUME NEW b \in DOMAIN calls', Together(calls'[b].recips, route)
        PROVE  /\ Single(calls'[b], route)
               /\ \A u \in Users, m \in Nodes : delivered[calls'[b].req][u][m] <= 1
               /\ \A d \in DOMAIN calls' : calls'[b].req = calls'[d].req /\ calls'[d].deliverTo # {} =>
                     IF calls'[b].deliverTo # {} THEN b = d ELSE Paired(calls'[b], calls'[d], failed)
    <3>1. CASE b = k
      <4>1. Together(f.recips, route)
        BY <2>3, <2>8, <3>1, Zenon
      <4>2. \A u \in f.recips : route[u] = n
        BY <2>1, <2>4, <4>1, OneGroup, Zenon
      <4>3. Single(calls'[k], route)
        BY <2>3, <4>2, Zenon DEF Single
      <4>4. \A u \in Users, m \in Nodes : delivered[f.req][u][m] <= 1
        BY <2>0, <2>1, <4>1, <1>d, Zenon
      <4>5. \A d \in DOMAIN calls' : calls'[d].req = f.req /\ calls'[d].deliverTo # {} => d = k
        BY <2>2, <2>5, <2>7, <4>1, Zenon DEF SameCall
      <4> QED
        BY <2>1, <2>3, <3>1, <4>3, <4>4, <4>5, Zenon
    <3>2. CASE b \in DOMAIN calls
      <4>0. SameCall(calls'[b], calls[b]) /\ Together(calls[b].recips, route)
        BY <2>5, <2>8, <3>2, Zenon DEF SameCall
      <4>1. Single(calls'[b], route)
        BY <2>1, <2>5, <3>2, <4>0, <1>d, ZenonT(30) DEF Single, SameCall
      <4>2. \A u \in Users, m \in Nodes : delivered[calls'[b].req][u][m] <= 1
        BY <2>1, <3>2, <4>0, <1>d, Zenon DEF SameCall
      <4>3. ASSUME NEW d \in DOMAIN calls', calls'[b].req = calls'[d].req, calls'[d].deliverTo # {}
            PROVE  IF calls'[b].deliverTo # {} THEN b = d ELSE Paired(calls'[b], calls'[d], failed)
        <5>1. CASE d = k
          <6>1. calls[b].req = f.req /\ Together(f.recips, route)
            BY <2>0, <2>3, <3>2, <4>0, <4>3, <5>1, <1>e, Zenon DEF SameCall
          <6>2. b = c /\ calls'[b].deliverTo = {}
            BY <2>0, <2>7, <3>2, <4>0, <6>1, <1>e, Zenon DEF SameCall
          <6>3. PICK u \in f.groups[n] : n # f.node
            BY <2>1, <2>4, Zenon DEF Grouped
          <6>4. f.local \cap f.groups[n] = {}
            BY <2>4, Zenon DEF Grouped
          <6>5. Paired(calls'[c], calls'[k], failed)
            BY <2>1, <2>3, <6>3, <6>4, Zenon DEF Paired, SameCall
          <6> QED
            BY <5>1, <6>2, <6>5, Zenon
        <5>2. CASE d \in DOMAIN calls
          <6>1. SameCall(calls'[d], calls[d]) /\ calls[b].req = calls[d].req /\ calls[d].deliverTo # {}
            BY <2>5, <4>0, <4>3, <5>2, Zenon DEF SameCall
          <6>2. IF calls[b].deliverTo # {} THEN b = d ELSE Paired(calls[b], calls[d], failed)
            BY <2>1, <3>2, <4>0, <5>2, <6>1, <1>d, Zenon
          <6>3. b # c
            BY <2>0, <2>7, <4>0, <5>2, <6>1, Zenon
          <6>4. calls'[b] = calls[b]
            BY <2>1, <3>2, <6>3, Zenon
          <6> QED
            BY <6>1, <6>2, <6>4, Zenon DEF Paired, SameCall
        <5> QED
          BY <2>2, <5>1, <5>2, Zenon
      <4> QED
        BY <3>2, <4>1, <4>2, <4>3, Zenon
    <3> QED
      BY <2>2, <3>1, <3>2, Zenon
  <2> QED
    BY <2>1, <2>6, <2>8, Zenon DEF PaidInv
<1>3. ASSUME NEW c \in DOMAIN calls, NEW bad \in SUBSET Users, Classify(c, bad) PROVE PaidInv'
  <2>0. PICK f : f = calls[c]
    BY Zenon
  <2>1. /\ f.pc = "classify" /\ SameCall(calls'[c], f) /\ DOMAIN calls' = DOMAIN calls
        /\ calls'[c].local = {u \in f.recips : u \in bad \/ route[u] \in {NoNode, f.node}}
        /\ calls'[c].groups = [n \in Nodes |-> {u \in f.recips \ bad : n # f.node /\ route[u] = n}]
        /\ \A d \in DOMAIN calls \ {c} : calls'[d] = calls[d]
        /\ UNCHANGED <<route, conns, delivered, failed, moves>>
    BY <1>3, <2>0, <1>a, ClassifyStep
  <2>2. Grouped(calls'[c], route)
    BY <2>1, ForwarderAssumption, SMTT(30) DEF Grouped, SameCall
  <2>3. ASSUME Together(f.recips, route) PROVE Single(calls'[c], route)
    <3>1. Single(f, route)
      BY <2>0, <2>1, <2>3, <1>d, Zenon
    <3> QED
      BY <2>1, <3>1 DEF Single, SameCall, Nothing
  <2>4. ASSUME Together(f.recips, route), f.deliverTo = {}, NEW d \in DOMAIN calls, calls[d].req = f.req, calls[d].deliverTo # {}
        PROVE  FALSE
    BY <2>0, <2>1, <2>4, <1>d, Zenon DEF Paired
  <2>5. Settled(calls'[c], calls[c], calls, route, failed')
    BY <2>0, <2>1, <2>2, <2>3, <2>4, Zenon DEF Settled
  <2>6. \A r \in Requests : failed'[r] >= failed[r]
    BY <2>1, <1>a
  <2> QED
    BY <2>1, <2>5, <2>6, <1>a, <1>d, PaidFrame, Zenon DEF CutOnly
<1>4. ASSUME NEW c \in DOMAIN calls, NEW f \in Frames, NEW e \in BOOLEAN, ForwardError(c, f, e), SameCall(f, calls[c]),
             calls[c].pc \in {"split", "wait"}, f.groups = calls[c].groups, f.local = calls[c].local,
             f.target \in Nodes, f.groups[f.target] # {}, UNCHANGED <<route, delivered, moves>>
      PROVE  PaidInv'
  <2>1. f.req = calls[c].req /\ f.req \in Requests
    BY <1>4, <1>c, Zenon DEF SameCall
  <2>2. /\ DOMAIN calls' = DOMAIN calls /\ calls'[c] = FellBack(f)
        /\ \A d \in DOMAIN calls \ {c} : CutOnly(calls'[d], calls[d])
        /\ failed' \in [Requests -> Nat] /\ failed'[f.req] = failed[f.req] + 1
        /\ \A r \in Requests : failed'[r] >= failed[r]
    BY <1>4, <1>a, <2>1, ErrorStep, Zenon
  <2>3. SameCall(calls'[c], f) /\ calls'[c].pc = "split" /\ calls'[c].groups = [f.groups EXCEPT ![f.target] = {}]
        /\ calls'[c].local = f.local \cup f.groups[f.target]
    BY <1>4, <2>2, BackStep, ZenonT(30)
  <2>4. failed'[f.req] >= 1
    BY <2>1, <2>2, <1>a
  <2>5. SameCall(calls'[c], calls[c])
    BY <1>4, <2>3, Zenon DEF SameCall
  <2>6. Settled(calls'[c], calls[c], calls, route, failed')
    BY <1>4, <2>1, <2>2, <2>3, <2>4, <2>5, EndSettles, Zenon
  <2> QED
    BY <1>4, <2>2, <2>6, <1>d, PaidFrame, Zenon
<1>5. ASSUME NEW c \in DOMAIN calls, NEW n \in Nodes, NEW e \in BOOLEAN, ForwardFails(c, n, e) PROVE PaidInv'
  <2>0. PICK f : f = [calls[c] EXCEPT !.target = n]
    BY Zenon
  <2>1. calls[c].pc = "split" /\ calls[c].groups[n] # {} /\ ForwardError(c, f, e) /\ UNCHANGED <<route, delivered, moves>>
    BY <1>5, <2>0, Zenon DEF ForwardFails, Running
  <2>2. f \in Frames /\ f.target = n /\ SameCall(f, calls[c]) /\ f.groups = calls[c].groups /\ f.local = calls[c].local
    BY <2>0, <1>b, Zenon DEF Frames, SameCall
  <2> QED
    BY <2>1, <2>2, <1>4, Zenon
<1>6. ASSUME NEW c \in DOMAIN calls, NEW e \in BOOLEAN, calls[c].pc = "wait", ForwardError(c, calls[c], e),
             UNCHANGED <<route, delivered, moves>>
      PROVE  PaidInv'
  <2>0. PICK f : f = calls[c]
    BY Zenon
  <2>1. f \in Frames /\ f.target \in Nodes /\ SameCall(f, calls[c]) /\ f.groups[f.target] # {}
    BY <2>0, <1>6, <1>b, Zenon DEF Accounted, SameCall
  <2> QED
    BY <2>0, <2>1, <1>4, <1>6, Zenon
<1>7. ASSUME NEW c \in DOMAIN calls, NEW e \in BOOLEAN, Lose(c, e) PROVE PaidInv'
  BY <1>6, <1>7, Zenon DEF Lose, Running
<1>8. ASSUME NEW c \in DOMAIN calls, NEW e \in BOOLEAN, Return(c, e) PROVE PaidInv'
  <2>0. PICK f, g : f = calls[c] /\ g = Forwarded(f)
    BY Zenon
  <2>1. f.pc = "wait" /\ UNCHANGED <<route, delivered, moves>>
    BY <1>8, <2>0, Zenon DEF Return, Running
  <2>2. f \in Frames /\ f.target \in Nodes /\ f.groups[f.target] # {}
    BY <2>0, <2>1, <1>b, Zenon DEF Accounted
  <2>3. /\ g \in Frames /\ SameCall(g, f) /\ g.pc = "split" /\ g.local = f.local
        /\ g.groups = [f.groups EXCEPT ![f.target] = {}]
    BY <2>0, <2>2, BackStep, Zenon
  <2>4. CASE ForwardError(c, f, e)
    BY <2>0, <2>1, <2>4, <1>6, Zenon
  <2>5. CASE calls' = [calls EXCEPT ![c] = g] /\ failed' = failed
    <3>1. DOMAIN calls' = DOMAIN calls /\ calls'[c] = g /\ \A d \in DOMAIN calls \ {c} : calls'[d] = calls[d]
      BY <2>3, <2>5, <1>a, MoveOn, Zenon
    <3>2. \A r \in Requests : failed'[r] >= failed[r]
      BY <2>5, <1>a
    <3>3. PICK n \in Nodes : n = f.target
      BY <2>2, Zenon
    <3>4. Settled(g, calls[c], calls, route, failed')
      BY <2>0, <2>1, <2>2, <2>3, <2>5, <3>2, <3>3, <1>a, EndSettles, Zenon
    <3> QED
      BY <2>1, <2>5, <3>1, <3>2, <3>4, <1>a, <1>d, PaidFrame, Zenon DEF CutOnly
  <2> QED
    BY <1>8, <2>0, <2>4, <2>5, Zenon DEF Return
<1>9. ASSUME NEW c \in DOMAIN calls, NEW g, SameCall(g, calls[c]), g.groups = calls[c].groups, g.local = calls[c].local,
             g.groups = Nothing, g.pc # "classify", moves = 0
      PROVE  Settled(g, calls[c], calls, route, failed)
  <2>0. PICK f : f = calls[c]
    BY Zenon
  <2>1. Grouped(g, route)
    BY <1>9, Zenon DEF Grouped, Nothing
  <2>2. ASSUME Together(f.recips, route) PROVE Single(g, route)
    BY <2>0, <1>9, <2>2, <1>d, Zenon DEF Single, SameCall
  <2>3. ASSUME Together(f.recips, route), f.deliverTo = {}, NEW d \in DOMAIN calls, calls[d].req = f.req, calls[d].deliverTo # {}
        PROVE  Paired(g, calls[d], failed)
    <3>1. Paired(f, calls[d], failed)
      BY <1>9, <2>0, <2>3, <1>d, Zenon
    <3> QED
      BY <1>9, <2>0, <3>1, Zenon DEF Paired, SameCall
  <2> QED
    BY <1>9, <2>0, <2>1, <2>2, <2>3, Zenon DEF Settled
<1>10. ASSUME NEW c \in DOMAIN calls, AnswerForwarded(c) PROVE PaidInv'
  <2>0. PICK f, g : f = calls[c] /\ g = [f EXCEPT !.pc = "ok"]
    BY Zenon
  <2>1. /\ f.groups = Nothing /\ calls' = [calls EXCEPT ![c] = g]
        /\ UNCHANGED <<route, conns, delivered, failed, faults, moves>>
    BY <1>10, <2>0, Zenon DEF AnswerForwarded
  <2>2. g \in Frames /\ SameCall(g, f) /\ g.pc = "ok" /\ g.groups = f.groups /\ g.local = f.local
    BY <2>0, <1>b, Zenon DEF Frames, SameCall
  <2>3. DOMAIN calls' = DOMAIN calls /\ calls'[c] = g /\ \A d \in DOMAIN calls \ {c} : calls'[d] = calls[d]
    BY <2>1, <2>2, <1>a, MoveOn, Zenon
  <2>4. Settled(g, calls[c], calls, route, failed)
    BY <2>0, <2>1, <2>2, <1>9, Zenon
  <2>5. \A r \in Requests : failed'[r] >= failed[r]
    BY <2>1, <1>a
  <2> QED
    BY <2>1, <2>3, <2>4, <2>5, <1>a, <1>d, PaidFrame, Zenon DEF CutOnly
<1>11. ASSUME NEW c \in DOMAIN calls, NEW got \in SUBSET Users, DeliverLocal(c, got) PROVE PaidInv'
  <2>0. PICK f : f = calls[c]
    BY Zenon
  <2>1. /\ f.pc = "split" /\ f.groups = Nothing
        /\ DOMAIN calls' = DOMAIN calls
        /\ SameCall(calls'[c], f) /\ calls'[c].groups = f.groups /\ calls'[c].local = f.local
        /\ calls'[c].pc = IF got = Delivers(f) THEN "ok" ELSE "error"
        /\ \A d \in DOMAIN calls \ {c} : calls'[d] = calls[d]
        /\ \A r \in Requests, u \in Users, n \in Nodes :
              delivered'[r][u][n] = IF r = f.req /\ u \in got /\ n = f.node
                                    THEN delivered[r][u][n] + 1 ELSE delivered[r][u][n]
        /\ UNCHANGED <<route, conns, failed, moves>>
    BY <1>11, <2>0, <1>a, DeliverStep, SMTT(30)
  <2>2. Settled(calls'[c], calls[c], calls, route, failed')
    BY <2>0, <2>1, <1>9, Zenon
  <2>3. \A r \in Requests : failed'[r] >= failed[r]
    BY <2>1, <1>a
  <2>4. ASSUME NEW b \in DOMAIN calls, Together(calls[b].recips, route), NEW u \in Users, NEW n \in Nodes
        PROVE  delivered'[calls[b].req][u][n] <= 1
    <3>1. CASE ~(calls[b].req = f.req /\ u \in got /\ n = f.node)
      BY <2>1, <2>4, <3>1, <1>c, <1>d, SMTT(30)
    <3>2. CASE calls[b].req = f.req /\ u \in got /\ n = f.node
      <4>1. Together(f.recips, route) /\ f.req \in Requests
        BY <2>0, <2>4, <3>2, <1>c, <1>e, Zenon
      <4>2. ASSUME delivered[f.req][u][n] > 0 PROVE FALSE
        <5>1. PICK d \in DOMAIN calls : calls[d].req = f.req /\ calls[d].node = n /\ calls[d].pc \in {"ok", "error"}
          BY <4>1, <4>2 DEF Numbered
        <5>2. d # c /\ Together(calls[d].recips, route) /\ calls[d].node = f.node
          BY <2>0, <2>1, <3>2, <4>1, <5>1, <1>e, Zenon
        <5>3. CASE f.deliverTo = {} /\ calls[d].deliverTo = {}
          BY <2>0, <5>1, <5>2, <5>3, <1>e, Zenon
        <5>4. CASE f.deliverTo # {} /\ calls[d].deliverTo # {}
          BY <2>0, <2>1, <4>1, <5>1, <5>2, <5>4, <1>d, Zenon
        <5>5. CASE f.deliverTo = {} /\ calls[d].deliverTo # {}
          BY <2>0, <2>1, <4>1, <5>1, <5>2, <5>5, <1>d, ZenonT(30) DEF Paired
        <5>6. CASE f.deliverTo # {} /\ calls[d].deliverTo = {}
          BY <2>0, <2>1, <4>1, <5>1, <5>2, <5>6, <1>d, ZenonT(30) DEF Paired
        <5> QED
          BY <5>3, <5>4, <5>5, <5>6, Zenon
      <4>3. PICK m : m = delivered[f.req][u][n] /\ m \in Nat
        BY <4>1, <1>a, Zenon
      <4>4. delivered'[calls[b].req][u][n] = m + 1
        BY <2>1, <3>2, <4>1, <4>3, ZenonT(30)
      <4> QED
        BY <4>2, <4>3, <4>4
    <3> QED
      BY <3>1, <3>2, Zenon
  <2> QED
    BY <2>1, <2>2, <2>3, <2>4, <1>a, PaidFrame, Zenon DEF CutOnly
<1>12. ASSUME NEW n \in Nodes, Close(n) PROVE PaidInv'
  <2>1. DOMAIN calls' = DOMAIN calls /\ UNCHANGED <<route, delivered, failed, moves>>
        /\ \A d \in DOMAIN calls : CutOnly(calls'[d], calls[d])
    BY <1>12, <1>a, CloseStep, Zenon
  <2>2. \A r \in Requests : failed'[r] >= failed[r]
    BY <2>1, <1>a
  <2> QED
    BY <2>1, <2>2, <1>a, <1>d, PaidFrame, Zenon
<1>13. ASSUME NEW u \in Users, NEW n \in Nodes \cup {NoNode}, Move(u, n) PROVE PaidInv'
  BY <1>13, <1>a DEF Move
<1>14. CASE UNCHANGED vars
  BY <1>14 DEF PaidInv, vars
<1>15. ASSUME NEW c \in DOMAIN calls, Handle(c) PROVE PaidInv'
  BY <1>15, <1>2, <1>3, <1>5, <1>7, <1>8, <1>10, <1>11, Zenon DEF Handle
<1> QED
  BY <1>1, <1>12, <1>13, <1>14, <1>15, Zenon DEF Next

\* The copies of u.
CopiesOf(r, u) == {copy \in Nodes \X (1..MaxCalls) : copy[2] <= delivered[r][u][copy[1]]}

\* When its request has one owner, the copies of a recipient are at most one or,
\* after a failed forward, two.
LEMMA FewCopies ==
    ASSUME CoverInv, Numbered, PaidInv, moves = 0, NEW r \in Requests, OneOwner(r), NEW u \in Users
    PROVE  \/ CopiesOf(r, u) = {}
           \/ \E x : CopiesOf(r, u) \subseteq {x}
           \/ failed[r] >= 1 /\ \E x, y : CopiesOf(r, u) \subseteq {x} \cup {y}
<1> DEFINE S == {copy \in Nodes \X (1..MaxCalls) : copy[2] <= delivered[r][u][copy[1]]}
           Wrote(c) == c \in DOMAIN calls /\ calls[c].req = r /\ u \in Delivers(calls[c])
<1>a. failed[r] \in Nat /\ \A n \in Nodes : delivered[r][u][n] \in Nat
  BY DEF CoverInv, TypeOK
<1>1. \A c \in DOMAIN calls : calls[c].req = r => Together(calls[c].recips, route)
  BY Zenon DEF OneOwner, RecipientsOf, Together
<1>2. ASSUME NEW copy \in S PROVE \E c : Wrote(c) /\ copy = <<calls[c].node, 1>>
  <2>1. PICK n \in Nodes, i \in 1..MaxCalls : copy = <<n, i>> /\ i <= delivered[r][u][n]
    BY <1>2
  <2>2. delivered[r][u][n] > 0
    BY <2>1, <1>a
  <2>3. PICK c \in DOMAIN calls : calls[c].req = r /\ calls[c].node = n /\ u \in Delivers(calls[c])
    BY <2>2 DEF Numbered
  <2>4. delivered[r][u][n] <= 1
    BY <2>3, <1>1, Zenon DEF PaidInv
  <2>5. i = 1
    BY <2>1, <2>4, <1>a
  <2> QED
    BY <2>1, <2>3, <2>5, Zenon
<1>3. ASSUME NEW c, NEW d, Wrote(c), Wrote(d), c # d PROVE failed[r] >= 1
  <2>1. c \in DOMAIN calls /\ d \in DOMAIN calls /\ calls[c].req = r /\ calls[d].req = r
        /\ u \in Delivers(calls[c]) /\ u \in Delivers(calls[d])
    BY <1>3, Zenon
  <2>2. CASE calls[c].deliverTo = {} /\ calls[d].deliverTo # {}
    BY <2>1, <2>2, <1>1, Zenon DEF PaidInv, Paired, Delivers
  <2>3. CASE calls[c].deliverTo # {} /\ calls[d].deliverTo = {}
    BY <2>1, <2>3, <1>1, Zenon DEF PaidInv, Paired, Delivers
  <2>4. CASE calls[c].deliverTo = {} /\ calls[d].deliverTo = {}
    BY <1>3, <2>1, <2>4 DEF Numbered
  <2>5. CASE calls[c].deliverTo # {} /\ calls[d].deliverTo # {}
    BY <1>3, <2>1, <2>5, <1>1, Zenon DEF PaidInv
  <2> QED
    BY <2>2, <2>3, <2>4, <2>5, Zenon
<1>4. ASSUME NEW b, NEW c, NEW d, Wrote(b), Wrote(c), Wrote(d), b # c, c # d PROVE b = d
  <2>1. calls[b].deliverTo = {} <=> calls[c].deliverTo # {}
    BY <1>1, <1>4, SMTT(30) DEF Numbered, PaidInv
  <2>2. calls[d].deliverTo = {} <=> calls[c].deliverTo # {}
    BY <1>1, <1>4, SMTT(30) DEF Numbered, PaidInv
  <2> QED
    BY <1>1, <1>4, <2>1, <2>2, SMTT(30) DEF Numbered, PaidInv
<1> HIDE DEF Wrote
<1>5. CASE S = {}
  BY <1>5, Zenon DEF CopiesOf
<1>6. CASE S # {}
  <2>1. PICK c : Wrote(c)
    BY <1>2, <1>6, Zenon
  <2>2. CASE \A d : Wrote(d) => d = c
    <3>1. S \subseteq {<<calls[c].node, 1>>}
      BY <1>2, <2>2, Zenon
    <3> QED
      BY <3>1, Zenon DEF CopiesOf
  <2>3. ASSUME NEW d, Wrote(d), d # c
        PROVE  failed[r] >= 1 /\ \E x, y : S \subseteq {x} \cup {y}
    <3>1. S \subseteq {<<calls[c].node, 1>>} \cup {<<calls[d].node, 1>>}
      <4> SUFFICES ASSUME NEW copy \in S PROVE copy \in {<<calls[c].node, 1>>} \cup {<<calls[d].node, 1>>}
        BY Zenon
      <4>1. PICK b : Wrote(b) /\ copy = <<calls[b].node, 1>>
        BY <1>2, Zenon
      <4>2. b = c \/ b = d
        BY <1>4, <2>1, <2>3, <4>1, Zenon
      <4> QED
        BY <4>1, <4>2, Zenon
    <3>2. failed[r] >= 1
      BY <1>3, <2>1, <2>3, Zenon
    <3> HIDE DEF S
    <3> QED
      BY <3>1, <3>2, Zenon
  <2> QED
    BY <2>2, <2>3, Zenon DEF CopiesOf
<1> QED
  BY <1>5, <1>6, Zenon

\* The copies of a recipient, when its request has one owner.
LEMMA CopiesBound == Counting /\ CoverInv /\ Numbered /\ PaidInv => CopiesPaidFor
<1> SUFFICES ASSUME Counting, CoverInv, Numbered, PaidInv, moves = 0,
                    NEW r \in Requests, OneOwner(r), NEW u \in Users
             PROVE  Copies(r, u) <= 1 + failed[r]
  BY Zenon DEF CopiesPaidFor
<1>1. PICK f : f = failed[r] /\ f \in Nat
  BY Zenon DEF CoverInv, TypeOK
<1>2. PICK n : n = Cardinality(CopiesOf(r, u))
  BY Zenon
<1>3. n = 0 \/ n \in 0..1 \/ (f >= 1 /\ n \in 0..2)
  BY <1>1, <1>2, FewCopies, Zenon DEF Counting
<1>4. n <= 1 + f
  BY <1>1, <1>3
<1> QED
  BY <1>1, <1>2, <1>4, Zenon DEF Copies, CopiesOf

-----------------------------------------------------------------------------
(* The theorems *)

Finite == INSTANCE FiniteSetTheorems

\* The library's facts are about the Cardinality of this module.
LEMMA SameCardinality == ASSUME NEW S PROVE Cardinality(S) = Finite!Cardinality(S)
  BY Zenon DEF Cardinality, Finite!Cardinality

\* A finite set's subsets are finite and no larger.
LEMMA SmallerSet ==
    ASSUME NEW T, Finite!IsFiniteSet(T), NEW S \in SUBSET T
    PROVE  Cardinality(S) \in Nat /\ Cardinality(T) \in Nat /\ Cardinality(S) <= Cardinality(T)
<1>1. Finite!IsFiniteSet(S) /\ Finite!Cardinality(S) <= Finite!Cardinality(T)
  BY Finite!FS_Subset, Zenon
<1>2. Finite!Cardinality(S) \in Nat /\ Finite!Cardinality(T) \in Nat
  BY <1>1, Finite!FS_CardinalityType, Zenon
<1> QED
  BY <1>1, <1>2, SameCardinality, Zenon

\* What the proofs use of counting.
LEMMA CountingHolds == Counting
<1>1. ASSUME NEW S \in SUBSET Requests PROVE Cardinality(S) \in Nat
  <2>1. 1 \in Int /\ MaxRequests \in Int
    BY ForwarderAssumption
  <2>2. Finite!IsFiniteSet(Requests)
    BY <2>1, Finite!FS_Interval, Zenon DEF Requests
  <2> QED
    BY <2>2, SmallerSet, Zenon
<1>2. ASSUME NEW i \in Nat PROVE Cardinality(1..i) = i
  <2>1. 1 \in Int /\ i \in Int
    OBVIOUS
  <2>2. Finite!Cardinality(1..i) = IF 1 > i THEN 0 ELSE i - 1 + 1
    BY <2>1, Finite!FS_Interval, Zenon
  <2>3. PICK n : n = Finite!Cardinality(1..i)
    BY Zenon
  <2>4. n = i
    BY <2>2, <2>3
  <2> QED
    BY <2>3, <2>4, SameCardinality, Zenon
<1>3. Cardinality({}) = 0
  BY Finite!FS_EmptySet, SameCardinality, Zenon
<1>4. ASSUME NEW x PROVE Finite!IsFiniteSet({x}) /\ Finite!Cardinality({x}) = 1
  BY Finite!FS_Singleton, Zenon
<1>5. ASSUME NEW S, NEW x, S \subseteq {x} PROVE Cardinality(S) \in 0..1
  <2>1. PICK m, n : m = Cardinality(S) /\ n = Cardinality({x})
    BY Zenon
  <2>2. m \in Nat /\ n \in Nat /\ m <= n
    BY <1>4, <1>5, <2>1, SmallerSet, Zenon
  <2>3. n = 1
    BY <1>4, <2>1, SameCardinality, Zenon
  <2>4. m \in 0..1
    BY <2>2, <2>3
  <2> QED
    BY <2>1, <2>4, Zenon
<1>6. ASSUME NEW S, NEW x, NEW y, S \subseteq {x} \cup {y} PROVE Cardinality(S) \in 0..2
  <2>1. PICK A, B : A = {x} /\ B = {y}
    BY Zenon
  <2>2. Finite!IsFiniteSet(A) /\ Finite!IsFiniteSet(B) /\ Finite!Cardinality(A) = 1 /\ Finite!Cardinality(B) = 1
    BY <1>4, <2>1, Zenon
  <2>3. /\ Finite!IsFiniteSet(A \cup B)
        /\ Finite!Cardinality(A \cup B) = Finite!Cardinality(A) + Finite!Cardinality(B) - Finite!Cardinality(A \cap B)
    BY <2>2, Finite!FS_Union, Zenon
  <2>4. A \cap B \in SUBSET A /\ S \in SUBSET (A \cup B)
    BY <1>6, <2>1, Zenon
  <2>5. PICK l, m, n : l = Cardinality(A \cap B) /\ m = Cardinality(A \cup B) /\ n = Cardinality(S)
    BY Zenon
  <2>6. l \in Nat /\ m \in Nat /\ n \in Nat /\ n <= m
    BY <2>2, <2>3, <2>4, <2>5, SmallerSet, Zenon
  <2>7. m = 1 + 1 - l
    BY <2>2, <2>3, <2>5, SameCardinality, Zenon
  <2>8. n \in 0..2
    BY <2>6, <2>7
  <2> QED
    BY <2>5, <2>8, Zenon
<1> QED
  BY <1>1, <1>2, <1>3, <1>5, <1>6, Zenon DEF Counting

\* CoverInv holds in every reachable state.
THEOREM CoverInvariant == Spec => []CoverInv
<1>1. Init => CoverInv
  <2> SUFFICES ASSUME Init PROVE CoverInv
    BY Zenon
  <2>1. calls = <<>> /\ calls \in Seq(Frames) /\ DOMAIN calls = {}
    BY DEF Init
  <2> QED
    BY <2>1, Zenon DEF Init, CoverInv, TypeOK, Nothing
<1>2. CoverInv /\ [Next]_vars => CoverInv'
  BY CountingHolds, CoverStep, Zenon
<1> QED
  BY <1>1, <1>2, PTL DEF Spec

\* (forwarder.go:62-120) When handle() answers without an error, everyone that
\* execution answers for has a copy, whatever failed and whoever moved.
THEOREM NoLossHolds == Spec => []NoLoss
<1>1. CoverInv => NoLoss
  BY Zenon DEF CoverInv, Accounted, NoLoss, Reached
<1> QED
  BY <1>1, CoverInvariant, PTL

\* Without faults and moves, a recipient is delivered on the owner's node only.
THEOREM DeliveredAtOwnerHolds == Spec => []DeliveredAtOwner
<1>1. Init => HomeInv
  BY DEF Init, HomeInv, DeliveredAtOwner
<1>2. HomeInv => DeliveredAtOwner
  BY Zenon DEF HomeInv, DeliveredAtOwner
<1>3. CoverInv /\ HomeInv /\ [Next]_vars => HomeInv'
  BY CountingHolds, HomeStep, Zenon
<1> QED
  BY <1>1, <1>2, <1>3, CoverInvariant, PTL DEF Spec

\* Every copy beyond the first is paid for by a failed forward, when the recipients
\* of the request have one owner.
THEOREM CopiesPaidForHolds == Spec => []CopiesPaidFor
<1>1. Init => Numbered /\ PaidInv
  <2> SUFFICES ASSUME Init PROVE Numbered /\ PaidInv
    BY Zenon
  <2>1. DOMAIN calls = {} /\ {calls[c].req : c \in DOMAIN calls} = {}
    BY DEF Init
  <2>2. Issued = 0
    BY <2>1, CountingHolds, Zenon DEF Issued, Counting
  <2>3. \A r \in Requests, u \in Users, n \in Nodes : ~(delivered[r][u][n] > 0)
    BY DEF Init
  <2> QED
    BY <2>1, <2>2, <2>3, SMTT(30) DEF Numbered, PaidInv
<1>2. CoverInv /\ Numbered /\ [Next]_vars => Numbered'
  BY CountingHolds, NumberedStep, Zenon
<1>3. CoverInv /\ Numbered /\ PaidInv /\ [Next]_vars => PaidInv'
  BY CountingHolds, PaidStep, Zenon
<1>4. CoverInv /\ Numbered /\ PaidInv => CopiesPaidFor
  BY CountingHolds, CopiesBound, Zenon
<1> QED
  BY <1>1, <1>2, <1>3, <1>4, CoverInvariant, PTL DEF Spec

\* There are no copies without a reason: with one owner each beyond the first is
\* paid for by a failed forward, and without faults all are on the owner's node.
THEOREM CopiesJustifiedHolds == Spec => []CopiesJustified
  BY CopiesPaidForHolds, DeliveredAtOwnerHolds, PTL DEF CopiesJustified
=============================================================================
