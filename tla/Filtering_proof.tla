-------------------------- MODULE Filtering_proof --------------------------
(***************************************************************************)
(* Proofs about what the hooks make of a message.  The address filter: a   *)
(* check holds a slice of an array, and an update writes behind that       *)
(* slice, or in an array of its own, or is a removal in memory; so the     *)
(* loops of a check that no removal met find what they would find in the   *)
(* rules it began with.  The chain of hooks: what a hook has judged stands *)
(* when the message is stored, since no later one changes what it judged   *)
(* by.                                                                     *)
(***************************************************************************)
EXTENDS Filtering, TLAPS

-----------------------------------------------------------------------------
(* The address filter: what the loops find *)

\* A message has its sender and its recipients for addresses.
LEMMA AddrsOf ==
    ASSUME NEW m \in Mails
    PROVE  /\ Len(Filter!Addrs(m)) \in Nat \ {0}
           /\ DOMAIN Filter!Addrs(m) = 1 .. Len(Filter!Addrs(m))
  BY FilteringAssumption DEF Filter!ConstantsOK, Filter!Addrs

\* The state of the loops before the first rule and the first address.
LEMMA FoundNothing ==
    ASSUME NEW mode, NEW rules, NEW n \in Nat, DOMAIN rules = 1 .. n, NEW as, NEW l \in Nat, DOMAIN as = 1 .. l
    PROVE  Filter!FoundSoFar(mode, rules, as, 1, 1, FALSE)
<1>1. (\A i \in DOMAIN rules : ~(i < 1)) /\ (\A j \in DOMAIN as : ~(j < 1))
  OBVIOUS
<1> QED
  BY <1>1, Zenon DEF Filter!FoundSoFar

\* One turn of the inner loop on a block list.
LEMMA BlockTurn ==
    ASSUME NEW rules, NEW n \in Nat, DOMAIN rules = 1 .. n,
           NEW as, NEW l \in Nat, DOMAIN as = 1 .. l, NEW a \in 1 .. l, NEW r \in 1 .. n, NEW app, NEW app2,
           Filter!FoundSoFar("block", rules, as, a, r, app),
           ~Filter!Match(rules[r], as[a])
    PROVE  /\ Filter!FoundSoFar("block", rules, as, a, r + 1, app2)
           /\ r = n => Filter!FoundSoFar("block", rules, as, a + 1, 1, app2)
<1>1. /\ \A i \in DOMAIN rules : (i < r + 1 => i < r \/ i = r) /\ ~(i < 1) /\ (r = n => i < r + 1)
      /\ \A j \in DOMAIN as : j < a + 1 => j < a \/ j = a
  OBVIOUS
<1>2. Filter!FoundSoFar("block", rules, as, a, r + 1, app2)
  BY <1>1, Zenon DEF Filter!FoundSoFar
<1>3. r = n => Filter!FoundSoFar("block", rules, as, a + 1, 1, app2)
  BY <1>1, <1>2, Zenon DEF Filter!FoundSoFar
<1> QED
  BY <1>2, <1>3, Zenon

\* One turn of the inner loop on an allow list: the address has no match yet.
LEMMA AllowTurn ==
    ASSUME NEW mode, mode # "block", NEW rules, NEW n \in Nat, DOMAIN rules = 1 .. n,
           NEW as, NEW a, NEW r \in 1 .. n, NEW app,
           Filter!FoundSoFar(mode, rules, as, a, r, app),
           ~Filter!Match(rules[r], as[a])
    PROVE  Filter!FoundSoFar(mode, rules, as, a, r + 1, app \/ Filter!Covers(rules[r], as[a]))
<1>1. \A i \in DOMAIN rules : i < r + 1 <=> i < r \/ i = r
  OBVIOUS
<1>2. \A i \in DOMAIN rules : i < r + 1 => ~Filter!Match(rules[i], as[a])
  BY <1>1, Zenon DEF Filter!FoundSoFar
<1>3. (app \/ Filter!Covers(rules[r], as[a])) <=> \E i \in DOMAIN rules : i < r + 1 /\ Filter!Covers(rules[i], as[a])
  <2>1. app <=> \E i \in DOMAIN rules : i < r /\ Filter!Covers(rules[i], as[a])
    BY Zenon DEF Filter!FoundSoFar
  <2> QED
    BY <1>1, <2>1, Zenon
<1> QED
  BY <1>2, <1>3, Zenon DEF Filter!FoundSoFar

\* An address of an allow list is done when a rule matches it, or none covers it.
LEMMA AllowNext ==
    ASSUME NEW mode, mode # "block", NEW rules, NEW n \in Nat, DOMAIN rules = 1 .. n,
           NEW as, NEW l \in Nat, DOMAIN as = 1 .. l, NEW a \in 1 .. l, NEW r \in 1 .. n + 1, NEW app,
           Filter!FoundSoFar(mode, rules, as, a, r, app),
           (\E i \in DOMAIN rules : Filter!Match(rules[i], as[a])) \/ (r = n + 1 /\ ~app)
    PROVE  Filter!FoundSoFar(mode, rules, as, a + 1, 1, FALSE)
<1>0. r = n + 1 => \A i \in DOMAIN rules : i < r
  OBVIOUS
<1>1. (\E i \in DOMAIN rules : Filter!Covers(rules[i], as[a])) => \E i \in DOMAIN rules : Filter!Match(rules[i], as[a])
  BY <1>0, Zenon DEF Filter!FoundSoFar
<1>2. \A j \in DOMAIN as : j < a + 1 <=> j < a \/ j = a
  OBVIOUS
<1>3. \A j \in DOMAIN as :
         j < a + 1 /\ (\E i \in DOMAIN rules : Filter!Covers(rules[i], as[j])) => \E i \in DOMAIN rules : Filter!Match(rules[i], as[j])
  BY <1>1, <1>2, Zenon DEF Filter!FoundSoFar
<1>4. \A i \in DOMAIN rules : ~(i < 1)
  OBVIOUS
<1> QED
  BY <1>3, <1>4, Zenon DEF Filter!FoundSoFar

\* When the loops are through, the list lets the message pass.
LEMMA FoundAll ==
    ASSUME NEW mode, NEW rules, NEW m, NEW l \in Nat, DOMAIN Filter!Addrs(m) = 1 .. l, NEW app,
           Filter!FoundSoFar(mode, rules, Filter!Addrs(m), l + 1, 1, app)
    PROVE  Filter!Decide(mode, Filter!RulesOf(rules), m) = "accept"
<1>1. \A j \in DOMAIN Filter!Addrs(m) : j < l + 1
  OBVIOUS
<1>2. CASE mode = "block"
  BY <1>1, <1>2 DEF Filter!FoundSoFar, Filter!Decide, Filter!RulesOf
<1>3. CASE mode # "block"
  BY <1>1, <1>3 DEF Filter!FoundSoFar, Filter!Decide, Filter!RulesOf
<1> QED
  BY <1>2, <1>3

\* A match on a block list, or an address of an allow list that a rule covers and
\* none matches, is the end of the message.
LEMMA FoundEnough ==
    ASSUME NEW mode, NEW rules, NEW m, NEW a \in DOMAIN Filter!Addrs(m),
           \/ mode = "block" /\ \E i \in DOMAIN rules : Filter!Match(rules[i], Filter!Addrs(m)[a])
           \/ /\ mode # "block"
              /\ \A i \in DOMAIN rules : ~Filter!Match(rules[i], Filter!Addrs(m)[a])
              /\ \E i \in DOMAIN rules : Filter!Covers(rules[i], Filter!Addrs(m)[a])
    PROVE  Filter!Decide(mode, Filter!RulesOf(rules), m) = "reject"
  BY DEF Filter!Decide, Filter!RulesOf

-----------------------------------------------------------------------------
(* The address filter: a check and the arrays *)

\* The fields of a check.
LEMMA Fields ==
    DOMAIN Filter!NoCheck = {"pc", "msg", "slice", "a", "r", "applicable", "result", "seen", "kept", "disturbed"}
  BY DEF Filter!NoCheck

\* The check that reads on.
LEMMA ReadsOn ==
    ASSUME NEW mode, NEW k, NEW arrs, NEW comp, Filter!Undisturbed(mode, k, arrs, comp),
           NEW k2, k2.msg = k.msg, k2.slice = k.slice, k2.seen = k.seen,
           k2.a \in DOMAIN Filter!Addrs(k.msg), k2.r \in 1 .. k.slice.len,
           Filter!FoundSoFar(mode, k.seen, Filter!Addrs(k.msg), k2.a, k2.r, k2.applicable)
    PROVE  Filter!Undisturbed(mode, k2, arrs, comp)
  BY Zenon DEF Filter!Undisturbed

\* What an undisturbed check knows of its rules and its message.
LEMMA ReadsWhat ==
    ASSUME NEW mode, NEW k, NEW arrs, NEW comp, Filter!Undisturbed(mode, k, arrs, comp)
    PROVE  /\ k.msg \in Mails /\ k.slice.len \in Nat
           /\ DOMAIN k.seen = 1 .. k.slice.len /\ k.r \in 1 .. k.slice.len
           /\ arrs[k.slice.arr][k.r] = k.seen[k.r]
           /\ k.a \in DOMAIN Filter!Addrs(k.msg)
           /\ Filter!FoundSoFar(mode, k.seen, Filter!Addrs(k.msg), k.a, k.r, k.applicable)
  BY DEF Filter!Undisturbed

\* After rule r has been read for address a of a message, the verdict is that of
\* the list, or the loops know of one rule, or of one address, more.
TurnOK(mode, rules, n, m, a, r, app) ==
    LET as == Filter!Addrs(m)
        app2 == app \/ Filter!Covers(rules[r], as[a])
        v == Filter!Verdict(mode, Filter!Match(rules[r], as[a]), r = n, app2)
    IN /\ v = "reject" => Filter!Decide(mode, Filter!RulesOf(rules), m) = "reject"
       /\ v = "next" /\ r # n => Filter!FoundSoFar(mode, rules, as, a, r + 1, app2)
       /\ v # "reject" /\ ~(v = "next" /\ r # n) => Filter!FoundSoFar(mode, rules, as, a + 1, 1, FALSE)

\* One turn of the inner loop of an undisturbed check.
LEMMA ReadTurn ==
    ASSUME NEW mode, NEW rules, NEW n \in Nat, DOMAIN rules = 1 .. n,
           NEW m \in Mails, NEW a \in DOMAIN Filter!Addrs(m), NEW r \in 1 .. n, NEW app,
           Filter!FoundSoFar(mode, rules, Filter!Addrs(m), a, r, app)
    PROVE  TurnOK(mode, rules, n, m, a, r, app)
<1> DEFINE as == Filter!Addrs(m)
           app2 == app \/ Filter!Covers(rules[r], as[a])
           v == Filter!Verdict(mode, Filter!Match(rules[r], as[a]), r = n, app2)
<1> SUFFICES /\ v = "reject" => Filter!Decide(mode, Filter!RulesOf(rules), m) = "reject"
             /\ v = "next" /\ r # n => Filter!FoundSoFar(mode, rules, as, a, r + 1, app2)
             /\ v # "reject" /\ ~(v = "next" /\ r # n) => Filter!FoundSoFar(mode, rules, as, a + 1, 1, FALSE)
  BY Zenon DEF TurnOK
<1>0. PICK l \in Nat : DOMAIN as = 1 .. l
  BY AddrsOf
<1>1. CASE mode = "block"
  <2>1. v = "reject" <=> Filter!Match(rules[r], as[a])
    BY <1>1 DEF Filter!Verdict
  <2>2. CASE Filter!Match(rules[r], as[a])
    BY <2>1, <2>2, <1>1, FoundEnough, Zenon
  <2>3. CASE ~Filter!Match(rules[r], as[a])
    <3>1. v = "next"
      BY <1>1, <2>3 DEF Filter!Verdict
    <3> QED
      BY <3>1, <2>3, <1>0, <1>1, BlockTurn, Zenon
  <2> QED
    BY <2>2, <2>3, Zenon
<1>2. CASE mode # "block"
  <2>1. CASE Filter!Match(rules[r], as[a])
    <3>1. v = "nextAddr"
      BY <1>2, <2>1 DEF Filter!Verdict
    <3>2. r \in 1 .. n + 1
      OBVIOUS
    <3> QED
      BY <3>1, <3>2, <2>1, <1>0, <1>2, AllowNext, Zenon
  <2>2. CASE ~Filter!Match(rules[r], as[a])
    <3>1. v = IF r = n /\ app2 THEN "reject" ELSE "next"
      BY <1>2, <2>2 DEF Filter!Verdict
    <3>2. Filter!FoundSoFar(mode, rules, as, a, r + 1, app2)
      BY <1>2, <2>2, AllowTurn
    <3>3. r = n => \A i \in DOMAIN rules : i < r + 1
      OBVIOUS
    <3>4. r = n /\ app2 => Filter!Decide(mode, Filter!RulesOf(rules), m) = "reject"
      <4> SUFFICES ASSUME r = n, app2 PROVE Filter!Decide(mode, Filter!RulesOf(rules), m) = "reject"
        OBVIOUS
      <4>1. /\ \A i \in DOMAIN rules : ~Filter!Match(rules[i], as[a])
            /\ \E i \in DOMAIN rules : Filter!Covers(rules[i], as[a])
        BY <3>2, <3>3, <1>2, Zenon DEF Filter!FoundSoFar
      <4> QED
        BY <4>1, <1>2, FoundEnough, Zenon
    <3>5. r = n /\ ~app2 => Filter!FoundSoFar(mode, rules, as, a + 1, 1, FALSE)
      <4>1. r + 1 \in 1 .. n + 1
        OBVIOUS
      <4> QED
        BY <3>2, <4>1, <1>0, <1>2, AllowNext, Zenon
    <3> QED
      BY <3>1, <3>2, <3>4, <3>5, Zenon
  <2> QED
    BY <2>1, <2>2, Zenon
<1> QED
  BY <1>1, <1>2, Zenon

\* What Read makes of a check.
ReadResult(mode, k, arrs) ==
    LET addrs == Filter!Addrs(k.msg)
        rule == arrs[k.slice.arr][k.r]
        applicable == k.applicable \/ Filter!Covers(rule, addrs[k.a])
        last == k.r = k.slice.len
        v == Filter!Verdict(mode, Filter!Match(rule, addrs[k.a]), last, applicable)
    IN IF v = "reject" THEN [k EXCEPT !.pc = "end", !.result = "reject"]
       ELSE IF v = "next" /\ ~last THEN [k EXCEPT !.r = @ + 1, !.applicable = applicable]
       ELSE IF k.a < Len(addrs) THEN [k EXCEPT !.a = @ + 1, !.r = 1, !.applicable = FALSE]
       ELSE [k EXCEPT !.pc = "end", !.result = "accept"]

\* A check that reads one more rule stays right about those it began with.
LEMMA ReadOK ==
    ASSUME NEW mode, NEW k, NEW arrs, NEW comp, Filter!CheckOK(mode, k, arrs, comp), k.pc = "read"
    PROVE  Filter!CheckOK(mode, ReadResult(mode, k, arrs), arrs, comp)
<1> DEFINE as == Filter!Addrs(k.msg)
           rule == arrs[k.slice.arr][k.r]
           app2 == k.applicable \/ Filter!Covers(rule, as[k.a])
           v == Filter!Verdict(mode, Filter!Match(rule, as[k.a]), k.r = k.slice.len, app2)
           Rejected == [k EXCEPT !.pc = "end", !.result = "reject"]
           Further == [k EXCEPT !.r = k.r + 1, !.applicable = app2]
           Another == [k EXCEPT !.a = k.a + 1, !.r = 1, !.applicable = FALSE]
           Accepted == [k EXCEPT !.pc = "end", !.result = "accept"]
<1>0. ReadResult(mode, k, arrs) = IF v = "reject" THEN Rejected
                                  ELSE IF v = "next" /\ ~(k.r = k.slice.len) THEN Further
                                  ELSE IF k.a < Len(as) THEN Another ELSE Accepted
  BY DEF ReadResult
<1>d. DOMAIN k = DOMAIN Filter!NoCheck
  BY DEF Filter!CheckOK
<1>1. CASE k.disturbed
  <2>1. \A x \in {Rejected, Further, Another, Accepted} : DOMAIN x = DOMAIN Filter!NoCheck /\ x.disturbed = k.disturbed
    BY <1>d, Fields, Zenon
  <2>2. ReadResult(mode, k, arrs) \in {Rejected, Further, Another, Accepted}
    BY <1>0
  <2> HIDE DEF Rejected, Further, Another, Accepted
  <2> QED
    BY <2>1, <2>2, <1>1, Zenon DEF Filter!CheckOK
<1>2. CASE ~k.disturbed
  <2>1. Filter!Undisturbed(mode, k, arrs, comp)
    BY <1>2 DEF Filter!CheckOK
  <2>2. /\ k.msg \in Mails /\ k.slice.len \in Nat
        /\ DOMAIN k.seen = 1 .. k.slice.len /\ k.r \in 1 .. k.slice.len
        /\ rule = k.seen[k.r]
        /\ k.a \in DOMAIN as
        /\ Filter!FoundSoFar(mode, k.seen, as, k.a, k.r, k.applicable)
    BY <2>1, ReadsWhat
  <2>3. /\ v = "reject" => Filter!Decide(mode, Filter!RulesOf(k.seen), k.msg) = "reject"
        /\ v = "next" /\ k.r # k.slice.len => Filter!FoundSoFar(mode, k.seen, as, k.a, k.r + 1, app2)
        /\ v # "reject" /\ ~(v = "next" /\ k.r # k.slice.len) => Filter!FoundSoFar(mode, k.seen, as, k.a + 1, 1, FALSE)
    <3>1. TurnOK(mode, k.seen, k.slice.len, k.msg, k.a, k.r, k.applicable)
      BY <2>2, ReadTurn, Zenon
    <3> QED
      BY <2>2, <3>1, Zenon DEF TurnOK
  <2>4. Len(as) \in Nat \ {0} /\ DOMAIN as = 1 .. Len(as)
    BY <2>2, AddrsOf
  <2>5. CASE v = "reject"
    <3>1. ReadResult(mode, k, arrs) = Rejected
      BY <1>0, <2>5
    <3>2. /\ DOMAIN Rejected = DOMAIN Filter!NoCheck /\ Rejected.pc = "end" /\ Rejected.result = "reject"
          /\ Rejected.seen = k.seen /\ Rejected.msg = k.msg
      BY <1>d, Fields
    <3> HIDE DEF Rejected
    <3> QED
      BY <3>1, <3>2, <2>3, <2>5, Zenon DEF Filter!CheckOK
  <2>6. CASE v # "reject" /\ v = "next" /\ k.r # k.slice.len
    <3>1. ReadResult(mode, k, arrs) = Further
      BY <1>0, <2>6
    <3>2. /\ DOMAIN Further = DOMAIN Filter!NoCheck /\ Further.pc = "read"
          /\ Further.seen = k.seen /\ Further.msg = k.msg /\ Further.slice = k.slice
          /\ Further.a = k.a /\ Further.r = k.r + 1 /\ Further.applicable = app2
      BY <1>d, Fields
    <3>3. k.r + 1 \in 1 .. k.slice.len
      BY <2>2, <2>6
    <3> HIDE DEF Further, app2, as
    <3>4. Filter!Undisturbed(mode, Further, arrs, comp)
      BY <2>1, <2>2, <2>3, <2>6, <3>2, <3>3, ReadsOn, Zenon DEF as
    <3> QED
      BY <3>1, <3>2, <3>4, Zenon DEF Filter!CheckOK
  <2>7. CASE v # "reject" /\ ~(v = "next" /\ k.r # k.slice.len) /\ k.a < Len(as)
    <3>1. ReadResult(mode, k, arrs) = Another
      BY <1>0, <2>7
    <3>2. /\ DOMAIN Another = DOMAIN Filter!NoCheck /\ Another.pc = "read"
          /\ Another.seen = k.seen /\ Another.msg = k.msg /\ Another.slice = k.slice
          /\ Another.a = k.a + 1 /\ Another.r = 1 /\ Another.applicable = FALSE
      BY <1>d, Fields
    <3>3. 1 \in 1 .. k.slice.len /\ k.a + 1 \in DOMAIN as
      BY <2>2, <2>4, <2>7
    <3> HIDE DEF Another, app2, as
    <3>4. Filter!Undisturbed(mode, Another, arrs, comp)
      BY <2>1, <2>2, <2>3, <2>7, <3>2, <3>3, ReadsOn, Zenon DEF as
    <3> QED
      BY <3>1, <3>2, <3>4, Zenon DEF Filter!CheckOK
  <2>8. CASE v # "reject" /\ ~(v = "next" /\ k.r # k.slice.len) /\ ~(k.a < Len(as))
    <3>1. ReadResult(mode, k, arrs) = Accepted
      BY <1>0, <2>8
    <3>2. /\ DOMAIN Accepted = DOMAIN Filter!NoCheck /\ Accepted.pc = "end" /\ Accepted.result = "accept"
          /\ Accepted.seen = k.seen /\ Accepted.msg = k.msg
      BY <1>d, Fields
    <3>3. k.a = Len(as)
      BY <2>2, <2>4, <2>8
    <3>4. Filter!Decide(mode, Filter!RulesOf(k.seen), k.msg) = "accept"
      <4>1. Filter!FoundSoFar(mode, k.seen, as, Len(as) + 1, 1, FALSE)
        BY <2>3, <2>8, <3>3, Zenon
      <4> QED
        BY <2>4, <4>1, FoundAll, Zenon
    <3> HIDE DEF Accepted
    <3> QED
      BY <3>1, <3>2, <3>4, Zenon DEF Filter!CheckOK
  <2> QED
    BY <2>5, <2>6, <2>7, <2>8
<1> QED
  BY <1>1, <1>2

\* A check that begins has found nothing yet, and without rules the message passes.
LEMMA BeginOK ==
    ASSUME NEW mode, NEW m \in Mails, NEW arrs, NEW comp, Filter!SlicesOK(arrs, comp), NEW rules,
           rules = [i \in 1 .. comp.len |-> arrs[comp.arr][i]], NEW kept,
           NEW k, k = [Filter!NoCheck EXCEPT !.pc = IF comp.len = 0 THEN "end" ELSE "read", !.msg = m,
                                             !.slice = comp, !.seen = rules, !.kept = kept,
                                             !.result = IF comp.len = 0 THEN "accept" ELSE "none"]
    PROVE  Filter!CheckOK(mode, k, arrs, comp)
<1>1. comp.len \in Nat /\ comp.arr \in DOMAIN arrs /\ comp.len \in 0 .. Len(arrs[comp.arr])
  BY DEF Filter!SlicesOK
<1>2. /\ DOMAIN k = DOMAIN Filter!NoCheck /\ k.pc = (IF comp.len = 0 THEN "end" ELSE "read")
      /\ k.msg = m /\ k.slice = comp /\ k.seen = rules /\ k.a = 1 /\ k.r = 1 /\ k.applicable = FALSE
      /\ k.result = (IF comp.len = 0 THEN "accept" ELSE "none")
  BY DEF Filter!NoCheck
<1>3. PICK l \in Nat \ {0} : DOMAIN Filter!Addrs(m) = 1 .. l
  BY AddrsOf
<1>4. DOMAIN rules = 1 .. comp.len
  OBVIOUS
<1>5. CASE comp.len = 0
  <2>1. DOMAIN rules = {}
    BY <1>4, <1>5
  <2>2. Filter!Decide(mode, Filter!RulesOf(rules), m) = "accept"
    BY <2>1 DEF Filter!Decide, Filter!RulesOf
  <2> QED
    BY <2>2, <1>2, <1>5 DEF Filter!CheckOK
<1>6. CASE comp.len # 0
  <2>1. Filter!FoundSoFar(mode, rules, Filter!Addrs(m), 1, 1, FALSE)
    BY <1>1, <1>3, <1>4, FoundNothing, Zenon
  <2>2. 1 \in DOMAIN Filter!Addrs(m) /\ 1 \in 1 .. comp.len /\ comp.len \in 1 .. Len(arrs[comp.arr]) /\ comp.len <= comp.len
    BY <1>1, <1>3, <1>6 DEF Filter!SlicesOK
  <2>3. Filter!Undisturbed(mode, k, arrs, comp)
    BY <2>1, <2>2, <1>1, <1>2, Zenon DEF Filter!Undisturbed
  <2> QED
    BY <2>3, <1>2, <1>6 DEF Filter!CheckOK
<1> QED
  BY <1>5, <1>6

-----------------------------------------------------------------------------
(* The address filter: what an update leaves of the arrays *)

\* The new arrays have the old ones' contents where a slice of them may lie.
Keeps(arrs, comp, arrs2, comp2) ==
    /\ \A x \in DOMAIN arrs :
          /\ x \in DOMAIN arrs2 /\ Len(arrs2[x]) = Len(arrs[x])
          /\ \A i \in 1 .. (IF x = comp.arr THEN comp.len ELSE Len(arrs[x])) : arrs2[x][i] = arrs[x][i]
    /\ comp2.arr \in DOMAIN arrs => comp2.arr = comp.arr /\ comp.len <= comp2.len

\* A check under way does not see such an update.
LEMMA SliceFrame ==
    ASSUME NEW mode, NEW k, NEW arrs, NEW comp, NEW arrs2, NEW comp2,
           Filter!SlicesOK(arrs, comp), Filter!SlicesOK(arrs2, comp2), Keeps(arrs, comp, arrs2, comp2),
           Filter!Undisturbed(mode, k, arrs, comp)
    PROVE  Filter!Undisturbed(mode, k, arrs2, comp2)
<1> DEFINE x == k.slice.arr
           n == k.slice.len
<1>1. x \in DOMAIN arrs /\ n \in 1 .. Len(arrs[x]) /\ (x = comp.arr => n <= comp.len)
  BY DEF Filter!Undisturbed
<1>2. comp.len \in Nat /\ comp2.len \in Nat
  BY DEF Filter!SlicesOK
<1>3. x \in DOMAIN arrs2 /\ Len(arrs2[x]) = Len(arrs[x])
  BY <1>1 DEF Keeps
<1>4. \A i \in 1 .. n : arrs2[x][i] = arrs[x][i]
  BY <1>1, <1>2 DEF Keeps
<1>5. x = comp2.arr => n <= comp2.len
  BY <1>1, <1>2 DEF Keeps
<1>6. k.seen = [i \in 1 .. n |-> arrs2[x][i]]
  BY <1>4 DEF Filter!Undisturbed
<1> QED
  BY <1>1, <1>3, <1>5, <1>6, Zenon DEF Filter!Undisturbed

\* Of the checks under way those a removal meets are disturbed, and an update that
\* keeps the arrays leaves the others as they are.
LEMMA KeepOK ==
    ASSUME NEW mode, NEW k, NEW arrs, NEW comp, NEW arrs2, NEW comp2, NEW removal \in BOOLEAN, NEW force,
           Filter!SlicesOK(arrs, comp), Filter!SlicesOK(arrs2, comp2),
           ~removal => Keeps(arrs, comp, arrs2, comp2),
           Filter!CheckOK(mode, k, arrs, comp),
           NEW k2, k2 = IF k.pc # "read" THEN k
                        ELSE [k EXCEPT !.kept = k.kept \cap force, !.disturbed = k.disturbed \/ removal]
    PROVE  Filter!CheckOK(mode, k2, arrs2, comp2)
<1>1. CASE k.pc # "read"
  BY <1>1 DEF Filter!CheckOK
<1>2. CASE k.pc = "read"
  <2>1. DOMAIN k = DOMAIN Filter!NoCheck
    BY DEF Filter!CheckOK
  <2>2. k2 = [k EXCEPT !.kept = k.kept \cap force, !.disturbed = k.disturbed \/ removal]
    BY <1>2
  <2>3. /\ DOMAIN k2 = DOMAIN Filter!NoCheck /\ k2.pc = "read" /\ (k2.disturbed <=> k.disturbed \/ removal)
        /\ k2.msg = k.msg /\ k2.slice = k.slice /\ k2.seen = k.seen /\ k2.a = k.a /\ k2.r = k.r
        /\ k2.applicable = k.applicable
    BY <1>2, <2>1, <2>2, Fields, Zenon
  <2>4. CASE k.disturbed \/ removal
    BY <2>3, <2>4 DEF Filter!CheckOK
  <2>5. CASE ~(k.disturbed \/ removal)
    <3>1. Filter!Undisturbed(mode, k, arrs, comp)
      BY <1>2, <2>5 DEF Filter!CheckOK
    <3>2. Filter!Undisturbed(mode, k, arrs2, comp2)
      BY <2>5, <3>1, SliceFrame
    <3>3. Filter!Undisturbed(mode, k2, arrs2, comp2)
      BY <2>3, <3>2, Zenon DEF Filter!Undisturbed
    <3> QED
      BY <2>3, <3>3 DEF Filter!CheckOK
  <2> QED
    BY <2>4, <2>5
<1> QED
  BY <1>1, <1>2

\* An array that is not yet there takes the new rules.
LEMMA NewArray ==
    ASSUME NEW arrs, NEW comp, Filter!SlicesOK(arrs, comp), NEW new \in Seq(Filter!Held), NEW n \in 0 .. Len(new)
    PROVE  /\ Filter!SlicesOK(Append(arrs, new), [arr |-> Len(arrs) + 1, len |-> n])
           /\ Keeps(arrs, comp, Append(arrs, new), [arr |-> Len(arrs) + 1, len |-> n])
           /\ Append(arrs, new)[Len(arrs) + 1] = new
<1>0. PICK arrs2, comp2 : arrs2 = Append(arrs, new) /\ comp2 = [arr |-> Len(arrs) + 1, len |-> n]
  BY Zenon
<1>1. arrs \in Seq(Seq(Filter!Held)) /\ Len(arrs) \in Nat /\ DOMAIN arrs = 1 .. Len(arrs)
  BY DEF Filter!SlicesOK
<1>2. /\ arrs2 \in Seq(Seq(Filter!Held)) /\ Len(arrs2) = Len(arrs) + 1 /\ DOMAIN arrs2 = 1 .. Len(arrs) + 1
      /\ arrs2[Len(arrs) + 1] = new /\ \A x \in 1 .. Len(arrs) : arrs2[x] = arrs[x]
  BY <1>0, <1>1
<1>3. DOMAIN comp2 = {"arr", "len"} /\ comp2.arr = Len(arrs) + 1 /\ comp2.len = n
  BY <1>0
<1>4. comp2.arr \in DOMAIN arrs2 /\ comp2.arr \notin DOMAIN arrs /\ \A x \in DOMAIN arrs : x \in DOMAIN arrs2
  BY <1>1, <1>2, <1>3
<1>5. Filter!SlicesOK(arrs2, comp2)
  BY <1>2, <1>3, <1>4 DEF Filter!SlicesOK
<1>6. \A x \in DOMAIN arrs : arrs2[x] = arrs[x]
  BY <1>1, <1>2
<1>7. Keeps(arrs, comp, arrs2, comp2)
  BY <1>4, <1>6, Zenon DEF Keeps
<1> QED
  BY <1>0, <1>2, <1>5, <1>7, Zenon

\* An array with room takes one rule more behind those in force.
LEMMA InPlace ==
    ASSUME NEW arrs, NEW comp, Filter!SlicesOK(arrs, comp), NEW r \in Filter!Held, comp.len < Len(arrs[comp.arr]),
           NEW new, new = [arrs[comp.arr] EXCEPT ![comp.len + 1] = r],
           NEW arrs2, arrs2 = [arrs EXCEPT ![comp.arr] = new],
           NEW comp2, comp2 = [arr |-> comp.arr, len |-> comp.len + 1]
    PROVE  Filter!SlicesOK(arrs2, comp2) /\ Keeps(arrs, comp, arrs2, comp2)
<1>1. /\ arrs \in Seq(Seq(Filter!Held)) /\ comp.arr \in DOMAIN arrs
      /\ comp.len \in 0 .. Len(arrs[comp.arr]) /\ arrs[comp.arr] \in Seq(Filter!Held)
  BY DEF Filter!SlicesOK
<1>2. /\ new \in Seq(Filter!Held) /\ Len(new) = Len(arrs[comp.arr])
      /\ \A i \in 1 .. comp.len : new[i] = arrs[comp.arr][i]
  BY <1>1, SMTT(30)
<1>3. /\ arrs2 \in Seq(Seq(Filter!Held)) /\ DOMAIN arrs2 = DOMAIN arrs /\ arrs2[comp.arr] = new
      /\ \A x \in DOMAIN arrs : x # comp.arr => arrs2[x] = arrs[x]
  BY <1>1, <1>2, SMTT(30)
<1>4. /\ DOMAIN comp2 = {"arr", "len"} /\ comp2.arr = comp.arr /\ comp2.len = comp.len + 1
      /\ comp.len <= comp2.len /\ comp2.len \in 0 .. Len(new)
  BY <1>1, <1>2
<1>5. Filter!SlicesOK(arrs2, comp2)
  BY <1>1, <1>3, <1>4 DEF Filter!SlicesOK
<1>6. Keeps(arrs, comp, arrs2, comp2)
  BY <1>1, <1>2, <1>3, <1>4 DEF Keeps
<1> QED
  BY <1>5, <1>6

\* The arrays after the rules at the places from[1], from[2], ... have moved to the front.
Moved(arrs, a, n, from) ==
    [arrs EXCEPT ![a] = [i \in DOMAIN arrs[a] |-> IF i <= n THEN arrs[a][from[i]] ELSE arrs[a][i]]]

\* A removal moves rules within their array.
LEMMA MovedDown ==
    ASSUME NEW arrs, NEW comp, Filter!SlicesOK(arrs, comp), NEW n \in 0 .. comp.len, NEW S, S \subseteq 1 .. comp.len,
           NEW from \in [1 .. n -> S]
    PROVE  Filter!SlicesOK(Moved(arrs, comp.arr, n, from), [comp EXCEPT !.len = n])
<1> DEFINE arr == arrs[comp.arr]
           new == [i \in DOMAIN arr |-> IF i <= n THEN arr[from[i]] ELSE arr[i]]
           arrs2 == [arrs EXCEPT ![comp.arr] = new]
           comp2 == [comp EXCEPT !.len = n]
<1>1. /\ arrs \in Seq(Seq(Filter!Held)) /\ comp.arr \in DOMAIN arrs /\ DOMAIN comp = {"arr", "len"}
      /\ comp.len \in 0 .. Len(arr) /\ arr \in Seq(Filter!Held) /\ DOMAIN arr = 1 .. Len(arr) /\ Len(arr) \in Nat
  BY DEF Filter!SlicesOK
<1>2. \A i \in DOMAIN arr : arr[i] \in Filter!Held
  BY <1>1
<1>3. ASSUME NEW i \in DOMAIN arr, i <= n PROVE from[i] \in DOMAIN arr
  <2> HIDE DEF arr
  <2>1. i \in 1 .. n
    BY <1>1, <1>3
  <2>2. from[i] \in 1 .. comp.len
    BY <2>1, Zenon
  <2> QED
    BY <1>1, <2>2
<1>4. ASSUME NEW i \in DOMAIN arr PROVE new[i] \in Filter!Held
  <2>1. new[i] = IF i <= n THEN arr[from[i]] ELSE arr[i]
    OBVIOUS
  <2> HIDE DEF new, arr
  <2>2. CASE i <= n
    BY <1>2, <1>3, <2>1, <2>2
  <2>3. CASE ~(i <= n)
    BY <1>2, <2>1, <2>3
  <2> QED
    BY <2>2, <2>3, Zenon
<1>5. new \in Seq(Filter!Held) /\ Len(new) = Len(arr)
  <2>1. new \in [1 .. Len(arr) -> Filter!Held]
    BY <1>1, <1>4
  <2> QED
    BY <2>1, <1>1
<1>6. arrs2 \in Seq(Seq(Filter!Held)) /\ DOMAIN arrs2 = DOMAIN arrs /\ arrs2[comp.arr] = new
  <2> HIDE DEF new
  <2> QED
    BY <1>1, <1>5
<1>7. DOMAIN comp2 = {"arr", "len"} /\ comp2.arr = comp.arr /\ comp2.len = n
  BY <1>1
<1>8. Filter!SlicesOK(arrs2, comp2)
  <2> HIDE DEF arrs2, comp2, new
  <2> QED
    BY <1>1, <1>5, <1>6, <1>7 DEF Filter!SlicesOK
<1> QED
  BY <1>8, Zenon DEF Moved

\* append makes room for the rules in force and one more.
LEMMA Grown ==
    ASSUME NEW arr \in Seq(Filter!Held), NEW len \in 0 .. Len(arr), NEW r \in Filter!Held, ~(len < Len(arr)),
           NEW new, new = Filter!Appended(arr, len, r)
    PROVE  new \in Seq(Filter!Held) /\ len + 1 \in 0 .. Len(new)
<1> DEFINE n == IF len = 0 THEN 1 ELSE 2 * len
<1>1. n \in Nat /\ len + 1 \in 0 .. n
  OBVIOUS
<1>2. new = [i \in 1 .. n |-> IF i <= len THEN arr[i] ELSE IF i = len + 1 THEN r ELSE Filter!Empty]
  BY DEF Filter!Appended
<1>3. Filter!Empty \in Filter!Held
  BY DEF Filter!Held
<1> HIDE DEF n
<1>4. \A i \in 1 .. n : i <= len => arr[i] \in Filter!Held
  BY <1>1
<1>5. new \in [1 .. n -> Filter!Held]
  BY <1>2, <1>3, <1>4
<1> QED
  BY <1>1, <1>5

\* A listing of the rules that compile is a sequence of them, with each of them in it.
LEMMA Compiled ==
    ASSUME NEW rs, rs \subseteq Rules \cup Initial, NEW new \in Filter!Compile(rs)
    PROVE  /\ new \in Seq(Filter!Held) /\ Len(new) \in 0 .. Len(new)
           /\ Filter!RulesOf([i \in 1 .. Len(new) |-> new[i]]) = {r \in rs : r.valid}
<1> DEFINE vs == {r \in rs : r.valid}
<1>1. vs \in SUBSET (Rules \cup Initial) /\ vs \subseteq Filter!Held
  BY DEF Filter!Held
<1>2. Filter!Compile(rs) = Filter!Listings(vs)
  BY Zenon DEF Filter!Compile
<1> HIDE DEF vs
<1>3. PICK n \in Nat : n = Filter!Cardinality(vs)
  BY <1>1, FilteringAssumption, Zenon DEF Filter!ConstantsOK
<1>4. new \in [1 .. n -> vs] /\ Filter!RulesOf(new) = vs
  BY <1>2, <1>3, Zenon DEF Filter!Listings
<1>5. new \in Seq(Filter!Held) /\ Len(new) = n /\ [i \in 1 .. n |-> new[i]] = new
  BY <1>1, <1>4
<1>6. Len(new) \in 0 .. Len(new)
  BY <1>5
<1> QED
  BY <1>4, <1>5, <1>6, Zenon DEF vs

-----------------------------------------------------------------------------
(* The address filter: its steps *)

\* The configuration in use does not change while the program runs.
LEMMA FilterConfStays ==
    ASSUME UNCHANGED part
    PROVE  UNCHANGED <<Filter!Mode, Filter!Backing, Filter!Checkers, Filter!Updaters>>
  BY DEF Filter!Mode, Filter!Backing, Filter!Checkers, Filter!Updaters, Filter!Conf, Filter!Named

\* The slice in force, and every check, after a step.
ChecksOK ==
    /\ Filter!SlicesOK(arrays, compiled)
    /\ DOMAIN chk = Filter!Checkers /\ \A c \in Filter!Checkers : Filter!CheckOK(Filter!Mode, chk[c], arrays, compiled)

\* The checks under way when the arrays are updated.
LEMMA KeepStep ==
    ASSUME UNCHANGED part, ChecksOK, NEW removal \in BOOLEAN, Filter!Keep(removal),
           Filter!SlicesOK(arrays', compiled'), ~removal => Keeps(arrays, compiled, arrays', compiled')
    PROVE  ChecksOK'
<1>0. UNCHANGED <<Filter!Mode, Filter!Checkers>>
  BY FilterConfStays
<1>1. PICK force : force = Filter!RulesOf(Filter!InForce')
  OBVIOUS
<1>2. chk' = [c \in Filter!Checkers |-> IF chk[c].pc # "read" THEN chk[c]
                 ELSE [chk[c] EXCEPT !.kept = chk[c].kept \cap force, !.disturbed = chk[c].disturbed \/ removal]]
  BY <1>1, Zenon DEF Filter!Keep
<1>3. ASSUME NEW c \in Filter!Checkers PROVE Filter!CheckOK(Filter!Mode, chk'[c], arrays', compiled')
  <2>1. PICK k, k2 : k = chk[c] /\ k2 = chk'[c]
    OBVIOUS
  <2>2. k2 = IF k.pc # "read" THEN k
             ELSE [k EXCEPT !.kept = k.kept \cap force, !.disturbed = k.disturbed \/ removal]
    BY <1>2, <2>1, Zenon
  <2>3. Filter!CheckOK(Filter!Mode, k, arrays, compiled) /\ Filter!SlicesOK(arrays, compiled)
    BY <2>1 DEF ChecksOK
  <2>4. Filter!CheckOK(Filter!Mode, k2, arrays', compiled')
    BY <2>2, <2>3, KeepOK, Zenon
  <2> QED
    BY <2>1, <2>4
<1>4. DOMAIN chk' = Filter!Checkers
  BY <1>2, Zenon
<1> QED
  BY <1>0, <1>3, <1>4 DEF ChecksOK

\* A rule added in memory.
LEMMA AddChecks ==
    ASSUME UNCHANGED part, ChecksOK, NEW u, NEW r \in Rules, Filter!AddInMemory(u, r)
    PROVE  ChecksOK'
<1> DEFINE new == Filter!Appended(arrays[compiled.arr], compiled.len, r)
<1>1. /\ Filter!SlicesOK(arrays, compiled) /\ r \in Filter!Held
      /\ arrays[compiled.arr] \in Seq(Filter!Held) /\ compiled.len \in 0 .. Len(arrays[compiled.arr])
  BY DEF ChecksOK, Filter!SlicesOK, Filter!Held
<1>2. CASE compiled.len < Len(arrays[compiled.arr])
  <2>1. /\ arrays' = [arrays EXCEPT ![compiled.arr] = new]
        /\ compiled' = [arr |-> compiled.arr, len |-> compiled.len + 1]
    BY <1>2 DEF Filter!AddInMemory
  <2>2. new = [arrays[compiled.arr] EXCEPT ![compiled.len + 1] = r]
    BY <1>2 DEF Filter!Appended
  <2> HIDE DEF new
  <2>3. Filter!SlicesOK(arrays', compiled') /\ Keeps(arrays, compiled, arrays', compiled')
    BY <1>1, <1>2, <2>1, <2>2, InPlace, Zenon
  <2>4. Filter!Keep(FALSE)
    BY Zenon DEF Filter!AddInMemory
  <2> QED
    BY <2>3, <2>4, KeepStep, Zenon
<1>3. CASE ~(compiled.len < Len(arrays[compiled.arr]))
  <2>1. /\ arrays' = Append(arrays, new)
        /\ compiled' = [arr |-> Len(arrays) + 1, len |-> compiled.len + 1]
    BY <1>3 DEF Filter!AddInMemory
  <2>2. new \in Seq(Filter!Held) /\ compiled.len + 1 \in 0 .. Len(new)
    BY <1>1, <1>3, Grown, Zenon
  <2> HIDE DEF new
  <2>3. Filter!SlicesOK(arrays', compiled') /\ Keeps(arrays, compiled, arrays', compiled')
    BY <1>1, <2>1, <2>2, NewArray, Zenon
  <2>4. Filter!Keep(FALSE)
    BY Zenon DEF Filter!AddInMemory
  <2> QED
    BY <2>3, <2>4, KeepStep, Zenon
<1> QED
  BY <1>2, <1>3

\* A rule removed in memory.
LEMMA RemoveChecks ==
    ASSUME UNCHANGED part, ChecksOK, NEW u, NEW id, Filter!RemoveInMemory(u, id)
    PROVE  ChecksOK'
<1>1. PICK n \in 0 .. compiled.len : \E from \in [1 .. n -> Filter!Staying(id)] :
          /\ arrays' = [arrays EXCEPT ![compiled.arr] =
                           [i \in DOMAIN arrays[compiled.arr] |->
                               IF i <= n THEN arrays[compiled.arr][from[i]] ELSE arrays[compiled.arr][i]]]
          /\ compiled' = [compiled EXCEPT !.len = n]
  BY Zenon DEF Filter!RemoveInMemory
<1>2. Filter!Staying(id) \subseteq 1 .. compiled.len
  BY DEF Filter!Staying
<1>3. Filter!SlicesOK(arrays, compiled)
  BY DEF ChecksOK
<1>4. Filter!SlicesOK(arrays', compiled')
  <2>1. PICK from \in [1 .. n -> Filter!Staying(id)] :
          /\ arrays' = [arrays EXCEPT ![compiled.arr] =
                           [i \in DOMAIN arrays[compiled.arr] |->
                               IF i <= n THEN arrays[compiled.arr][from[i]] ELSE arrays[compiled.arr][i]]]
          /\ compiled' = [compiled EXCEPT !.len = n]
    BY <1>1, Zenon
  <2>2. Filter!SlicesOK(Moved(arrays, compiled.arr, n, from), [compiled EXCEPT !.len = n])
    BY <1>2, <1>3, MovedDown, Zenon
  <2> QED
    BY <2>1, <2>2, Zenon DEF Moved
<1>5. Filter!Keep(TRUE)
  BY Zenon DEF Filter!RemoveInMemory
<1> QED
  BY <1>4, <1>5, KeepStep, Zenon

\* The slice a reload installs.
LEMMA InstallChecks ==
    ASSUME UNCHANGED part, ChecksOK, NEW u, upd[u].rules \subseteq Rules \cup Initial, Filter!Install(u)
    PROVE  ChecksOK' /\ Filter!RulesOf(Filter!InForce') = {r \in upd[u].rules : r.valid}
<1>1. PICK new \in Filter!Compile(upd[u].rules) :
          arrays' = Append(arrays, new) /\ compiled' = [arr |-> Len(arrays) + 1, len |-> Len(new)]
  BY DEF Filter!Install
<1>2. /\ new \in Seq(Filter!Held) /\ Len(new) \in 0 .. Len(new)
      /\ Filter!RulesOf([i \in 1 .. Len(new) |-> new[i]]) = {r \in upd[u].rules : r.valid}
  BY <1>1, Compiled
<1>3. Filter!SlicesOK(arrays, compiled)
  BY DEF ChecksOK
<1>4. /\ Filter!SlicesOK(arrays', compiled') /\ Keeps(arrays, compiled, arrays', compiled')
      /\ arrays'[compiled'.arr] = new
  <2>1. /\ Filter!SlicesOK(arrays', compiled') /\ Keeps(arrays, compiled, arrays', compiled')
        /\ arrays'[Len(arrays) + 1] = new
    BY <1>1, <1>2, <1>3, NewArray, Zenon
  <2>2. compiled'.arr = Len(arrays) + 1
    BY <1>1
  <2> QED
    BY <2>1, <2>2, Zenon
<1>5. Filter!Keep(FALSE)
  BY Zenon DEF Filter!Install
<1>6. ChecksOK'
  BY <1>4, <1>5, KeepStep, Zenon
<1>7. Filter!InForce' = [i \in 1 .. Len(new) |-> new[i]]
  BY <1>1, <1>4 DEF Filter!InForce
<1> QED
  BY <1>2, <1>6, <1>7

\* A check reads a rule.
LEMMA ReadChecks ==
    ASSUME UNCHANGED part, ChecksOK, NEW c \in Filter!Checkers, Filter!Read(c)
    PROVE  ChecksOK'
<1>0. UNCHANGED <<Filter!Mode, Filter!Checkers>>
  BY FilterConfStays
<1>1. /\ chk[c].pc = "read" /\ UNCHANGED <<arrays, compiled>>
      /\ chk' = [chk EXCEPT ![c] = ReadResult(Filter!Mode, chk[c], arrays)]
  BY Zenon DEF Filter!Read, ReadResult
<1>2. Filter!CheckOK(Filter!Mode, ReadResult(Filter!Mode, chk[c], arrays), arrays, compiled)
  BY <1>1, ReadOK, Zenon DEF ChecksOK
<1>3. /\ DOMAIN chk' = Filter!Checkers
      /\ \A d \in Filter!Checkers : chk'[d] = chk[d] \/ (d = c /\ chk'[d] = ReadResult(Filter!Mode, chk[c], arrays))
  BY <1>1 DEF ChecksOK
<1> QED
  BY <1>0, <1>1, <1>2, <1>3, Zenon DEF ChecksOK

\* A check begins.
LEMMA BeginChecks ==
    ASSUME UNCHANGED part, ChecksOK, NEW c \in Filter!Checkers, NEW m \in Mails, Filter!BeforeSend(c, m)
    PROVE  ChecksOK'
<1>0. UNCHANGED <<Filter!Mode, Filter!Checkers>>
  BY FilterConfStays
<1>1. PICK k : k = [Filter!NoCheck EXCEPT !.pc = IF compiled.len = 0 THEN "end" ELSE "read", !.msg = m,
                                 !.slice = compiled, !.seen = Filter!InForce, !.kept = Filter!RulesOf(Filter!InForce),
                                 !.result = IF compiled.len = 0 THEN "accept" ELSE "none"]
  BY Zenon
<1>2. UNCHANGED <<arrays, compiled>> /\ chk' = [chk EXCEPT ![c] = k]
  BY <1>1, Zenon DEF Filter!BeforeSend
<1>3. Filter!CheckOK(Filter!Mode, k, arrays, compiled)
  <2>1. PICK arrs, comp, rules, kept : arrs = arrays /\ comp = compiled /\ rules = Filter!InForce /\ kept = Filter!RulesOf(Filter!InForce)
    BY Zenon
  <2>2. Filter!SlicesOK(arrs, comp) /\ rules = [i \in 1 .. comp.len |-> arrs[comp.arr][i]]
    BY <2>1, Zenon DEF ChecksOK, Filter!InForce
  <2>3. k = [Filter!NoCheck EXCEPT !.pc = IF comp.len = 0 THEN "end" ELSE "read", !.msg = m,
                                   !.slice = comp, !.seen = rules, !.kept = kept,
                                   !.result = IF comp.len = 0 THEN "accept" ELSE "none"]
    BY <1>1, <2>1, Zenon
  <2>4. Filter!CheckOK(Filter!Mode, k, arrs, comp)
    BY <2>2, <2>3, BeginOK, Zenon
  <2> QED
    BY <2>1, <2>4, Zenon
<1>4. /\ DOMAIN chk' = Filter!Checkers
      /\ \A d \in Filter!Checkers : chk'[d] = chk[d] \/ (d = c /\ chk'[d] = k)
  BY <1>2 DEF ChecksOK
<1> QED
  BY <1>0, <1>2, <1>3, <1>4, Zenon DEF ChecksOK

\* The store and the updaters.
UpdatersOK ==
    /\ store \subseteq Rules \cup Initial
    /\ upd \in [Filter!Updaters -> [pc : {"idle", "list", "install"}, rules : SUBSET (Rules \cup Initial)]]

\* With one updater the rules in force are those of the store.
ForceOK ==
    Filter!Backing = "store" /\ (\A u, v \in Filter!Updaters : u = v) =>
        /\ Filter!StoreInForce
        /\ \A u \in Filter!Updaters : upd[u].pc = "install" => upd[u].rules = store

\* While the call of the one updater is under way nothing is said of the rules in force.
LEMMA UnderWay ==
    ASSUME UNCHANGED part, NEW u \in Filter!Updaters, UpdatersOK, NEW pc \in {"list", "install"}, NEW rules \in SUBSET (Rules \cup Initial),
           upd' = [upd EXCEPT ![u] = [pc |-> pc, rules |-> rules]], pc = "install" => rules = store', store' \subseteq Rules \cup Initial
    PROVE  UpdatersOK' /\ ForceOK'
<1>0. UNCHANGED <<Filter!Backing, Filter!Updaters>>
  BY FilterConfStays
<1>1. upd'[u].pc = pc /\ upd'[u].rules = rules
  BY DEF UpdatersOK
<1>2. upd' \in [Filter!Updaters -> [pc : {"idle", "list", "install"}, rules : SUBSET (Rules \cup Initial)]]
  BY DEF UpdatersOK
<1>3. UpdatersOK'
  BY <1>0, <1>2 DEF UpdatersOK
<1>4. upd'[u].pc # "idle"
  BY <1>1
<1>5. ForceOK'
  BY <1>0, <1>1, <1>4, Zenon DEF ForceOK, Filter!StoreInForce
<1> QED
  BY <1>3, <1>5

\* A step that leaves the arrays, the slice and the checks alone.
LEMMA ChecksRest ==
    ASSUME UNCHANGED part, ChecksOK, UNCHANGED <<arrays, compiled, chk>>
    PROVE  ChecksOK'
<1>1. UNCHANGED <<Filter!Mode, Filter!Checkers>>
  BY FilterConfStays
<1> QED
  BY <1>1, Zenon DEF ChecksOK

\* A step that leaves the store, the updaters and, with a store, the slice alone.
LEMMA UpdatersRest ==
    ASSUME UNCHANGED part, UpdatersOK, ForceOK, UNCHANGED <<store, upd>>,
           Filter!Backing = "store" => UNCHANGED <<arrays, compiled>>
    PROVE  UpdatersOK' /\ ForceOK'
<1>1. UNCHANGED <<Filter!Backing, Filter!Updaters>>
  BY FilterConfStays
<1>2. Filter!Backing = "store" => UNCHANGED Filter!InForce
  BY DEF Filter!InForce
<1>3. UpdatersOK'
  BY <1>1, Zenon DEF UpdatersOK
<1>4. ForceOK'
  BY <1>1, <1>2, Zenon DEF ForceOK, Filter!StoreInForce
<1> QED
  BY <1>3, <1>4

\* AddRule, RemoveRule and Reload with a store.
LEMMA StoredStep ==
    ASSUME UNCHANGED part, UpdatersOK, ChecksOK, NEW u \in Filter!Updaters,
           \/ \E r \in Rules : Filter!AddStored(u, r)
           \/ \E id : Filter!RemoveStored(u, id)
           \/ Filter!Reload(u)
    PROVE  UpdatersOK' /\ ChecksOK' /\ ForceOK'
<1>1. upd' = [upd EXCEPT ![u].pc = "list"] /\ UNCHANGED <<arrays, compiled, chk>>
  BY Zenon DEF Filter!AddStored, Filter!RemoveStored, Filter!Reload
<1>2. store' \subseteq Rules \cup Initial
  BY DEF UpdatersOK, Filter!AddStored, Filter!RemoveStored, Filter!Reload
<1>3. PICK rules \in SUBSET (Rules \cup Initial) : rules = upd[u].rules
  BY DEF UpdatersOK
<1>4. upd' = [upd EXCEPT ![u] = [pc |-> "list", rules |-> rules]]
  <2>1. PICK k \in [pc : {"idle", "list", "install"}, rules : SUBSET (Rules \cup Initial)] : k = upd[u]
    BY DEF UpdatersOK
  <2>2. [k EXCEPT !.pc = "list"] = [pc |-> "list", rules |-> k.rules]
    OBVIOUS
  <2>3. upd' = [upd EXCEPT ![u] = [upd[u] EXCEPT !.pc = "list"]]
    BY <1>1
  <2> QED
    BY <1>3, <2>1, <2>2, <2>3, Zenon
<1>5. UpdatersOK' /\ ForceOK'
  BY <1>2, <1>4, UnderWay, Zenon
<1> QED
  BY <1>1, <1>5, ChecksRest, Zenon

\* ListRules of a reload.
LEMMA ListStep ==
    ASSUME UNCHANGED part, UpdatersOK, ChecksOK, NEW u \in Filter!Updaters, Filter!List(u)
    PROVE  UpdatersOK' /\ ChecksOK' /\ ForceOK'
<1>1. upd' = [upd EXCEPT ![u] = [pc |-> "install", rules |-> store]] /\ UNCHANGED <<store, arrays, compiled, chk>>
  BY Zenon DEF Filter!List
<1>2. store \in SUBSET (Rules \cup Initial) /\ store' \subseteq Rules \cup Initial
  BY <1>1 DEF UpdatersOK
<1>3. PICK rs : rs = store
  BY Zenon
<1>4. UpdatersOK' /\ ForceOK'
  BY <1>1, <1>2, <1>3, UnderWay, Zenon
<1> QED
  BY <1>1, <1>4, ChecksRest, Zenon

\* The new slice of a reload.
LEMMA InstallStep ==
    ASSUME UNCHANGED part, UpdatersOK, ChecksOK, ForceOK, NEW u \in Filter!Updaters, Filter!Install(u)
    PROVE  UpdatersOK' /\ ChecksOK' /\ ForceOK'
<1>0. UNCHANGED <<Filter!Backing, Filter!Updaters>>
  BY FilterConfStays
<1>1. upd[u].pc = "install" /\ upd' = [upd EXCEPT ![u] = [pc |-> "idle", rules |-> {}]] /\ UNCHANGED store
  BY Zenon DEF Filter!Install
<1>2. upd[u].rules \subseteq Rules \cup Initial
  BY DEF UpdatersOK
<1>3. ChecksOK' /\ Filter!RulesOf(Filter!InForce') = {r \in upd[u].rules : r.valid}
  BY <1>2, InstallChecks
<1>4. upd' \in [Filter!Updaters -> [pc : {"idle", "list", "install"}, rules : SUBSET (Rules \cup Initial)]]
  BY <1>1 DEF UpdatersOK
<1>5. UpdatersOK'
  BY <1>0, <1>1, <1>4, Zenon DEF UpdatersOK
<1>6. upd'[u].pc = "idle"
  BY <1>1 DEF UpdatersOK
<1>7. ASSUME Filter!Backing = "store", \A v, w \in Filter!Updaters : v = w
      PROVE  /\ Filter!RulesOf(Filter!InForce') = {r \in store' : r.valid}
             /\ \A v \in Filter!Updaters : upd'[v].pc # "install"
  <2>1. upd[u].rules = store
    BY <1>1, <1>7, Zenon DEF ForceOK
  <2>2. \A v \in Filter!Updaters : upd'[v].pc = "idle"
    BY <1>6, <1>7, Zenon
  <2> QED
    BY <2>1, <2>2, <1>1, <1>3
<1>8. ForceOK'
  BY <1>0, <1>7, Zenon DEF ForceOK, Filter!StoreInForce
<1> QED
  BY <1>3, <1>5, <1>8, Zenon

\* Rules added and removed in memory, and the checks themselves.
LEMMA OtherStep ==
    ASSUME UNCHANGED part, UpdatersOK, ChecksOK, ForceOK,
           \/ \E u \in Filter!Updaters : \/ \E r \in Rules : Filter!AddInMemory(u, r)
                                         \/ \E id : Filter!RemoveInMemory(u, id)
           \/ \E c \in Filter!Checkers : Filter!Read(c) \/ \E m \in Mails : Filter!BeforeSend(c, m)
    PROVE  UpdatersOK' /\ ChecksOK' /\ ForceOK'
<1>1. ChecksOK'
  BY AddChecks, RemoveChecks, ReadChecks, BeginChecks, Zenon
<1>2. UNCHANGED <<store, upd>> /\ (Filter!Backing = "store" => UNCHANGED <<arrays, compiled>>)
  BY Zenon DEF Filter!AddInMemory, Filter!RemoveInMemory, Filter!Read, Filter!BeforeSend
<1> QED
  BY <1>1, <1>2, UpdatersRest, Zenon

\* One case per action of the filter.
LEMMA FilterStep == Filter!FilterInv /\ [FilterNext]_<<part, filterVars>> => Filter!FilterInv'
<1> SUFFICES ASSUME Filter!FilterInv, [FilterNext]_<<part, filterVars>> PROVE Filter!FilterInv'
  BY Zenon
<1>1. UNCHANGED part
  BY Zenon DEF FilterNext
<1>2. UpdatersOK /\ ChecksOK /\ ForceOK
  BY Zenon DEF Filter!FilterInv, UpdatersOK, ChecksOK, ForceOK
<1>3. CASE UNCHANGED filterVars
  <2>1. UNCHANGED <<store, upd, arrays, compiled, chk>>
    BY <1>3, Zenon DEF filterVars
  <2>2. UpdatersOK' /\ ChecksOK' /\ ForceOK'
    BY <1>1, <1>2, <2>1, ChecksRest, UpdatersRest, Zenon
  <2> QED
    BY <2>2, Zenon DEF Filter!FilterInv, UpdatersOK, ChecksOK, ForceOK
<1>4. CASE Filter!Next
  <2>1. UpdatersOK' /\ ChecksOK' /\ ForceOK'
    BY <1>1, <1>2, <1>4, StoredStep, ListStep, InstallStep, OtherStep, Zenon DEF Filter!Next
  <2> QED
    BY <2>1, Zenon DEF Filter!FilterInv, UpdatersOK, ChecksOK, ForceOK
<1> QED
  BY <1>3, <1>4, Zenon DEF FilterNext

\* The filter begins with the rules of its store that compile.
LEMMA FilterBegins == FilterInit => Filter!FilterInv
<1> SUFFICES ASSUME FilterInit PROVE Filter!FilterInv
  BY Zenon
<1>1. /\ store \subseteq Rules \cup Initial /\ upd = [u \in Filter!Updaters |-> [pc |-> "idle", rules |-> {}]]
      /\ chk = [c \in Filter!Checkers |-> Filter!NoCheck] /\ compiled = [arr |-> 1, len |-> Len(arrays[1])]
  BY DEF FilterInit, Filter!Init
<1>2. PICK rules \in Filter!Compile(store) : arrays = <<rules>>
  BY Zenon DEF FilterInit, Filter!Init
<1>3. /\ rules \in Seq(Filter!Held) /\ Len(rules) \in 0 .. Len(rules)
      /\ Filter!RulesOf([i \in 1 .. Len(rules) |-> rules[i]]) = {r \in store : r.valid}
  BY <1>1, <1>2, Compiled
<1>4. Filter!SlicesOK(arrays, compiled)
  BY <1>1, <1>2, <1>3 DEF Filter!SlicesOK
<1>5. Filter!InForce = [i \in 1 .. Len(rules) |-> rules[i]]
  BY <1>1, <1>2, <1>3 DEF Filter!InForce
<1>6. Filter!NoCheck.pc = "new"
  BY DEF Filter!NoCheck
<1>7. \A c \in Filter!Checkers : Filter!CheckOK(Filter!Mode, chk[c], arrays, compiled)
  BY <1>1, <1>6 DEF Filter!CheckOK
<1>8. \A u \in Filter!Updaters : upd[u].pc # "install"
  BY <1>1
<1>9. upd \in [Filter!Updaters -> [pc : {"idle", "list", "install"}, rules : SUBSET (Rules \cup Initial)]]
  BY <1>1
<1>10. DOMAIN chk = Filter!Checkers
  BY <1>1
<1> QED
  BY <1>1, <1>3, <1>4, <1>5, <1>7, <1>8, <1>9, <1>10, Zenon DEF Filter!FilterInv, Filter!StoreInForce

\* The address filter keeps its invariant.
THEOREM FilterInvariant == FilterSpec => []Filter!FilterInv
  BY FilterBegins, FilterStep, PTL DEF FilterSpec

\* A message is judged by one list of rules, the one in force when its check began:
\* additions behind it and reloads never show.
THEOREM OneListHolds == FilterSpec => []OneList
<1>1. Filter!FilterInv => OneList
  BY Zenon DEF Filter!FilterInv, Filter!CheckOK, OneList, Filter!OneList
<1> QED
  BY <1>1, FilterInvariant, PTL

\* With one updater and none of its calls under way, the rules in force are those of
\* the store that compile.
THEOREM StoreInForceHolds == FilterSpec => []StoreInForce
<1>1. Filter!FilterInv => StoreInForce
  BY Zenon DEF Filter!FilterInv, StoreInForce, Filter!StoreInForce
<1> QED
  BY <1>1, FilterInvariant, PTL

-----------------------------------------------------------------------------
(* The chain of hooks *)

\* The configuration of the chain is that of its part, which no step changes.
LEMMA ChainConfStays ==
    ASSUME UNCHANGED part
    PROVE  UNCHANGED <<Chain!Messages, Chain!Enabled, Chain!Cfg>>
  BY DEF Chain!Messages, Chain!Enabled, Chain!Cfg, Chain!Conf, Chain!Named

\* What each hook that judges leaves behind once it has been passed.
SpamJudged == Chain!IsSpam(spam) => Chain!Cfg.tagOnly /\ draft.tag
ScanJudged == av = "clean" \/ (av # "threat" /\ Chain!Cfg.avFailOpen)
AuthJudged == /\ Chain!Policy(Chain!Cfg.spf, draft.spf, {"fail", "softfail"})
              /\ Chain!Policy(Chain!Cfg.dkim, draft.dkim.result, {"fail"})

Judges == {"emailauth", "spam", "antivirus"}

\* The hooks that judge are in the chain.
LEMMA InChain ==
    /\ Len(Chain!Chain) = 9
    /\ \A name \in Judges : \E i \in 1 .. 9 : Chain!Chain[i] = name
<1>1. Len(Chain!Chain) = 9
  BY DEF Chain!Chain
<1>2. Chain!Chain[6] = "emailauth" /\ Chain!Chain[7] = "spam" /\ Chain!Chain[8] = "antivirus"
  BY DEF Chain!Chain
<1> QED
  BY <1>1, <1>2 DEF Judges

\* The fields a draft has, by whichever door it came.
LEMMA DraftFields ==
    ASSUME NEW m
    PROVE  {"spf", "dkim", "tag", "newline"} \subseteq DOMAIN Chain!Draft(m)
<1>1. /\ {"spf", "dkim", "tag", "newline"} \subseteq DOMAIN Chain!SMTPDraft(m)
      /\ {"spf", "dkim", "tag", "newline"} \subseteq DOMAIN Chain!LMTPDraft(m)
      /\ {"spf", "dkim", "tag", "newline"} \subseteq DOMAIN Chain!GRPCDraft(m)
  BY DEF Chain!SMTPDraft, Chain!LMTPDraft, Chain!GRPCDraft
<1>2. \/ Chain!Draft(m) = Chain!SMTPDraft(m)
      \/ Chain!Draft(m) = Chain!LMTPDraft(m)
      \/ Chain!Draft(m) = Chain!GRPCDraft(m)
  BY DEF Chain!Draft
<1> QED
  BY <1>1, <1>2

\* A step past one hook: what is behind it afterwards was behind it before, or is
\* the hook itself.
LEMMA OneFurther ==
    ASSUME outcome = "none", at \in 1 .. Len(Chain!Chain), NEW ok, Chain!Goes(ok)
    PROVE  /\ at' \in 1 .. Len(Chain!Chain) /\ outcome' \in {"none", "rejected", "stored"}
           /\ outcome' # "rejected" => ok
           /\ \A name \in Judges :
                 Chain!Past(name)' /\ outcome' # "rejected" => Chain!Past(name) \/ Chain!Chain[at] = name
<1>1. /\ at' \in 1 .. Len(Chain!Chain) /\ outcome' \in {"none", "rejected", "stored"}
      /\ outcome' # "rejected" => ok
  BY InChain DEF Chain!Goes
<1>2. ASSUME NEW name \in Judges, Chain!Past(name)', outcome' # "rejected"
      PROVE  Chain!Past(name) \/ Chain!Chain[at] = name
  <2>1. PICK i \in 1 .. at : Chain!Chain[i] = name
    <3>1. CASE at = 9
      BY <3>1, InChain
    <3>2. CASE at # 9
      <4>1. outcome' = "none" /\ at' = at + 1
        BY <1>2, <3>2, InChain DEF Chain!Goes
      <4> QED
        BY <1>2, <4>1, InChain DEF Chain!Past, Chain!Stored, Chain!Chain
    <3> QED
      BY <3>1, <3>2
  <2>2. CASE i = at
    BY <2>1, <2>2
  <2>3. CASE i # at
    BY <2>1, <2>3, InChain DEF Chain!Past
  <2> QED
    BY <2>2, <2>3
<1> QED
  BY <1>1, <1>2, Zenon

\* A hook keeps the invariant when what it has judged stands and nothing else that
\* was judged by has changed.
LEMMA HookStep ==
    ASSUME Chain!ChainInv, UNCHANGED part, outcome = "none", NEW ok, Chain!Goes(ok),
           msg' = msg, DOMAIN draft' = DOMAIN draft, draft'.spf = draft.spf, draft'.dkim = draft.dkim,
           ok /\ Chain!Has("spam") /\ (Chain!Past("spam") \/ Chain!Chain[at] = "spam") => SpamJudged',
           ok /\ Chain!Has("antivirus") /\ (Chain!Past("antivirus") \/ Chain!Chain[at] = "antivirus") => ScanJudged',
           ok /\ Chain!Has("emailauth") /\ (Chain!Past("emailauth") \/ Chain!Chain[at] = "emailauth") => AuthJudged'
    PROVE  Chain!ChainInv'
<1>1. Chain!Messages' = Chain!Messages /\ Chain!Enabled' = Chain!Enabled
  BY ChainConfStays, Zenon
<1>2. /\ msg \in Chain!Messages /\ at \in 1 .. Len(Chain!Chain)
      /\ DOMAIN draft = DOMAIN Chain!Draft(msg) /\ draft.spf = Chain!Draft(msg).spf /\ draft.dkim = Chain!Draft(msg).dkim
  BY Zenon DEF Chain!ChainInv
<1>3. /\ at' \in 1 .. Len(Chain!Chain) /\ outcome' \in {"none", "rejected", "stored"}
      /\ outcome' # "rejected" => ok
      /\ \A name \in Judges :
            Chain!Past(name)' /\ outcome' # "rejected" => Chain!Past(name) \/ Chain!Chain[at] = name
  BY <1>2, OneFurther, Zenon
<1>4. /\ msg' \in Chain!Messages' /\ DOMAIN draft' = DOMAIN Chain!Draft(msg')
      /\ draft'.spf = Chain!Draft(msg').spf /\ draft'.dkim = Chain!Draft(msg').dkim
  BY <1>1, <1>2, Zenon
<1>5. ASSUME NEW name PROVE Chain!Has(name)' <=> Chain!Has(name)
  BY <1>1, Zenon DEF Chain!Has
<1>6. outcome' # "rejected" /\ Chain!Has("spam")' /\ Chain!Past("spam")' => SpamJudged'
  BY <1>3, <1>5, Zenon DEF Judges
<1>7. outcome' # "rejected" /\ Chain!Has("antivirus")' /\ Chain!Past("antivirus")' => ScanJudged'
  BY <1>3, <1>5, Zenon DEF Judges
<1>8. outcome' # "rejected" /\ Chain!Has("emailauth")' /\ Chain!Past("emailauth")' => AuthJudged'
  BY <1>3, <1>5, Zenon DEF Judges
<1> QED
  BY <1>3, <1>4, <1>6, <1>7, <1>8, Zenon DEF Chain!ChainInv, SpamJudged, ScanJudged, AuthJudged

\* What the invariant says of the hooks passed so far.
LEMMA JudgedSoFar ==
    ASSUME Chain!ChainInv, outcome = "none"
    PROVE  /\ Chain!Has("spam") /\ Chain!Past("spam") => SpamJudged
           /\ Chain!Has("antivirus") /\ Chain!Past("antivirus") => ScanJudged
           /\ Chain!Has("emailauth") /\ Chain!Past("emailauth") => AuthJudged
<1>1. outcome # "rejected"
  OBVIOUS
<1> QED
  BY <1>1, Zenon DEF Chain!ChainInv, SpamJudged, ScanJudged, AuthJudged

\* A step that touches nothing but the place in the chain changes no judgement.
LEMMA JudgementsStay ==
    ASSUME UNCHANGED part, UNCHANGED <<draft, spam, av>>
    PROVE  (SpamJudged' <=> SpamJudged) /\ (ScanJudged' <=> ScanJudged) /\ (AuthJudged' <=> AuthJudged)
<1>1. Chain!Cfg' = Chain!Cfg
  BY ChainConfStays, Zenon
<1>2. draft' = draft /\ spam' = spam /\ av' = av
  BY Zenon
<1>3. SpamJudged' <=> SpamJudged
  BY <1>1, <1>2, Zenon DEF SpamJudged, Chain!IsSpam
<1>4. ScanJudged' <=> ScanJudged
  BY <1>1, <1>2, Zenon DEF ScanJudged
<1>5. AuthJudged' <=> AuthJudged
  BY <1>1, <1>2, Zenon DEF AuthJudged
<1> QED
  BY <1>3, <1>4, <1>5, Zenon

\* A hook that judges neither spam, viruses nor authentication, or is not in use.
LEMMA Passing ==
    ASSUME Chain!ChainInv, UNCHANGED part, outcome = "none", NEW ok, Chain!Goes(ok),
           UNCHANGED <<msg, draft, spam, av>>, \A name \in Judges : Chain!Has(name) => Chain!Chain[at] # name
    PROVE  Chain!ChainInv'
<1>1. /\ Chain!Has("spam") => Chain!Chain[at] # "spam"
      /\ Chain!Has("antivirus") => Chain!Chain[at] # "antivirus"
      /\ Chain!Has("emailauth") => Chain!Chain[at] # "emailauth"
  BY Zenon DEF Judges
<1>2. msg' = msg /\ draft' = draft
  BY Zenon
<1> QED
  BY <1>1, <1>2, JudgedSoFar, JudgementsStay, HookStep, Zenon

\* The authentication hook lets a message on only when both policies do.
LEMMA EmailAuthStep ==
    ASSUME Chain!ChainInv, UNCHANGED part, Chain!EmailAuth
    PROVE  Chain!ChainInv'
<1> DEFINE ok == /\ Chain!Policy(Chain!Cfg.spf, draft.spf, {"fail", "softfail"})
                 /\ Chain!Policy(Chain!Cfg.dkim, draft.dkim.result, {"fail"})
                 /\ Chain!DMARC(draft)
<1>1. /\ outcome = "none" /\ Chain!Chain[at] = "emailauth" /\ Chain!Goes(ok)
      /\ msg' = msg /\ draft' = draft /\ UNCHANGED <<draft, spam, av>>
  BY Zenon DEF Chain!EmailAuth, Chain!Hook
<1>2. Chain!Chain[at] # "spam" /\ Chain!Chain[at] # "antivirus"
  BY <1>1
<1>3. ok => AuthJudged
  BY Zenon DEF AuthJudged
<1> HIDE DEF ok
<1> QED
  BY <1>1, <1>2, <1>3, JudgedSoFar, JudgementsStay, HookStep, Zenon

\* The spam hook lets what it takes for spam on only when it tags it.
LEMMA SpamStep ==
    ASSUME Chain!ChainInv, UNCHANGED part, Chain!SpamChecker
    PROVE  Chain!ChainInv'
<1>1. PICK a \in Chain!SpamAnswers :
        /\ spam' = a
        /\ Chain!Goes(Chain!IsSpam(a) => Chain!Cfg.tagOnly)
        /\ draft' = IF Chain!IsSpam(a) /\ Chain!Cfg.tagOnly
                    THEN [draft EXCEPT !.tag = TRUE, !.newline = @ \/ a.newline] ELSE draft
  BY Zenon DEF Chain!SpamChecker
<1>2. outcome = "none" /\ Chain!Chain[at] = "spam" /\ msg' = msg /\ av' = av
  BY Zenon DEF Chain!SpamChecker, Chain!Hook
<1>3. Chain!Chain[at] # "emailauth" /\ Chain!Chain[at] # "antivirus"
  BY <1>2
<1>4. {"spf", "dkim", "tag", "newline"} \subseteq DOMAIN draft
  BY DraftFields, Zenon DEF Chain!ChainInv
<1>5. /\ DOMAIN draft' = DOMAIN draft /\ draft'.spf = draft.spf /\ draft'.dkim = draft.dkim
      /\ Chain!IsSpam(a) /\ Chain!Cfg.tagOnly => draft'.tag
  <2> DEFINE is == Chain!IsSpam(a) /\ Chain!Cfg.tagOnly
             new == draft.newline \/ a.newline
  <2>1. draft' = IF is THEN [[draft EXCEPT !.tag = TRUE] EXCEPT !.newline = new] ELSE draft
    BY <1>1, <1>4
  <2> HIDE DEF is, new
  <2>2. DOMAIN draft' = DOMAIN draft /\ draft'.spf = draft.spf /\ draft'.dkim = draft.dkim
    BY <1>4, <2>1
  <2>3. is => draft'.tag
    BY <1>4, <2>1
  <2> QED
    BY <2>2, <2>3, Zenon DEF is
<1>6. Chain!Cfg' = Chain!Cfg
  BY ChainConfStays, Zenon
<1>7. (Chain!IsSpam(a) => Chain!Cfg.tagOnly) => SpamJudged'
  BY <1>1, <1>5, <1>6, Zenon DEF SpamJudged, Chain!IsSpam
<1>8. (ScanJudged' <=> ScanJudged) /\ (AuthJudged' <=> AuthJudged)
  BY <1>2, <1>5, <1>6, Zenon DEF ScanJudged, AuthJudged
<1> QED
  BY <1>1, <1>2, <1>3, <1>5, <1>7, <1>8, JudgedSoFar, HookStep, Zenon

\* The virus scan lets on what it found clean and, with FailOpen, what it could not scan.
LEMMA AntiVirusStep ==
    ASSUME Chain!ChainInv, UNCHANGED part, Chain!AntiVirus
    PROVE  Chain!ChainInv'
<1>1. PICK a \in {"clean", "threat", "unreachable", "status", "garbled"} :
        /\ av' = a
        /\ Chain!Goes(CASE a = "clean" -> TRUE [] a = "threat" -> FALSE [] OTHER -> Chain!Cfg.avFailOpen)
  BY Zenon DEF Chain!AntiVirus
<1>2. outcome = "none" /\ Chain!Chain[at] = "antivirus" /\ msg' = msg /\ draft' = draft /\ spam' = spam
  BY Zenon DEF Chain!AntiVirus, Chain!Hook
<1>3. Chain!Chain[at] # "emailauth" /\ Chain!Chain[at] # "spam"
  BY <1>2
<1> DEFINE ok == CASE a = "clean" -> TRUE [] a = "threat" -> FALSE [] OTHER -> Chain!Cfg.avFailOpen
<1>4. Chain!Cfg' = Chain!Cfg
  BY ChainConfStays, Zenon
<1>5. ok => a = "clean" \/ (a # "threat" /\ Chain!Cfg.avFailOpen)
  OBVIOUS
<1>6. ok => ScanJudged'
  BY <1>1, <1>4, <1>5, Zenon DEF ScanJudged
<1>7. (SpamJudged' <=> SpamJudged) /\ (AuthJudged' <=> AuthJudged)
  BY <1>2, <1>4, Zenon DEF SpamJudged, AuthJudged, Chain!IsSpam
<1>8. Chain!Goes(ok)
  BY <1>1, Zenon
<1> HIDE DEF ok
<1> QED
  BY <1>2, <1>3, <1>6, <1>7, <1>8, JudgedSoFar, HookStep, Zenon

\* The steps of the other hooks, and past a hook that is not in use.
LEMMA OtherHooks ==
    ASSUME Chain!NotEnabled \/ Chain!Elsewhere \/ Chain!AttachmentFilter \/ Chain!SMTPSecurity \/ Chain!SecurityAgent
    PROVE  /\ outcome = "none" /\ UNCHANGED <<msg, draft, spam, av>>
           /\ \E ok : Chain!Goes(ok)
           /\ \A name \in Judges : Chain!Has(name) => Chain!Chain[at] # name
<1>1. CASE Chain!NotEnabled
  BY <1>1, Zenon DEF Chain!NotEnabled, Chain!Has
<1>2. CASE Chain!Elsewhere
  <2>1. PICK name \in {"crowdsec", "dnsbl", "address"}, ok \in BOOLEAN : Chain!Hook(name) /\ Chain!Goes(ok)
    BY <1>2, Zenon DEF Chain!Elsewhere
  <2>2. UNCHANGED <<msg, draft, spam, av>>
    BY <1>2, Zenon DEF Chain!Elsewhere
  <2>3. outcome = "none" /\ Chain!Chain[at] = name /\ name \notin Judges
    BY <2>1 DEF Chain!Hook, Judges
  <2> QED
    BY <2>1, <2>2, <2>3, Zenon
<1>3. CASE Chain!AttachmentFilter
  <2>1. outcome = "none" /\ Chain!Chain[at] = "attachment" /\ "attachment" \notin Judges
    BY <1>3, Zenon DEF Chain!AttachmentFilter, Chain!Hook, Judges
  <2>2. UNCHANGED <<msg, draft, spam, av>> /\ \E ok : Chain!Goes(ok)
    BY <1>3, ZenonT(30) DEF Chain!AttachmentFilter
  <2> QED
    BY <2>1, <2>2, Zenon
<1>4. CASE Chain!SMTPSecurity
  <2>1. outcome = "none" /\ Chain!Chain[at] = "smtpsecurity" /\ "smtpsecurity" \notin Judges
    BY <1>4 DEF Chain!SMTPSecurity, Chain!Hook, Judges
  <2>2. UNCHANGED <<msg, draft, spam, av>> /\ \E ok : Chain!Goes(ok)
    BY <1>4, Zenon DEF Chain!SMTPSecurity
  <2> QED
    BY <2>1, <2>2, Zenon
<1>5. CASE Chain!SecurityAgent
  <2>1. outcome = "none" /\ Chain!Chain[at] = "agent" /\ "agent" \notin Judges
    BY <1>5 DEF Chain!SecurityAgent, Chain!Hook, Judges
  <2>2. UNCHANGED <<msg, draft, spam, av>> /\ \E ok : Chain!Goes(ok)
    BY <1>5, Zenon DEF Chain!SecurityAgent
  <2> QED
    BY <2>1, <2>2, Zenon
<1> QED
  BY <1>1, <1>2, <1>3, <1>4, <1>5, Zenon

\* Every step of the chain keeps its invariant.
LEMMA ChainStep ==
    ASSUME Chain!ChainInv, ChainNext
    PROVE  Chain!ChainInv'
<1>1. UNCHANGED part /\ Chain!Next
  BY Zenon DEF ChainNext
<1>2. CASE Chain!NotEnabled \/ Chain!Elsewhere \/ Chain!AttachmentFilter \/ Chain!SMTPSecurity \/ Chain!SecurityAgent
  BY <1>1, <1>2, OtherHooks, Passing, Zenon
<1>3. CASE Chain!EmailAuth
  BY <1>1, <1>3, EmailAuthStep, Zenon
<1>4. CASE Chain!SpamChecker
  BY <1>1, <1>4, SpamStep, Zenon
<1>5. CASE Chain!AntiVirus
  BY <1>1, <1>5, AntiVirusStep, Zenon
<1> QED
  BY <1>1, <1>2, <1>3, <1>4, <1>5, Zenon DEF Chain!Next

\* A message comes in with no hook behind it.
LEMMA ChainBegins ==
    ASSUME ChainInit
    PROVE  Chain!ChainInv
<1>1. /\ msg \in Chain!Messages /\ draft = Chain!Draft(msg) /\ at = 1 /\ outcome = "none"
  BY Zenon DEF ChainInit, Chain!Init
<1>2. ASSUME NEW name PROVE ~Chain!Past(name)
  BY <1>1 DEF Chain!Past, Chain!Stored
<1>3. at \in 1 .. Len(Chain!Chain) /\ outcome \in {"none", "rejected", "stored"}
  BY <1>1, InChain
<1> QED
  BY <1>1, <1>2, <1>3, Zenon DEF Chain!ChainInv

\* A stutter changes nothing the invariant speaks of.
LEMMA ChainStutters ==
    ASSUME Chain!ChainInv, UNCHANGED <<part, chainVars>>
    PROVE  Chain!ChainInv'
<1>1. part' = part /\ msg' = msg /\ draft' = draft /\ at' = at /\ outcome' = outcome /\ spam' = spam /\ av' = av
  BY Zenon DEF chainVars
<1>2. Chain!Messages' = Chain!Messages /\ Chain!Enabled' = Chain!Enabled /\ Chain!Cfg' = Chain!Cfg
  BY <1>1, ChainConfStays, Zenon
<1> QED
  BY <1>1, <1>2, Zenon DEF Chain!ChainInv, Chain!Has, Chain!Past, Chain!Stored, Chain!IsSpam

\* In the chain of hooks, whatever the configuration and the messages: a hook that
\* has been passed has judged, and none that follows changes what it judged by.
THEOREM ChainInvariant == ChainSpec => []Chain!ChainInv
<1>1. ChainInit => Chain!ChainInv
  BY ChainBegins
<1>2. Chain!ChainInv /\ [ChainNext]_<<part, chainVars>> => Chain!ChainInv'
  BY ChainStep, ChainStutters
<1> QED
  BY <1>1, <1>2, PTL DEF ChainSpec

\* What the draft of a message by SMTP says of its signatures.
LEMMA SignaturesInDraft ==
    ASSUME NEW m, m.door = "smtp",
           Chain!Draft(m).dkim.result # "none", Chain!Draft(m).dkim.result # "fail"
    PROVE  m.sigs # <<>> /\ \A i \in DOMAIN m.sigs : m.sigs[i].ok
<1>1. Chain!Draft(m).dkim = Chain!DkimResult(m.sigs)
  BY DEF Chain!Draft, Chain!SMTPDraft
<1>2. m.sigs # <<>>
  BY <1>1 DEF Chain!DkimResult
<1> DEFINE good == {i \in DOMAIN m.sigs : m.sigs[i].ok}
<1>3. Chain!DkimResult(m.sigs).result = IF good = DOMAIN m.sigs THEN "pass" ELSE "fail"
  BY <1>2 DEF Chain!DkimResult
<1>4. good = DOMAIN m.sigs
  <2> HIDE DEF good
  <2> QED
    BY <1>1, <1>3
<1> QED
  BY <1>2, <1>4, Zenon

\* A message is stored only when every hook in use that judges it has: what was
\* condemned, or could not be scanned, only as the configuration says, and with a
\* policy of require only with signatures that verified and an SPF check passed.
THEOREM JudgedBeforeStoredHolds == ChainSpec => []JudgedBeforeStored
<1>1. ASSUME Chain!ChainInv PROVE JudgedBeforeStored
  <2> SUFFICES ASSUME outcome = "stored" PROVE JudgedBeforeStored
    BY Zenon DEF JudgedBeforeStored, Chain!ScannedBeforeStored, Chain!RequiredAuthPresent, Chain!Stored
  <2>1. outcome # "rejected" /\ \A name : Chain!Past(name)
    BY DEF Chain!Past, Chain!Stored
  <2>2. /\ Chain!Has("spam") /\ Chain!IsSpam(spam) => Chain!Cfg.tagOnly /\ draft.tag
        /\ Chain!Has("antivirus") => av = "clean" \/ (av # "threat" /\ Chain!Cfg.avFailOpen)
        /\ Chain!Has("emailauth") => /\ Chain!Policy(Chain!Cfg.spf, draft.spf, {"fail", "softfail"})
                                     /\ Chain!Policy(Chain!Cfg.dkim, draft.dkim.result, {"fail"})
    BY <1>1, <2>1, Zenon DEF Chain!ChainInv
  <2>3. draft.spf = Chain!Draft(msg).spf /\ draft.dkim = Chain!Draft(msg).dkim
    BY <1>1, Zenon DEF Chain!ChainInv
  <2>4. ASSUME Chain!Has("emailauth"), msg.door = "smtp", Chain!Cfg.dkim = "require"
        PROVE  msg.sigs # <<>> /\ \A i \in DOMAIN msg.sigs : msg.sigs[i].ok
    <3>1. draft.dkim.result \notin {"", "none", "fail"}
      BY <2>2, <2>4 DEF Chain!Policy, Chain!Missing
    <3>2. draft.dkim.result # "none" /\ draft.dkim.result # "fail"
      BY <3>1
    <3> QED
      BY <2>3, <2>4, <3>2, SignaturesInDraft, Zenon
  <2>5. ASSUME Chain!Has("emailauth"), msg.door = "smtp", Chain!Cfg.spf = "require"
        PROVE  msg.spf \notin {"", "none", "fail", "softfail"}
    <3>1. draft.spf \notin {"", "none", "fail", "softfail"}
      BY <2>2, <2>5 DEF Chain!Policy, Chain!Missing
    <3>2. Chain!Draft(msg).spf = msg.spf
      BY <2>5 DEF Chain!Draft, Chain!SMTPDraft
    <3> QED
      BY <2>3, <3>1, <3>2
  <2> QED
    BY <2>2, <2>4, <2>5, Zenon DEF JudgedBeforeStored, Chain!ScannedBeforeStored, Chain!RequiredAuthPresent, Chain!Stored
<1> QED
  BY <1>1, ChainInvariant, PTL
=============================================================================
