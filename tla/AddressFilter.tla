--------------------------- MODULE AddressFilter ---------------------------
(***************************************************************************)
(* The address filter plugin (internal/plugin/address_filter.go): rules    *)
(* are added, removed and reloaded while messages are checked.             *)
(*                                                                         *)
(* f.compiled is a Go slice: an array and a length.  A check copies the    *)
(* slice under the lock and then reads the array, one rule at a time, with *)
(* no lock held; in-memory rules are appended to the array and removed by  *)
(* moving the others down in it, while a reload installs a new array.      *)
(* A pattern is the set of addresses it matches.  The store is the one of  *)
(* the repository, MemRuleStore, whose calls do not fail and which lists   *)
(* rules in any order, as it keeps them in a map.                          *)
(***************************************************************************)
EXTENDS Integers, Sequences, FiniteSets, Parts

CONSTANTS
    FilterConf,         \* the configurations, by part
    Rules,              \* rules to add: [id, matches, field, valid]
    Mails,              \* messages: [sender, recipients]
    Initial,            \* the rules the store begins with
    Ops                 \* what updaters do: of "add", "remove", "reload"

Conf == FilterConf[Named(FilterConf)]

Updaters == Conf.upd        \* the calls that change rules
Checkers == Conf.chk        \* and those that check
Mode == Conf.mode           \* "block" or "allow"
Backing == Conf.backing     \* "store" or "none"
MaxOps == Conf.ops          \* bound on what the updaters do

\* A store holds finitely many rules, and a message has finitely many recipients.
ConstantsOK ==
    /\ \A rs \in SUBSET (Rules \cup Initial) : Cardinality(rs) \in Nat
    /\ \A m \in Mails : Len(m.recipients) \in Nat

VARIABLES
    store,      \* the rules of the RuleStore
    arrays,     \* every array compiled ever was, with its capacity as length
    compiled,   \* [arr, len]: f.compiled
    upd,        \* per updater: pc and the rules it listed
    chk,        \* per check: pc, message, slice, position, what it found so far,
                \* and for the properties the rules it began with (seen), those in
                \* force since (kept), and if one was removed meanwhile (disturbed)
    ops

vars == <<store, arrays, compiled, upd, chk, ops>>

Empty == [id |-> 0, matches |-> {}, field |-> {}, valid |-> FALSE]
RulesOf(s) == {s[i] : i \in DOMAIN s}

\* ListRules, and the loop of reload that leaves out what does not compile.
Listings(rs) == {s \in [1 .. Cardinality(rs) -> rs] : RulesOf(s) = rs}
Compile(rs) == Listings({r \in rs : r.valid})

\* The rules in force: what a check that began now would go by.
InForce == [i \in 1 .. compiled.len |-> arrays[compiled.arr][i]]

\* addrs of BeforeSend: the sender, then the recipients.
Addrs(m) ==
    [i \in 1 .. Len(m.recipients) + 1 |->
        IF i = 1 THEN [addr |-> m.sender, field |-> "sender"]
        ELSE [addr |-> m.recipients[i - 1], field |-> "recipients"]]

NoCheck == [pc |-> "new", msg |-> CHOOSE m \in Mails : TRUE, slice |-> [arr |-> 1, len |-> 0],
            a |-> 1, r |-> 1, applicable |-> FALSE, result |-> "none",
            seen |-> <<>>, kept |-> {}, disturbed |-> FALSE]

Init ==
    /\ store = IF Backing = "store" THEN Initial ELSE {}
    /\ \E rules \in Compile(store) : arrays = <<rules>>
    /\ compiled = [arr |-> 1, len |-> Len(arrays[1])]
    /\ upd = [u \in Updaters |-> [pc |-> "idle", rules |-> {}]]
    /\ chk = [c \in Checkers |-> NoCheck]
    /\ ops = 0

\* The checks under way lose from kept what is no longer in force.
Keep(removal) ==
    chk' = [c \in Checkers |-> IF chk[c].pc # "read" THEN chk[c]
               ELSE [chk[c] EXCEPT !.kept = @ \cap RulesOf(InForce'), !.disturbed = @ \/ removal]]

Begin(u, op) == upd[u].pc = "idle" /\ op \in Ops /\ ops < MaxOps /\ ops' = ops + 1

\* AddRule with a store: SaveRule, and a reload after it.
AddStored(u, r) ==
    /\ Backing = "store" /\ Begin(u, "add") /\ r.valid
    /\ store' = {x \in store : x.id # r.id} \cup {r}
    /\ upd' = [upd EXCEPT ![u].pc = "list"]
    /\ UNCHANGED <<arrays, compiled, chk>>

\* append: in place while there is room, else in an array twice as long.
Appended(arr, len, r) ==
    IF len < Len(arr) THEN [arr EXCEPT ![len + 1] = r]
    ELSE [i \in 1 .. (IF len = 0 THEN 1 ELSE 2 * len) |->
             IF i <= len THEN arr[i] ELSE IF i = len + 1 THEN r ELSE Empty]

\* AddRule without a store; a pattern that does not compile changes nothing.
AddInMemory(u, r) ==
    /\ Backing = "none" /\ Begin(u, "add") /\ r.valid
    /\ LET new == Appended(arrays[compiled.arr], compiled.len, r)
           fits == compiled.len < Len(arrays[compiled.arr])
       IN /\ arrays' = IF fits THEN [arrays EXCEPT ![compiled.arr] = new] ELSE Append(arrays, new)
          /\ compiled' = [arr |-> IF fits THEN compiled.arr ELSE Len(arrays) + 1, len |-> compiled.len + 1]
    /\ Keep(FALSE)
    /\ UNCHANGED <<store, upd>>

RemoveStored(u, id) ==
    /\ Backing = "store" /\ Begin(u, "remove")
    /\ store' = {x \in store : x.id # id}
    /\ upd' = [upd EXCEPT ![u].pc = "list"]
    /\ UNCHANGED <<arrays, compiled, chk>>

\* Where the rules that stay stand in the slice.
Staying(id) == {i \in 1 .. compiled.len : InForce[i].id # id}

\* RemoveRule without a store: the others move down in the same array.
\* The lock keeps other updates and new checks out, not a check that is reading;
\* the moves are one step here, as no property tells what such a check reads
\* between two of them from what it may read after the last.
RemoveInMemory(u, id) ==
    /\ Backing = "none" /\ Begin(u, "remove")
    /\ \E n \in 0 .. compiled.len : \E from \in [1 .. n -> Staying(id)] :
          /\ \A i \in Staying(id) : \E j \in 1 .. n : from[j] = i
          /\ \A i, j \in 1 .. n : i < j => from[i] < from[j]
          /\ arrays' = [arrays EXCEPT ![compiled.arr] =
                           [i \in DOMAIN @ |-> IF i <= n THEN @[from[i]] ELSE @[i]]]
          /\ compiled' = [compiled EXCEPT !.len = n]
    /\ Keep(TRUE)
    /\ UNCHANGED <<store, upd>>

Reload(u) ==
    /\ Backing = "store" /\ Begin(u, "reload")
    /\ upd' = [upd EXCEPT ![u].pc = "list"]
    /\ UNCHANGED <<store, arrays, compiled, chk>>

\* reload: ListRules, then the new slice under the lock.
List(u) ==
    /\ upd[u].pc = "list"
    /\ upd' = [upd EXCEPT ![u] = [pc |-> "install", rules |-> store]]
    /\ UNCHANGED <<store, arrays, compiled, chk, ops>>

\* (variant) the old array is filled again
InstallInPlace(u) ==
    /\ upd[u].pc = "install"
    /\ \E new \in Compile(upd[u].rules) :
          /\ arrays' = [arrays EXCEPT ![compiled.arr] = new \o SubSeq(@, Len(new) + 1, Len(@))]
          /\ compiled' = [compiled EXCEPT !.len = Len(new)]
    /\ Keep(FALSE)
    /\ upd' = [upd EXCEPT ![u] = [pc |-> "idle", rules |-> {}]]
    /\ UNCHANGED <<store, ops>>

\* (variant) a rule that does not compile ends the list
InstallPrefix(u) ==
    /\ upd[u].pc = "install"
    /\ \E all \in Listings(upd[u].rules), n \in 0 .. Cardinality(upd[u].rules) :
          /\ \A i \in 1 .. n : all[i].valid
          /\ n < Len(all) => ~all[n + 1].valid
          /\ arrays' = Append(arrays, SubSeq(all, 1, n))
          /\ compiled' = [arr |-> Len(arrays) + 1, len |-> n]
    /\ Keep(FALSE)
    /\ upd' = [upd EXCEPT ![u] = [pc |-> "idle", rules |-> {}]]
    /\ UNCHANGED <<store, ops>>

Install(u) ==
    /\ upd[u].pc = "install"
    /\ \E new \in Compile(upd[u].rules) :
          /\ arrays' = Append(arrays, new)
          /\ compiled' = [arr |-> Len(arrays) + 1, len |-> Len(new)]
    /\ Keep(FALSE)
    /\ upd' = [upd EXCEPT ![u] = [pc |-> "idle", rules |-> {}]]
    /\ UNCHANGED <<store, ops>>

\* BeforeSend takes the slice; without rules everything passes.
BeforeSend(c, m) ==
    /\ chk[c].pc = "new"
    /\ chk' = [chk EXCEPT ![c] =
                 [NoCheck EXCEPT !.pc = IF compiled.len = 0 THEN "end" ELSE "read", !.msg = m,
                                 !.slice = compiled, !.seen = InForce, !.kept = RulesOf(InForce),
                                 !.result = IF compiled.len = 0 THEN "accept" ELSE "none"]]
    /\ UNCHANGED <<store, arrays, compiled, upd, ops>>

Covers(r, a) == a.field \in r.field
Match(r, a) == Covers(r, a) /\ a.addr \in r.matches

\* What the loops of checkBlock and checkAllow do with the rule just read, and
\* at the end of the rules for an address: go on, or give a verdict.
Verdict(mode, match, last, applicable) ==
    IF mode = "block" THEN IF match THEN "reject" ELSE "next"
    ELSE IF match THEN "nextAddr" ELSE IF last /\ applicable THEN "reject" ELSE "next"

\* One turn of the inner loop: the rule is read from the array as it is now.
Read(c) ==
    LET k == chk[c]
        addrs == Addrs(k.msg)
        rule == arrays[k.slice.arr][k.r]
        applicable == k.applicable \/ Covers(rule, addrs[k.a])
        last == k.r = k.slice.len
        v == Verdict(Mode, Match(rule, addrs[k.a]), last, applicable)
    IN /\ k.pc = "read"
       /\ chk' = [chk EXCEPT ![c] =
             IF v = "reject" THEN [k EXCEPT !.pc = "end", !.result = "reject"]
             ELSE IF v = "next" /\ ~last THEN [k EXCEPT !.r = @ + 1, !.applicable = applicable]
             ELSE IF k.a < Len(addrs) THEN [k EXCEPT !.a = @ + 1, !.r = 1, !.applicable = FALSE]
             ELSE [k EXCEPT !.pc = "end", !.result = "accept"]]
       /\ UNCHANGED <<store, arrays, compiled, upd, ops>>

Next ==
    \/ \E u \in Updaters :
          \/ \E r \in Rules : AddStored(u, r) \/ AddInMemory(u, r)
          \/ \E id \in {r.id : r \in Rules} : RemoveStored(u, id) \/ RemoveInMemory(u, id)
          \/ Reload(u) \/ List(u) \/ Install(u)
    \/ \E c \in Checkers : Read(c) \/ \E m \in Mails : BeforeSend(c, m)

Spec == Init /\ [][Next]_vars

-----------------------------------------------------------------------------

\* What a list of rules says of a message, stated without the loops.
Decide(mode, rules, m) ==
    LET as == {Addrs(m)[j] : j \in DOMAIN Addrs(m)}
    IN IF mode = "block"
       THEN IF \E r \in rules, a \in as : Match(r, a) THEN "reject" ELSE "accept"
       ELSE IF \A a \in as : (\E r \in rules : Covers(r, a)) => \E r \in rules : Match(r, a)
            THEN "accept" ELSE "reject"

\* A message is judged by one list of rules, the one in force when its check
\* began, and as that list says: rules added in place behind it, or a new array
\* installed, never show.  Only a removal in place may disturb a check.
OneList ==
    \A c \in Checkers :
        chk[c].pc = "end" /\ ~chk[c].disturbed =>
            chk[c].result = Decide(Mode, RulesOf(chk[c].seen), chk[c].msg)

\* ("Thread-safe: AddRule, RemoveRule and Reload may be called concurrently with
\* ongoing message deliveries.") A message that a rule blocks is rejected if the
\* rule was in force during the whole check, whatever else is added or removed.
StillBlocked ==
    \A c \in Checkers :
        Mode = "block" /\ chk[c].pc = "end" /\ chk[c].result = "accept" =>
            Decide(Mode, chk[c].kept, chk[c].msg) = "accept"

\* ("Reload re-fetches rules from the store and recompiles. Safe to call
\* concurrently.") With no update under way the rules in force are those of the
\* store that compile.
StoreInForce ==
    Backing = "store" /\ (\A u \in Updaters : upd[u].pc = "idle") =>
        RulesOf(InForce) = {r \in store : r.valid}
-----------------------------------------------------------------------------
(* Why: the part of an array that a check reads is written only by a removal *)
(* in place, and with one updater the list it installs is the store as it is. *)

Held == Rules \cup Initial \cup {Empty}

\* The slice in force lies within its array.
SlicesOK(arrs, comp) ==
    /\ arrs \in Seq(Seq(Held)) /\ DOMAIN comp = {"arr", "len"}
    /\ comp.arr \in DOMAIN arrs /\ comp.len \in 0 .. Len(arrs[comp.arr])

\* What the loops have found of the addresses and rules before these.
FoundSoFar(mode, rules, as, a, r, applicable) ==
    IF mode = "block"
    THEN \A i \in DOMAIN rules, j \in DOMAIN as : j < a \/ (j = a /\ i < r) => ~Match(rules[i], as[j])
    ELSE /\ \A j \in DOMAIN as :
               j < a /\ (\E i \in DOMAIN rules : Covers(rules[i], as[j])) => \E i \in DOMAIN rules : Match(rules[i], as[j])
         /\ \A i \in DOMAIN rules : i < r => ~Match(rules[i], as[a])
         /\ applicable <=> \E i \in DOMAIN rules : i < r /\ Covers(rules[i], as[a])

\* A check that no removal disturbed finds in its slice the rules it began with,
\* and has found of them what they say.
Undisturbed(mode, k, arrs, comp) ==
    /\ k.msg \in Mails
    /\ k.slice.arr \in DOMAIN arrs /\ k.slice.len \in 1 .. Len(arrs[k.slice.arr])
    /\ k.slice.arr = comp.arr => k.slice.len <= comp.len
    /\ k.seen = [i \in 1 .. k.slice.len |-> arrs[k.slice.arr][i]]
    /\ k.a \in DOMAIN Addrs(k.msg) /\ k.r \in 1 .. k.slice.len
    /\ FoundSoFar(mode, k.seen, Addrs(k.msg), k.a, k.r, k.applicable)

CheckOK(mode, k, arrs, comp) ==
    /\ DOMAIN k = DOMAIN NoCheck
    /\ k.pc = "read" /\ ~k.disturbed => Undisturbed(mode, k, arrs, comp)
    /\ k.pc = "end" /\ ~k.disturbed => k.result = Decide(mode, RulesOf(k.seen), k.msg)

FilterInv ==
    /\ store \subseteq Rules \cup Initial
    /\ upd \in [Updaters -> [pc : {"idle", "list", "install"}, rules : SUBSET (Rules \cup Initial)]]
    /\ SlicesOK(arrays, compiled)
    /\ DOMAIN chk = Checkers /\ \A c \in Checkers : CheckOK(Mode, chk[c], arrays, compiled)
    /\ Backing = "store" /\ (\A u, v \in Updaters : u = v) =>
          /\ StoreInForce
          /\ \A u \in Updaters : upd[u].pc = "install" => upd[u].rules = store
=============================================================================
