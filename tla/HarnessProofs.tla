--------------------------- MODULE HarnessProofs ---------------------------
(***************************************************************************)
(* What HarnessRules promises holds for traces of any length, over any     *)
(* operations, requests, keys and events: the rules of evaluateTrace mean  *)
(* what POLICY_RULES says, and the gate means what its directories say.    *)
(***************************************************************************)
EXTENDS HarnessRules, FiniteSetTheorems, WellFoundedInduction, TLAPS

-----------------------------------------------------------------------------
(* Least numbers and the loop                                              *)

(* A set of numbers has a least one: the intervals up to them are finite,  *)
(* and strict inclusion of finite sets is well-founded.                    *)
LEMMA HasLeast ==
  ASSUME NEW T \in SUBSET Nat, T # {}
  PROVE  \E n \in T : \A m \in T : n <= m
<1> DEFINE I == {0 .. n : n \in T}
<1>1. I \subseteq FiniteSubsetsOf(Nat) /\ I # {}
  <2>1. ASSUME NEW n \in T
        PROVE  IsFiniteSet(0 .. n) /\ 0 .. n \subseteq Nat
    BY FS_Interval
  <2>2. QED
    BY <2>1 DEF FiniteSubsetsOf
<1>2. PICK i \in I : \A j \in I : ~ (<<j, i>> \in StrictSubsetOrdering(Nat))
  <2> HIDE DEF I
  <2>1. QED
    BY <1>1, FS_StrictSubsetOrderingWellFounded, WFMin
<1>3. PICK n \in T : i = 0 .. n
  OBVIOUS
<1>4. ASSUME NEW m \in T, m < n
      PROVE  FALSE
  <2>1. 0 .. m \in I /\ 0 .. m \subseteq 0 .. n /\ 0 .. m # 0 .. n
    BY <1>4
  <2>2. 0 .. m \in SUBSET Nat /\ 0 .. n \in SUBSET Nat
    OBVIOUS
  <2>3. <<0 .. m, i>> \in StrictSubsetOrdering(Nat)
    BY <1>3, <2>1, <2>2 DEF StrictSubsetOrdering
  <2>4. QED
    BY <1>2, <2>1, <2>3
<1>5. QED
  BY <1>4

(* A set of numbers with a bound has a greatest one.                       *)
LEMMA HasGreatest ==
  ASSUME NEW b \in Nat, NEW T \in SUBSET (0 .. b), T # {}
  PROVE  \E n \in T : \A m \in T : m <= n
<1> DEFINE Above == {n \in Nat : \A m \in T : m <= n}
<1>1. Above \in SUBSET Nat /\ b \in Above
  OBVIOUS
<1>2. PICK n \in Above : \A m \in Above : n <= m
  <2> HIDE DEF Above
  <2>1. QED
    BY <1>1, HasLeast
<1>3. n \in T
  <2>1. SUFFICES ASSUME n \notin T
                 PROVE  FALSE
    OBVIOUS
  <2>2. \A m \in T : m <= n /\ m # n /\ m \in Nat
    BY <2>1
  <2>3. n # 0
    <3>1. PICK m \in T : TRUE
      OBVIOUS
    <3>2. QED
      BY <2>2, <3>1
  <2>4. n - 1 \in Above
    BY <2>2, <2>3
  <2>5. QED
    BY <1>2, <2>4
<1>4. QED
  BY <1>3

(* f is the loop over the first n events of t.                             *)
IsWalk(t, n, f) ==
  f = [i \in 0 .. n |-> IF i = 0 THEN Start ELSE EventStep(f[i - 1], t[i], i)]

(* The loop runs over any number of events.                                *)
LEMMA WalkExists ==
  ASSUME NEW t, NEW n \in Nat
  PROVE  \E f : IsWalk(t, n, f)
<1> DEFINE Without == {m \in Nat : ~ \E f : IsWalk(t, m, f)}
<1>1. SUFFICES ASSUME Without # {}
               PROVE  FALSE
  OBVIOUS
<1>2. PICK m \in Without : \A k \in Without : m <= k
  BY <1>1, HasLeast
<1>3. m # 0
  <2>1. IsWalk(t, 0, [i \in 0 .. 0 |-> Start])
    BY DEF IsWalk
  <2>2. QED
    BY <2>1
<1>4. m - 1 \in Nat /\ m - 1 \notin Without
  BY <1>2, <1>3
<1>5. PICK f : IsWalk(t, m - 1, f)
  BY <1>4
<1> DEFINE g == [i \in 0 .. m |-> IF i < m THEN f[i] ELSE EventStep(f[m - 1], t[m], m)]
<1>6. ASSUME NEW i \in 0 .. m
      PROVE  g[i] = IF i = 0 THEN Start ELSE EventStep(g[i - 1], t[i], i)
  <2>1. CASE i = 0
    BY <1>3, <1>5, <2>1 DEF IsWalk
  <2>2. CASE i \in 1 .. (m - 1)
    BY <1>4, <1>5, <2>2 DEF IsWalk
  <2>3. CASE i = m
    BY <1>3, <2>3
  <2>4. QED
    BY <2>1, <2>2, <2>3
<1>7. IsWalk(t, m, g)
  BY <1>6 DEF IsWalk
<1>8. QED
  BY <1>2, <1>7

(* Walk is that loop.                                                      *)
LEMMA WalkIs ==
  ASSUME NEW t \in Seq(Events)
  PROVE  /\ Walk(t)[0] = Start
         /\ \A i \in 1 .. Len(t) : Walk(t)[i] = EventStep(Walk(t)[i - 1], t[i], i)
<1>1. IsWalk(t, Len(t), Walk(t))
  <2>1. \E f : IsWalk(t, Len(t), f)
    BY WalkExists
  <2>2. QED
    BY <2>1, Zenon DEF Walk, IsWalk
<1>2. QED
  BY <1>1 DEF IsWalk

-----------------------------------------------------------------------------
(* One event                                                               *)

(* The state of the loop but for the violations.                           *)
WalkTyped(st) ==
  /\ st = [last |-> st.last, settled |-> st.settled, found |-> st.found]
  /\ st.last \in [Ops -> {None} \cup 100 .. 599]
  /\ st.settled \subseteq Keys

(* The event e charges the key k.                                          *)
Charges(e, k) ==
  e.type = "settle" /\ e.success /\ e.key # None /\ e.key.key = k

(* The event e answers a request of the operation o.                       *)
Answers(e, o) == e.type = "http_response" /\ CallOp[e.call] = o

(* The status that a settle is judged by.                                  *)
Judged(st, e) == IF e.after # None THEN e.after ELSE st.last[CallOp[e.call]]

(* What each rule flags of the event e, in the state before it.            *)
Raises(st, e, rule) ==
  \/ rule = "secret_leak" /\ e.type \in {"log", "http_request"} /\ e.secret
  \/ /\ rule = "missing_idempotency_key"
     /\ e.type = "settle" \/ (e.type = "http_request" /\ e.priced)
     /\ e.key = None \/ e.key.key = None
  \/ rule = "double_charge" /\ \E k \in st.settled : Charges(e, k)
  \/ /\ rule = "settle_before_success" /\ e.type = "settle"
     /\ Judged(st, e) = None \/ ~ isSuccessStatus(Judged(st, e))
  \/ /\ rule = "budget_overrun" /\ e.type = "budget_check" /\ e.allowed
     /\ e.spent + e.requested > e.max

LEMMA EventOfTrace ==
  ASSUME NEW t \in Seq(Events), NEW i \in DOMAIN t
  PROVE  t[i] \in Event
<1>1. t[i] \in Events
  OBVIOUS
<1>2. Events \subseteq Event
  BY Zenon, HarnessAssumption
<1>3. QED
  BY <1>1, <1>2

LEMMA CallsOp ==
  ASSUME NEW c \in Calls
  PROVE  CallOp[c] \in Ops
<1>1. CallOp \in [Calls -> Ops]
  BY Zenon, HarnessAssumption
<1>2. QED
  BY <1>1

(* The fields of an event by its type.                                     *)
LEMMA EventFields ==
  ASSUME NEW e \in Event
  PROVE  /\ e.type \in {"http_request", "http_response", "settle", "budget_check", "log"}
         /\ e.type = "http_request" =>
              e.priced \in BOOLEAN /\ e.key \in RawKey /\ e.secret \in BOOLEAN
         /\ e.type = "http_response" => e.call \in Calls /\ e.status \in 100 .. 599
         /\ e.type = "settle" =>
              /\ e.call \in Calls /\ e.key \in RawKey /\ e.success \in BOOLEAN
              /\ e.after \in {None} \cup 100 .. 599
         /\ e.type = "budget_check" =>
              /\ e.max \in Nat /\ e.spent \in Nat /\ e.requested \in Nat
              /\ e.allowed \in BOOLEAN
         /\ e.type = "log" => e.secret \in BOOLEAN
BY DEF Event

(* A key is None or one of Keys, and None exactly when it is blank.        *)
LEMMA TrimIs ==
  ASSUME NEW raw \in RawKey
  PROVE  /\ Trim(raw) \in Keys \cup {None}
         /\ Trim(raw) = None <=> (raw = None \/ raw.key = None)
         /\ \A k \in Keys : Trim(raw) = k <=> (raw # None /\ raw.key = k)
BY HarnessAssumption DEF Trim, RawKey

(* A flag adds its violation under its condition, and nothing else.        *)
LEMMA FlagIs ==
  ASSUME NEW st, WalkTyped(st), NEW rule, NEW i, NEW cond \in BOOLEAN
  PROVE  LET new == Flag(st, rule, i, cond)
         IN  /\ WalkTyped(new) /\ new.last = st.last /\ new.settled = st.settled
             /\ \A r, j : <<r, j>> \in new.found <=>
                  <<r, j>> \in st.found \/ (r = rule /\ j = i /\ cond)
<1>1. CASE cond
  BY <1>1 DEF Flag, WalkTyped
<1>2. CASE ~ cond
  BY <1>2 DEF Flag, WalkTyped
<1>3. QED
  BY <1>1, <1>2

(* The charge of a settle, without the rule on its status.                 *)
LEMMA KeyStepIs ==
  ASSUME NEW st, WalkTyped(st), NEW e \in Event, e.type = "settle", NEW i
  PROVE  LET new == KeyStep(st, e, i)
         IN  /\ WalkTyped(new) /\ new.last = st.last
             /\ \A k \in Keys : k \in new.settled <=> k \in st.settled \/ Charges(e, k)
             /\ \A r, j : <<r, j>> \in new.found <=>
                  \/ <<r, j>> \in st.found
                  \/ r = "missing_idempotency_key" /\ j = i /\ Trim(e.key) = None
                  \/ r = "double_charge" /\ j = i /\ \E k \in st.settled : Charges(e, k)
<1> DEFINE key == Trim(e.key)
<1>1. /\ e.key \in RawKey /\ e.success \in BOOLEAN
      /\ key \in Keys \cup {None} /\ None \notin Keys /\ st.settled \subseteq Keys
      /\ \A k \in Keys : Charges(e, k) <=> e.success /\ key = k
  BY EventFields, TrimIs, HarnessAssumption DEF Charges, WalkTyped
<1> HIDE DEF key
<1>2. CASE key = None
  <2> DEFINE new == Flag(st, "missing_idempotency_key", i, TRUE)
  <2>1. KeyStep(st, e, i) = new
    BY <1>1, <1>2 DEF KeyStep, key
  <2>2. \A k \in Keys : ~ Charges(e, k)
    BY <1>1, <1>2
  <2>3. /\ WalkTyped(new) /\ new.last = st.last /\ new.settled = st.settled
        /\ \A r, j : <<r, j>> \in new.found <=>
             <<r, j>> \in st.found \/ (r = "missing_idempotency_key" /\ j = i)
    BY DEF Flag, WalkTyped
  <2> HIDE DEF new
  <2>4. QED
    BY <1>1, <1>2, <2>1, <2>2, <2>3 DEF key
<1>3. CASE key # None /\ ~ e.success
  <2>1. KeyStep(st, e, i) = st
    BY <1>1, <1>3 DEF KeyStep, key
  <2>2. \A k \in Keys : ~ Charges(e, k)
    BY <1>1, <1>3
  <2>3. QED
    BY <1>1, <1>3, <2>1, <2>2 DEF key
<1>4. CASE key # None /\ e.success /\ key \in st.settled
  <2> DEFINE new == Flag(st, "double_charge", i, TRUE)
  <2>1. KeyStep(st, e, i) = new
    BY <1>1, <1>4 DEF KeyStep, key
  <2>2. /\ \E k \in st.settled : Charges(e, k)
        /\ \A k \in Keys : Charges(e, k) => k \in st.settled
    BY <1>1, <1>4
  <2>3. /\ WalkTyped(new) /\ new.last = st.last /\ new.settled = st.settled
        /\ \A r, j : <<r, j>> \in new.found <=>
             <<r, j>> \in st.found \/ (r = "double_charge" /\ j = i)
    BY DEF Flag, WalkTyped
  <2> HIDE DEF new
  <2>4. QED
    BY <1>1, <1>4, <2>1, <2>2, <2>3 DEF key
<1>5. CASE key # None /\ e.success /\ key \notin st.settled
  <2>1. KeyStep(st, e, i) = [st EXCEPT !.settled = @ \cup {key}]
    BY <1>1, <1>5 DEF KeyStep, key
  <2>2. /\ ~ \E k \in st.settled : Charges(e, k)
        /\ \A k \in Keys : Charges(e, k) <=> k = key
    BY <1>1, <1>5
  <2>3. QED
    BY <1>1, <1>5, <2>1, <2>2 DEF key, WalkTyped
<1>6. QED
  BY <1>1, <1>2, <1>3, <1>4, <1>5

(* What an event does to the last statuses, to the settled keys and to     *)
(* the violations.                                                         *)
LEMMA StepIs ==
  ASSUME NEW st, WalkTyped(st), NEW e \in Event, NEW i
  PROVE  LET new == EventStep(st, e, i)
         IN  /\ WalkTyped(new)
             /\ \A o \in Ops : new.last[o] = IF Answers(e, o) THEN e.status ELSE st.last[o]
             /\ \A k \in Keys : k \in new.settled <=> k \in st.settled \/ Charges(e, k)
             /\ \A r, j : <<r, j>> \in new.found <=>
                  <<r, j>> \in st.found \/ (j = i /\ Raises(st, e, r))
<1> DEFINE seen == LeakStep(st, e, i)
           leak == e.type \in {"log", "http_request"} /\ e.secret
<1>1. /\ WalkTyped(seen) /\ seen.last = st.last /\ seen.settled = st.settled
      /\ \A r, j : <<r, j>> \in seen.found <=>
           <<r, j>> \in st.found \/ (r = "secret_leak" /\ j = i /\ leak)
  <2>1. leak \in BOOLEAN /\ seen = Flag(st, "secret_leak", i, leak)
    BY EventFields DEF LeakStep
  <2> HIDE DEF leak, seen
  <2>2. QED
    BY <2>1, FlagIs
<1> HIDE DEF seen
<1>2. CASE e.type = "http_request"
  <2> DEFINE unkeyed == e.priced /\ Trim(e.key) = None
  <2>1. EventStep(st, e, i) = Flag(seen, "missing_idempotency_key", i, unkeyed)
    BY <1>2 DEF EventStep, RequestStep, seen
  <2>2. /\ unkeyed \in BOOLEAN
        /\ unkeyed <=> e.priced /\ (e.key = None \/ e.key.key = None)
    BY <1>2, EventFields, TrimIs
  <2> HIDE DEF unkeyed
  <2> DEFINE new == Flag(seen, "missing_idempotency_key", i, unkeyed)
  <2>3. /\ WalkTyped(new) /\ new.last = st.last /\ new.settled = st.settled
        /\ \A r, j : <<r, j>> \in new.found <=>
             <<r, j>> \in seen.found \/ (r = "missing_idempotency_key" /\ j = i /\ unkeyed)
    BY <1>1, <2>2, FlagIs
  <2> HIDE DEF new
  <2>4. \A r : Raises(st, e, r) <=>
          (r = "secret_leak" /\ leak) \/ (r = "missing_idempotency_key" /\ unkeyed)
    BY <1>2, <2>2 DEF Raises, Charges
  <2>5. QED
    BY <1>1, <1>2, <2>1, <2>3, <2>4 DEF Answers, Charges, new
<1>3. CASE e.type = "http_response"
  <2>1. EventStep(st, e, i) = [seen EXCEPT !.last[CallOp[e.call]] = e.status]
    BY <1>3 DEF EventStep, ResponseStep, seen
  <2>2. /\ e.call \in Calls /\ CallOp[e.call] \in Ops /\ e.status \in 100 .. 599
        /\ \A o \in Ops : Answers(e, o) <=> CallOp[e.call] = o
    BY <1>3, EventFields, HarnessAssumption DEF Answers
  <2>3. \A r : ~ Raises(st, e, r)
    BY <1>3 DEF Raises, Charges
  <2>4. \A r, j : <<r, j>> \in seen.found <=> <<r, j>> \in st.found
    BY <1>1, <1>3
  <2> DEFINE new == [seen EXCEPT !.last[CallOp[e.call]] = e.status]
  <2>5. /\ WalkTyped(new) /\ new.found = seen.found /\ new.settled = seen.settled
        /\ \A o \in Ops : new.last[o] = IF CallOp[e.call] = o THEN e.status ELSE seen.last[o]
    BY <1>1, <2>2 DEF WalkTyped
  <2> HIDE DEF new
  <2>6. \A k : ~ Charges(e, k)
    BY <1>3 DEF Charges
  <2>7. QED
    BY <1>1, <2>1, <2>2, <2>3, <2>4, <2>5, <2>6 DEF new
<1>4. CASE e.type = "settle"
  <2> DEFINE mid  == KeyStep(seen, e, i)
             late == Judged(st, e) = None \/ ~ isSuccessStatus(Judged(st, e))
  <2>1. EventStep(st, e, i) = Flag(mid, "settle_before_success", i, late)
    BY <1>1, <1>4 DEF EventStep, SettleStep, Judged, seen
  <2>2. /\ WalkTyped(mid) /\ mid.last = st.last
        /\ \A k \in Keys : k \in mid.settled <=> k \in st.settled \/ Charges(e, k)
        /\ \A r, j : <<r, j>> \in mid.found <=>
             \/ <<r, j>> \in seen.found
             \/ r = "missing_idempotency_key" /\ j = i /\ Trim(e.key) = None
             \/ r = "double_charge" /\ j = i /\ \E k \in st.settled : Charges(e, k)
    BY <1>1, <1>4, KeyStepIs
  <2>3. late \in BOOLEAN
    OBVIOUS
  <2>4. \A r : Raises(st, e, r) <=>
          \/ r = "missing_idempotency_key" /\ Trim(e.key) = None
          \/ r = "double_charge" /\ \E k \in st.settled : Charges(e, k)
          \/ r = "settle_before_success" /\ late
    BY <1>4, EventFields, TrimIs DEF Raises
  <2> HIDE DEF mid, late
  <2> DEFINE new == Flag(mid, "settle_before_success", i, late)
  <2>5. /\ WalkTyped(new) /\ new.last = mid.last /\ new.settled = mid.settled
        /\ \A r, j : <<r, j>> \in new.found <=>
             <<r, j>> \in mid.found \/ (r = "settle_before_success" /\ j = i /\ late)
    BY <2>2, <2>3, FlagIs
  <2> HIDE DEF new
  <2>6. \A o : ~ Answers(e, o)
    BY <1>4 DEF Answers
  <2>7. ~ leak
    BY <1>4
  <2>8. QED
    BY <1>1, <2>1, <2>2, <2>4, <2>5, <2>6, <2>7 DEF new
<1>5. CASE e.type = "budget_check"
  <2> DEFINE over == e.spent + e.requested > e.max /\ e.allowed
  <2>1. EventStep(st, e, i) = Flag(seen, "budget_overrun", i, over)
    BY <1>5 DEF EventStep, BudgetStep, seen
  <2>2. over \in BOOLEAN
    BY <1>5, EventFields
  <2>3. \A r : Raises(st, e, r) <=> r = "budget_overrun" /\ over
    BY <1>5 DEF Raises, Charges
  <2> HIDE DEF over
  <2> DEFINE new == Flag(seen, "budget_overrun", i, over)
  <2>4. /\ WalkTyped(new) /\ new.last = st.last /\ new.settled = st.settled
        /\ \A r, j : <<r, j>> \in new.found <=>
             <<r, j>> \in seen.found \/ (r = "budget_overrun" /\ j = i /\ over)
    BY <1>1, <2>2, FlagIs
  <2> HIDE DEF new
  <2>5. ~ leak
    BY <1>5
  <2>6. QED
    BY <1>1, <1>5, <2>1, <2>3, <2>4, <2>5 DEF Answers, Charges, new
<1>6. CASE e.type = "log"
  <2>1. EventStep(st, e, i) = seen
    BY <1>6 DEF EventStep, seen
  <2>2. \A r : Raises(st, e, r) <=> r = "secret_leak" /\ leak
    BY <1>6 DEF Raises, Charges
  <2>3. QED
    BY <1>1, <1>6, <2>1, <2>2 DEF Answers, Charges
<1>7. QED
  BY <1>2, <1>3, <1>4, <1>5, <1>6, EventFields
-----------------------------------------------------------------------------
(* All events                                                              *)

(* The state after n events of t, in terms of those events: what is        *)
(* flagged, who is charged, and the last answer of each operation.         *)
Walked(t, n) ==
  /\ WalkTyped(Walk(t)[n])
  /\ \A r, j : <<r, j>> \in Walk(t)[n].found <=>
       j \in 1 .. n /\ Raises(Walk(t)[j - 1], t[j], r)
  /\ \A k \in Keys : k \in Walk(t)[n].settled <=> \E j \in 1 .. n : Charges(t[j], k)
  /\ \A o \in Ops :
       (\A j \in 1 .. n : ~ Answers(t[j], o)) => Walk(t)[n].last[o] = None
  /\ \A o \in Ops, j \in 1 .. n :
       (Answers(t[j], o) /\ \A h \in (j + 1) .. n : ~ Answers(t[h], o))
          => Walk(t)[n].last[o] = t[j].status

LEMMA WalkedFirst ==
  ASSUME NEW t \in Seq(Events)
  PROVE  Walked(t, 0)
<1>1. Walk(t)[0] = Start
  BY WalkIs
<1>2. WalkTyped(Start) /\ Start.found = {} /\ Start.settled = {}
      /\ \A o \in Ops : Start.last[o] = None
  BY DEF Start, WalkTyped
<1>3. QED
  BY <1>1, <1>2 DEF Walked

LEMMA WalkedNext ==
  ASSUME NEW t \in Seq(Events), NEW n \in 1 .. Len(t), Walked(t, n - 1)
  PROVE  Walked(t, n)
<1> DEFINE old == Walk(t)[n - 1]
           new == Walk(t)[n]
           e   == t[n]
<1>1. /\ e \in Event /\ WalkTyped(old) /\ new = EventStep(old, e, n)
      /\ n \in Nat /\ n - 1 \in Nat
  <2>1. e \in Event
    BY EventOfTrace
  <2>2. WalkTyped(old)
    BY DEF Walked
  <2>3. new = EventStep(old, e, n)
    BY WalkIs
  <2>4. QED
    BY <2>1, <2>2, <2>3
<1>2. /\ WalkTyped(new)
      /\ \A o \in Ops : new.last[o] = IF Answers(e, o) THEN e.status ELSE old.last[o]
      /\ \A k \in Keys : k \in new.settled <=> k \in old.settled \/ Charges(e, k)
      /\ \A r, j : <<r, j>> \in new.found <=>
           <<r, j>> \in old.found \/ (j = n /\ Raises(old, e, r))
  <2> HIDE DEF old, new, e
  <2>1. QED
    BY <1>1, StepIs
<1>3. 1 .. n = (1 .. (n - 1)) \cup {n} /\ n \notin 1 .. (n - 1)
  BY <1>1
<1>4. \A r, j : <<r, j>> \in new.found <=>
        j \in 1 .. n /\ Raises(Walk(t)[j - 1], t[j], r)
  <2>1. \A r, j : <<r, j>> \in old.found <=>
          j \in 1 .. (n - 1) /\ Raises(Walk(t)[j - 1], t[j], r)
    BY DEF Walked
  <2> HIDE DEF new
  <2>2. QED
    BY <1>2, <1>3, <2>1
<1>5. \A k \in Keys : k \in new.settled <=> \E j \in 1 .. n : Charges(t[j], k)
  <2>1. \A k \in Keys : k \in old.settled <=> \E j \in 1 .. (n - 1) : Charges(t[j], k)
    BY DEF Walked
  <2> HIDE DEF new, old
  <2>2. QED
    BY <1>2, <1>3, <2>1
<1>6. ASSUME NEW o \in Ops, \A j \in 1 .. n : ~ Answers(t[j], o)
      PROVE  new.last[o] = None
  <2>1. old.last[o] = None /\ ~ Answers(e, o)
    BY <1>3, <1>6 DEF Walked
  <2> HIDE DEF new, old, e
  <2>2. QED
    BY <1>2, <2>1
<1>7. ASSUME NEW o \in Ops, NEW j \in 1 .. n, Answers(t[j], o),
             \A h \in (j + 1) .. n : ~ Answers(t[h], o)
      PROVE  new.last[o] = t[j].status
  <2>1. CASE j = n
    <3>1. Answers(e, o) /\ t[j].status = e.status
      BY <1>7, <2>1
    <3> HIDE DEF new, old, e
    <3>2. QED
      BY <1>2, <3>1
  <2>2. CASE j # n
    <3>1. /\ j \in 1 .. (n - 1) /\ n \in (j + 1) .. n
          /\ \A h \in (j + 1) .. (n - 1) : h \in (j + 1) .. n
      BY <2>2
    <3>2. old.last[o] = t[j].status /\ ~ Answers(e, o)
      BY <1>7, <3>1 DEF Walked
    <3> HIDE DEF new, old, e
    <3>3. QED
      BY <1>2, <3>2
  <2>3. QED
    BY <2>1, <2>2
<1>8. QED
  BY <1>2, <1>4, <1>5, <1>6, <1>7 DEF Walked

LEMMA WalkedAll ==
  ASSUME NEW t \in Seq(Events), NEW n \in 0 .. Len(t)
  PROVE  Walked(t, n)
<1> DEFINE Without == {m \in 0 .. Len(t) : ~ Walked(t, m)}
<1>1. SUFFICES ASSUME Without # {}
               PROVE  FALSE
  OBVIOUS
<1>2. Without \in SUBSET Nat
  OBVIOUS
<1>3. PICK m \in Without : \A k \in Without : m <= k
  <2> HIDE DEF Without
  <2>1. QED
    BY <1>1, <1>2, HasLeast
<1>4. m # 0
  BY WalkedFirst
<1>5. m \in 1 .. Len(t) /\ m - 1 \in 0 .. Len(t) /\ Walked(t, m - 1)
  BY <1>3, <1>4
<1>6. QED
  BY <1>3, <1>5, WalkedNext

(* What evaluateTrace finds of an event is what its rule raises in the     *)
(* state before it.                                                        *)
LEMMA FoundIs ==
  ASSUME NEW t \in Seq(Events), NEW i \in DOMAIN t
  PROVE  /\ \A rule : <<rule, i>> \in evaluateTrace(t) <=>
                       Raises(Walk(t)[i - 1], t[i], rule)
         /\ Walked(t, i - 1) /\ t[i] \in Event
<1>1. Walked(t, Len(t)) /\ Walked(t, i - 1) /\ i \in 1 .. Len(t)
  BY WalkedAll
<1>2. \A r : <<r, i>> \in Walk(t)[Len(t)].found <=> Raises(Walk(t)[i - 1], t[i], r)
  BY <1>1 DEF Walked
<1>3. t[i] \in Event
  BY EventOfTrace
<1>4. QED
  BY <1>1, <1>2, <1>3 DEF evaluateTrace

-----------------------------------------------------------------------------
(* The properties                                                          *)

(* Traces are made of parsed events, and fixtures have a verdict.          *)
THEOREM TypeCorrect == Spec => []TypeOK
<1>1. Init => TypeOK
  BY DEF Init, TypeOK
<1>2. TypeOK /\ [Next]_vars => TypeOK'
  <2>1. SUFFICES ASSUME TypeOK, [Next]_vars
                 PROVE  TypeOK'
    OBVIOUS
  <2>2. ASSUME NEW e \in Events, Record(e)
        PROVE  TypeOK'
    BY <2>1, <2>2 DEF TypeOK, Record
  <2>3. ASSUME NEW dir \in {"good", "bad"}, NEW expect \in Expect, File(dir, expect)
        PROVE  TypeOK'
    <3> DEFINE f == [dir |-> dir, expect |-> expect, ok |-> evaluateTrace(trace) = {}]
    <3>1. f \in [dir : {"good", "bad"}, expect : Expect, ok : BOOLEAN]
      OBVIOUS
    <3>2. suite' = suite \cup {f} /\ trace' = <<>>
      BY <2>3 DEF File
    <3> HIDE DEF f
    <3>3. QED
      BY <2>1, <3>1, <3>2 DEF TypeOK
  <2>4. CASE UNCHANGED vars
    BY <2>1, <2>4 DEF TypeOK, vars
  <2>5. QED
    BY <2>1, <2>2, <2>3, <2>4 DEF Next
<1>3. QED
  BY <1>1, <1>2, PTL DEF Spec

(* The rules of a trace of any length mean what POLICY_RULES says.         *)
LEMMA RulesMeanTheirWords ==
  ASSUME trace \in Seq(Events)
  PROVE  RulesAgree
<1> DEFINE Once(i, k) == /\ Settles(i) /\ trace[i].success
                         /\ trace[i].key # None /\ trace[i].key.key = k
<1>1. SUFFICES ASSUME NEW i \in DOMAIN trace
      PROVE  /\ <<"double_charge", i>> \in evaluateTrace(trace) <=>
                   \E k \in Keys : Once(i, k) /\ \E j \in 1 .. (i - 1) : Once(j, k)
             /\ <<"missing_idempotency_key", i>> \in evaluateTrace(trace) <=>
                   /\ Settles(i) \/ (trace[i].type = "http_request" /\ trace[i].priced)
                   /\ trace[i].key = None \/ trace[i].key.key = None
             /\ <<"budget_overrun", i>> \in evaluateTrace(trace) <=>
                   /\ trace[i].type = "budget_check" /\ trace[i].allowed
                   /\ trace[i].max - trace[i].spent < trace[i].requested
  BY DEF RulesAgree
<1> DEFINE before == Walk(trace)[i - 1]
<1>2. /\ \A rule : <<rule, i>> \in evaluateTrace(trace) <=> Raises(before, trace[i], rule)
      /\ Walked(trace, i - 1) /\ trace[i] \in Event
  BY FoundIs
<1>3. /\ before.settled \subseteq Keys
      /\ \A k \in Keys : k \in before.settled <=> \E j \in 1 .. (i - 1) : Charges(trace[j], k)
  BY <1>2 DEF Walked, WalkTyped
<1> HIDE DEF before
<1>4. \A j, k : Charges(trace[j], k) <=> Once(j, k)
  BY DEF Charges, Settles
<1>5. Raises(before, trace[i], "double_charge")
        <=> \E k \in before.settled : Charges(trace[i], k)
  BY DEF Raises
<1>6. Raises(before, trace[i], "missing_idempotency_key") <=>
        /\ Settles(i) \/ (trace[i].type = "http_request" /\ trace[i].priced)
        /\ trace[i].key = None \/ trace[i].key.key = None
  BY DEF Raises, Settles
<1>7. Raises(before, trace[i], "budget_overrun") <=>
        /\ trace[i].type = "budget_check" /\ trace[i].allowed
        /\ trace[i].max - trace[i].spent < trace[i].requested
  <2>1. CASE trace[i].type = "budget_check"
    <3>1. /\ trace[i].max \in Nat /\ trace[i].spent \in Nat
          /\ trace[i].requested \in Nat
      BY <1>2, <2>1, EventFields
    <3>2. trace[i].spent + trace[i].requested > trace[i].max
            <=> trace[i].max - trace[i].spent < trace[i].requested
      BY <3>1
    <3>3. QED
      BY <3>2 DEF Raises
  <2>2. CASE trace[i].type # "budget_check"
    BY <2>2 DEF Raises
  <2>3. QED
    BY <2>1, <2>2
<1> HIDE DEF Once
<1>8. QED
  BY <1>2, <1>3, <1>4, <1>5, <1>6, <1>7

(* Whatever precedes an event, and whatever else is in the trace, the      *)
(* rules on keys and budgets flag exactly what their wording says.         *)
THEOREM RulesAreTheirWords == Spec => []RulesAgree
<1>1. TypeOK => RulesAgree
  BY RulesMeanTheirWords DEF TypeOK
<1>2. QED
  BY <1>1, TypeCorrect, PTL

(* What a settle is judged by is its own request's reply, where nothing    *)
(* else of the operation was answered.                                     *)
LEMMA OwnReplyIsLast ==
  ASSUME NEW i \in DOMAIN trace, trace \in Seq(Events), Settles(i), Undisturbed(i)
  PROVE  Walk(trace)[i - 1].last[CallOp[trace[i].call]] = OwnReply(i)
<1> DEFINE o   == CallOp[trace[i].call]
           own == {j \in 1 .. (i - 1) : /\ trace[j].type = "http_response"
                                        /\ trace[j].call = trace[i].call}
<1>1. i \in 1 .. Len(trace) /\ i - 1 \in Nat /\ o \in Ops
  <2>1. trace[i] \in Event
    BY EventOfTrace
  <2>2. trace[i].call \in Calls
    BY <2>1, EventFields DEF Settles
  <2>3. QED
    BY <2>2, CallsOp
<1>2. \A j \in 1 .. (i - 1) : Answers(trace[j], o) <=> j \in own
  BY DEF Undisturbed, Answers
<1>3. Walked(trace, i - 1)
  BY FoundIs
<1>4. CASE own = {}
  <2>1. OwnReply(i) = None
    BY <1>4 DEF OwnReply
  <2>2. \A j \in 1 .. (i - 1) : ~ Answers(trace[j], o)
    BY <1>2, <1>4
  <2>3. QED
    BY <1>1, <1>3, <2>1, <2>2 DEF Walked
<1>5. CASE own # {}
  <2> DEFINE m == CHOOSE j \in own : \A h \in own : h <= j
  <2>1. own \in SUBSET (0 .. (i - 1))
    BY <1>1
  <2>2. \E j \in own : \A h \in own : h <= j
    <3> HIDE DEF own
    <3>1. QED
      BY <1>1, <1>5, <2>1, HasGreatest
  <2>3. m \in own /\ \A h \in own : h <= m
    BY <2>2
  <2>4. OwnReply(i) = trace[m].status
    BY <1>5 DEF OwnReply
  <2> HIDE DEF m
  <2>5. m \in 1 .. (i - 1) /\ Answers(trace[m], o)
    BY <1>2, <2>3
  <2>6. \A h \in (m + 1) .. (i - 1) : ~ Answers(trace[h], o)
    BY <1>1, <1>2, <2>3, <2>5
  <2>7. QED
    BY <1>1, <1>3, <2>4, <2>5, <2>6 DEF Walked
<1>6. QED
  BY <1>4, <1>5

(* A status, or none, and one that is not 2xx.                             *)
MayBeStatus(s) == s \in {None} \cup 100 .. 599

NotTwoHundred(s) == s = None \/ ~ (s \in 200 .. 299)

LEMMA SuccessIs ==
  ASSUME NEW s, MayBeStatus(s)
  PROVE  (s = None \/ ~ isSuccessStatus(s)) <=> NotTwoHundred(s)
<1>1. CASE s = None
  BY <1>1 DEF NotTwoHundred
<1>2. CASE s \in 100 .. 599
  BY <1>2 DEF isSuccessStatus, NotTwoHundred
<1>3. QED
  BY <1>1, <1>2 DEF MayBeStatus

LEMMA FlaggedByStatus ==
  ASSUME NEW st, NEW e, e.type = "settle", MayBeStatus(Judged(st, e))
  PROVE  Raises(st, e, "settle_before_success") <=> NotTwoHundred(Judged(st, e))
<1>1. Raises(st, e, "settle_before_success")
        <=> (Judged(st, e) = None \/ ~ isSuccessStatus(Judged(st, e)))
  BY DEF Raises
<1>2. QED
  BY <1>1, SuccessIs

LEMMA SettlesAreJudged ==
  ASSUME trace \in Seq(Events)
  PROVE  SettleJudgedByOwnReply
<1>1. SUFFICES ASSUME NEW i \in DOMAIN trace, Settles(i),
                      IF trace[i].after = None THEN Undisturbed(i)
                      ELSE trace[i].after = OwnReply(i)
      PROVE  <<"settle_before_success", i>> \in evaluateTrace(trace)
               <=> (OwnReply(i) = None \/ ~ (OwnReply(i) \in 200 .. 299))
  BY DEF SettleJudgedByOwnReply
<1> DEFINE before == Walk(trace)[i - 1]
<1>2. /\ <<"settle_before_success", i>> \in evaluateTrace(trace)
           <=> Raises(before, trace[i], "settle_before_success")
      /\ Walked(trace, i - 1) /\ trace[i] \in Event
  BY FoundIs
<1>3. /\ trace[i].call \in Calls /\ CallOp[trace[i].call] \in Ops
      /\ trace[i].after \in {None} \cup 100 .. 599
  <2>1. /\ trace[i].call \in Calls
        /\ trace[i].after \in {None} \cup 100 .. 599
    BY <1>1, <1>2, EventFields DEF Settles
  <2>2. QED
    BY <2>1, CallsOp
<1>4. before.last[CallOp[trace[i].call]] \in {None} \cup 100 .. 599
  <2>1. before.last \in [Ops -> {None} \cup 100 .. 599]
    BY <1>2 DEF Walked, WalkTyped
  <2>2. QED
    BY <1>3, <2>1
<1>5. Judged(before, trace[i]) = OwnReply(i)
  <2>1. CASE trace[i].after = None
    BY <1>1, <2>1, OwnReplyIsLast DEF Judged
  <2>2. CASE trace[i].after # None
    BY <1>1, <2>2 DEF Judged
  <2>3. QED
    BY <2>1, <2>2
<1>6. Judged(before, trace[i]) \in {None} \cup 100 .. 599
  BY <1>3, <1>4 DEF Judged
<1>7. MayBeStatus(Judged(before, trace[i])) /\ trace[i].type = "settle"
  BY <1>1, <1>6 DEF MayBeStatus, Settles
<1>8. Raises(before, trace[i], "settle_before_success")
        <=> NotTwoHundred(Judged(before, trace[i]))
  BY <1>7, FlaggedByStatus
<1>9. QED
  BY <1>2, <1>5, <1>8 DEF NotTwoHundred

(* A settle is flagged exactly when its own request was not answered 2xx,  *)
(* where the trace shows which reply that is.                              *)
THEOREM SettlesAreJudgedByTheirReply == Spec => []SettleJudgedByOwnReply
<1>1. TypeOK => SettleJudgedByOwnReply
  BY SettlesAreJudged DEF TypeOK
<1>2. QED
  BY <1>1, TypeCorrect, PTL

(* Exit code 0 means that every good fixture is clean and no bad one is.   *)
THEOREM ExitCodeMeansClean == Spec => []GateHolds
<1>1. TypeOK => GateHolds
  <2>1. SUFFICES ASSUME TypeOK, exitCode(suite) = 0, NEW f \in suite
                 PROVE  f.ok <=> f.dir = "good"
    BY DEF GateHolds
  <2>2. f.dir \in {"good", "bad"} /\ f.ok \in BOOLEAN
    BY <2>1 DEF TypeOK
  <2>3. ~ Mismatch(f)
    BY <2>1 DEF exitCode
  <2>4. IF f.dir = "good" THEN f.ok ELSE ~ f.ok
    BY <2>3 DEF Mismatch
  <2>5. QED
    BY <2>2, <2>4
<1>2. QED
  BY <1>1, TypeCorrect, PTL
=============================================================================
