---------------------------- MODULE HarnessRules ----------------------------
(***************************************************************************)
(* The trace gate of packages/harness-ci: evaluateTrace walks the events   *)
(* of a recorded agent trace once, carrying the last response status of    *)
(* every operation and the keys settled so far, and runFixtureSuite judges *)
(* a directory of good and one of bad traces.                              *)
(*                                                                         *)
(* A trace grows event by event, in any order, and may be filed as a       *)
(* fixture at any time.  A response and a settle know the request they     *)
(* belong to; the rules do not see that field.                             *)
(***************************************************************************)
EXTENDS Integers, Sequences, FiniteSets

CONSTANTS
  Ops,        \* operation ids
  Calls,      \* requests of the agent; CallOp[c] is the operation of c
  CallOp,
  Keys,       \* idempotency keys, trimmed
  Events,     \* the events that traces are made of
  MaxEvents,  \* bound: events of a trace, with the fixtures before it
  None        \* an optional field that is absent

(* A key as a trace holds it: absent, or with spaces around it or none;    *)
(* the empty one is None within its spaces.                                *)
RawKey == {None} \cup [key : Keys \cup {None}, padded : BOOLEAN]

(* TraceEventSchema; verify events are not looked at by any rule.          *)
Event ==
  [type : {"http_request"}, priced : BOOLEAN, key : RawKey, secret : BOOLEAN]
  \cup [type : {"http_response"}, call : Calls, status : 100..599]
  \cup [type : {"settle"}, call : Calls, key : RawKey, success : BOOLEAN,
        after : {None} \cup 100..599]
  \cup [type : {"budget_check"}, max : Nat, spent : Nat, requested : Nat,
        allowed : BOOLEAN]
  \cup [type : {"log"}, secret : BOOLEAN]

ASSUME HarnessAssumption ==
  /\ CallOp \in [Calls -> Ops]
  /\ Events \subseteq Event
  /\ MaxEvents \in Nat
  /\ None \notin Keys \cup (100 .. 599) \cup [key : Keys \cup {None}, padded : BOOLEAN]

VARIABLES
  trace,   \* the events so far
  suite    \* the fixtures filed: [dir, expect, ok]

vars == <<trace, suite>>

Expect == {None, "pass", "fail"}

TypeOK ==
  /\ trace \in Seq(Events)
  /\ suite \subseteq [dir : {"good", "bad"}, expect : Expect, ok : BOOLEAN]

-----------------------------------------------------------------------------
(* evaluateTrace                                                           *)

isSuccessStatus(code) == code >= 200 /\ code < 300

(* Mutant: the keys are compared as they were recorded.                    *)
TrimNothing(raw) == IF raw = None THEN None
                    ELSE IF raw.key = None THEN None ELSE raw

(* None for a key that is absent or blank.                                 *)
Trim(raw) == IF raw = None THEN None ELSE raw.key

(* The state of the walk: last status per operation, settled keys, and the *)
(* violations found, each with the index of its event.                     *)
Start == [last    |-> [op \in Ops |-> None],
          settled |-> {},
          found   |-> {}]

Flag(st, rule, i, cond) ==
  IF cond THEN [st EXCEPT !.found = @ \cup {<<rule, i>>}] ELSE st

(* checkSecretLeak                                                         *)
LeakStep(st, e, i) ==
  Flag(st, "secret_leak", i, e.type \in {"log", "http_request"} /\ e.secret)

RequestStep(st, e, i) ==
  Flag(st, "missing_idempotency_key", i, e.priced /\ Trim(e.key) = None)

(* Mutant: one last status for all operations.                             *)
ResponseStepGlobal(st, e) ==
  [st EXCEPT !.last = [op \in Ops |-> e.status]]

ResponseStep(st, e) == [st EXCEPT !.last[CallOp[e.call]] = e.status]

KeyStep(st, e, i) ==
  LET key == Trim(e.key)
  IN  CASE key = None           -> Flag(st, "missing_idempotency_key", i, TRUE)
        [] key # None /\ ~ e.success -> st
        [] key \in st.settled /\ e.success -> Flag(st, "double_charge", i, TRUE)
        [] OTHER                -> [st EXCEPT !.settled = @ \cup {key}]

(* event.afterStatusCode ?? lastStatusByOp.get(event.operationId)          *)
SettleStep(st, e, i) ==
  LET after == IF e.after # None THEN e.after ELSE st.last[CallOp[e.call]]
  IN  Flag(KeyStep(st, e, i), "settle_before_success", i,
           after = None \/ ~ isSuccessStatus(after))

BudgetStep(st, e, i) ==
  Flag(st, "budget_overrun", i, e.spent + e.requested > e.max /\ e.allowed)

EventStep(st, e, i) ==
  LET seen == LeakStep(st, e, i)
  IN  CASE e.type = "http_request"  -> RequestStep(seen, e, i)
        [] e.type = "http_response" -> ResponseStep(seen, e)
        [] e.type = "settle"        -> SettleStep(seen, e, i)
        [] e.type = "budget_check"  -> BudgetStep(seen, e, i)
        [] OTHER                    -> seen

(* The loop over the events: its state after the first i of them.          *)
Walk(events) ==
  LET walk[i \in 0 .. Len(events)] ==
        IF i = 0 THEN Start ELSE EventStep(walk[i - 1], events[i], i)
  IN  walk

evaluateTrace(events) == Walk(events)[Len(events)].found

-----------------------------------------------------------------------------
(* runFixtureSuite                                                         *)

(* Mutant: a fixture is judged by its own expectation alone.               *)
MismatchOwnExpectation(f) ==
  LET expect == IF f.expect # None THEN f.expect
                ELSE IF f.dir = "good" THEN "pass" ELSE "fail"
  IN  ~ (IF expect = "pass" THEN f.ok ELSE ~ f.ok)

(* A fixture fails the suite unless the verdict is the one of its          *)
(* directory and the one that the fixture itself expects.                  *)
Mismatch(f) ==
  LET expect  == IF f.expect # None THEN f.expect
                 ELSE IF f.dir = "good" THEN "pass" ELSE "fail"
      matched == IF expect = "pass" THEN f.ok ELSE ~ f.ok
  IN  ~ matched \/ (IF f.dir = "good" THEN ~ f.ok ELSE f.ok)

exitCode(fixtures) ==
  IF fixtures = {} THEN 1
  ELSE IF \E f \in fixtures : Mismatch(f) THEN 1 ELSE 0

-----------------------------------------------------------------------------
Init == trace = <<>> /\ suite = {}

(* Mutant: events are taken without the schema.                            *)
RecordUnparsed(e) ==
  /\ Len(trace) + Cardinality(suite) < MaxEvents
  /\ \E any \in {e, [type |-> "other"]} : trace' = Append(trace, any)
  /\ UNCHANGED suite

(* The next event of a trace file, which AgentTraceSchema has parsed.      *)
Record(e) ==
  /\ Len(trace) + Cardinality(suite) < MaxEvents
  /\ trace' = Append(trace, e)
  /\ UNCHANGED suite

(* evaluateAgentTrace on a file of one of the directories.  A trace has at *)
(* least one event.                                                        *)
File(dir, expect) ==
  /\ trace # <<>>
  /\ suite' = suite \cup {[dir |-> dir, expect |-> expect,
                           ok  |-> evaluateTrace(trace) = {}]}
  /\ trace' = <<>>

Next ==
  \/ \E e \in Events : Record(e)
  \/ \E dir \in {"good", "bad"}, expect \in Expect : File(dir, expect)

Spec == Init /\ [][Next]_vars

-----------------------------------------------------------------------------
(* Properties                                                              *)

Settles(i) == trace[i].type = "settle"

(* A violation is one by the wording of POLICY_RULES, whatever precedes    *)
(* it: `Same Idempotency-Key must not settle successfully twice', `paid    *)
(* requests and settle events must carry Idempotency-Key', `must not allow *)
(* spent+requested over per-tool daily max'.  The walk with its maps finds *)
(* exactly those, in every interleaving of requests.                       *)
RulesAgree ==
  LET found == evaluateTrace(trace)
      SettledOnce(i, k) == /\ Settles(i) /\ trace[i].success
                           /\ trace[i].key # None /\ trace[i].key.key = k
  IN  \A i \in DOMAIN trace :
        LET e == trace[i]
            Unkeyed == e.key = None \/ e.key.key = None
        IN  /\ <<"double_charge", i>> \in found <=>
                 \E k \in Keys : /\ SettledOnce(i, k)
                                 /\ \E j \in 1..(i - 1) : SettledOnce(j, k)
            /\ <<"missing_idempotency_key", i>> \in found <=>
                 /\ Settles(i) \/ (e.type = "http_request" /\ e.priced)
                 /\ Unkeyed
            /\ <<"budget_overrun", i>> \in found <=>
                 e.type = "budget_check" /\ e.allowed /\ e.max - e.spent < e.requested

(* The reply of the settle's own request, as the trace shows it.           *)
OwnReply(i) ==
  LET own == {j \in 1..(i - 1) : /\ trace[j].type = "http_response"
                                 /\ trace[j].call = trace[i].call}
  IN  IF own = {} THEN None
      ELSE trace[CHOOSE j \in own : \A h \in own : h <= j].status

(* Nothing of the operation was answered since the request's own reply.    *)
Undisturbed(i) ==
  \A j \in 1..(i - 1) :
    (trace[j].type = "http_response" /\ CallOp[trace[j].call] = CallOp[trace[i].call])
      => trace[j].call = trace[i].call

(* `Settle only after a successful 2xx handler/upstream response': a       *)
(* settle is flagged exactly when its own request was not answered 2xx,    *)
(* provided that the trace says so in the event, or that no other request  *)
(* of the operation was answered in between.  (Without either, the last    *)
(* status of the operation is that of another request, and the rule may    *)
(* raise a false alarm or miss a settlement.)                              *)
SettleJudgedByOwnReply ==
  \A i \in DOMAIN trace :
    /\ Settles(i)
    /\ IF trace[i].after = None THEN Undisturbed(i) ELSE trace[i].after = OwnReply(i)
    =>
      (<<"settle_before_success", i>> \in evaluateTrace(trace) <=>
         (OwnReply(i) = None \/ ~ (OwnReply(i) \in 200..299)))

(* The CI gate lets a suite through only if every good fixture is clean    *)
(* and every bad one is not, whatever the fixtures claim to expect.        *)
GateHolds ==
  exitCode(suite) = 0 => \A f \in suite : f.ok <=> f.dir = "good"
=============================================================================
