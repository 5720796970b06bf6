---------------------------- MODULE ClientProofs ----------------------------
(***************************************************************************)
(* What SettlerClient promises holds for every MaxRetries: its types and   *)
(* the bounds on POSTs and sleeps, one event per settlement, and that its  *)
(* steps are steps of Paywall.                                             *)
(***************************************************************************)
EXTENDS SettlerClient, FiniteSetTheorems, TLAPS

Copy == [call : ClientCalls, n : 1 .. MaxRetries + 1, body : Nat]

(* TypeOK without its bounds on what adds up over the three calls.         *)
ClientTyped ==
  /\ rail \in {"x402", "visa"}
  /\ call \in ClientCalls
  /\ phase \in Phases
  /\ posts \in [ClientCalls -> 0 .. MaxRetries + 1]
  /\ body \in Nat
  /\ copies \subseteq Copy
  /\ answer \in Answers \cup {NoAnswer}
  /\ outcome \in Outcomes
  /\ executed \in BOOLEAN
  /\ heard \subseteq Nat
  /\ clock \in Nat

(* A loop that is to begin has made no POST, nor have those that follow;   *)
(* one that sleeps has a POST left.                                        *)
LoopInv ==
  /\ phase = "ready" => posts[call] = 0
  /\ phase # "ready" => posts[call] > 0
  /\ phase = "sleeping" => posts[call] <= MaxRetries
  /\ call = "verify" => posts["settle"] = 0
  /\ call # "webhook" => posts["webhook"] = 0

(* A call sleeps before every POST but its first.                          *)
Sleeps(n) == IF n = 0 THEN 0 ELSE n - 1

ClockInv ==
  /\ clock = Sleeps(posts["verify"]) + Sleeps(posts["settle"]) + Sleeps(posts["webhook"])
  /\ body <= clock

(* Every copy of a webhook that is under way, and all that was heard, has  *)
(* the body of the one webhook that is made.                               *)
EventInv ==
  /\ \A c \in copies : c.call = "webhook" => call = "webhook" /\ c.body = body
  /\ heard \subseteq {body}
  /\ call # "webhook" => heard = {}

(* The money is taken by a POST of the settle call alone, and no answer    *)
(* says so before.                                                         *)
MoneyInv ==
  /\ \A c \in copies : c.call = "settle" => posts["settle"] > 0
  /\ executed => posts["settle"] > 0
  /\ phase = "reading" /\ call = "settle" /\ answer.body = "yes" => executed
  /\ call = "webhook" => executed
  /\ phase = "reading" => answer \in Answers
  /\ phase = "done" /\ call = "verify" => outcome \in {"ok", "402", "502", "error"}
  /\ phase = "done" /\ call = "settle" => outcome \in {"402", "502", "error"}

ClientInv == ClientTyped /\ LoopInv /\ ClockInv /\ EventInv /\ MoneyInv

-----------------------------------------------------------------------------
(* How a call ends, and what a loop may do.                                *)

(* Nothing but a settle call is followed by another call, and that is the  *)
(* webhook's: any other end leaves the call done.                          *)
LEMMA EndTyped ==
  ASSUME ClientTyped, NEW o \in {"ok", "402", "502", "error"}, End(o)
  PROVE  /\ outcome' \in {"ok", "402", "502", "error"}
         /\ \/ call' = "webhook" /\ phase' = "ready" /\ body' = clock /\ call = "settle"
            \/ phase' = "done" /\ call' = call /\ body' = body
  BY DEF End

LEMMA FailsTyped ==
  ASSUME ClientTyped, NEW e \in {"timeout", "transport", "body", "4xx", "5xx"}, Fails(e)
  PROVE  /\ outcome' \in Outcomes
         /\ \/ phase' = "sleeping" /\ posts[call] <= MaxRetries
            \/ phase' = "done"
         /\ call' = call /\ body' = body
         /\ phase' = "done" => IF call = "webhook" THEN outcome' = "ok"
                               ELSE outcome' \in {"502", "error"}
  BY DEF Fails, End, MayRetry, Outcomes, ClientTyped

(* The steps by which a call goes on without a POST, seen together.        *)
Goes ==
  /\ UNCHANGED <<rail, posts, copies, clock, serverVars>>
  /\ answer' \in {answer, NoAnswer}
  /\ phase \in {"waiting", "reading"}
  /\ \/ /\ phase' = "sleeping" /\ posts[call] <= MaxRetries
        /\ UNCHANGED <<call, body, outcome>>
     \/ /\ phase' = "done" /\ UNCHANGED <<call, body>>
        /\ outcome' \in {"ok", "402", "502", "error"}
        /\ call = "settle" => outcome' # "ok"
     \/ /\ call = "settle" /\ call' = "webhook" /\ phase' = "ready"
        /\ phase = "reading" /\ answer.body = "yes"
        /\ body' = clock /\ outcome' = "ok"

LEMMA FailsGoes ==
  ASSUME ClientTyped, NEW e \in {"timeout", "transport", "body", "4xx", "5xx"}, Fails(e),
         phase \in {"waiting", "reading"},
         UNCHANGED <<rail, posts, copies, clock, serverVars>>,
         answer' \in {answer, NoAnswer}
  PROVE  Goes
  BY DEF Goes, Fails, End, MayRetry

LEMMA StepGoes ==
  ASSUME ClientTyped, MoneyInv, AttemptFails \/ BodyFails \/ Read \/ Delivered
  PROVE  Goes
<1>1. CASE AttemptFails
  BY <1>1, FailsGoes DEF AttemptFails
<1>2. CASE BodyFails
  BY <1>2, FailsGoes DEF BodyFails
<1>3. CASE Read
  <2>1. CASE answer.body = "junk" /\ Fails("transport")
    BY <1>3, <2>1, FailsGoes DEF Read
  <2>2. CASE answer.status # "2xx" /\ Fails(answer.status)
    <3>1. answer.status \in {"4xx", "5xx"}
      BY <1>3, <2>2 DEF Read, MoneyInv, Answers
    <3>2. QED
      BY <1>3, <2>2, <3>1, FailsGoes DEF Read
  <2>3. CASE answer.body # "junk" /\ End(Parsed(answer.body))
    BY <1>3, <2>3 DEF Read, End, Parsed, Malformed, Goes
  <2>4. QED
    BY <1>3, <2>1, <2>2, <2>3 DEF Read
<1>4. CASE Delivered
  <2>1. CASE answer.status = "2xx"
    BY <1>4, <2>1 DEF Delivered, End, Goes
  <2>2. CASE answer.status # "2xx"
    <3>1. answer.status \in {"4xx", "5xx"}
      BY <1>4, <2>2 DEF Delivered, MoneyInv, Answers
    <3>2. QED
      BY <1>4, <2>2, <3>1, FailsGoes DEF Delivered
  <2>3. QED
    BY <2>1, <2>2
<1>5. QED
  BY <1>1, <1>2, <1>3, <1>4

-----------------------------------------------------------------------------
(* The steps keep the invariant.                                           *)

LEMMA InitInv ==
  ASSUME Init
  PROVE  ClientInv
<1>1. /\ posts["verify"] = 0 /\ posts["settle"] = 0 /\ posts["webhook"] = 0
      /\ posts \in [ClientCalls -> 0 .. MaxRetries + 1]
  BY ClientAssumption DEF Init, ClientCalls
<1>2. ClientTyped
  BY <1>1 DEF Init, ClientTyped, ClientCalls, Phases, Outcomes
<1>3. ClockInv
  BY <1>1 DEF Init, ClockInv, Sleeps
<1>4. LoopInv /\ EventInv /\ MoneyInv
  BY <1>1 DEF Init, LoopInv, EventInv, MoneyInv
<1>5. QED
  BY <1>2, <1>3, <1>4 DEF ClientInv

LEMMA PostKeepsInv ==
  ASSUME ClientInv, Post
  PROVE  ClientInv'
<1> USE DEF ClientInv
<1>1. posts[call] \in 0 .. MaxRetries /\ (phase = "ready" => posts[call] = 0)
  BY ClientAssumption DEF Post, ClientTyped, LoopInv, Phases
<1>2. posts' \in [ClientCalls -> 0 .. MaxRetries + 1] /\ posts'[call] = posts[call] + 1
      /\ \A c \in ClientCalls \ {call} : posts'[c] = posts[c]
  BY <1>1, ClientAssumption DEF Post, ClientTyped
<1>3. /\ phase' = "waiting" /\ call' = call /\ body' = body /\ clock' \in Nat
      /\ clock' >= clock
      /\ UNCHANGED <<rail, answer, outcome, executed, heard>>
  BY DEF Post, ClientTyped, serverVars
<1>4. \A c \in copies' : c \in copies \/ c = [call |-> call, n |-> posts'[call], body |-> body]
  BY DEF Post
<1>5. ClientTyped'
  <2>1. [call |-> call, n |-> posts'[call], body |-> body] \in Copy
    BY <1>1, <1>2, ClientAssumption DEF ClientTyped, Copy
  <2>2. QED
    BY <1>2, <1>3, <1>4, <2>1 DEF ClientTyped, Copy, Phases
<1>6. LoopInv'
  BY <1>1, <1>2, <1>3 DEF LoopInv, ClientTyped, ClientCalls
<1>7. ClockInv'
  <2>1. phase = "sleeping" => clock' = clock + 1 /\ posts[call] > 0
    BY DEF Post, LoopInv
  <2>2. phase # "sleeping" => clock' = clock /\ posts[call] = 0
    BY DEF Post, LoopInv
  <2>3. Sleeps(posts[call] + 1) = Sleeps(posts[call]) + (clock' - clock)
    BY <1>1, <2>1, <2>2, ClientAssumption DEF Sleeps, ClientTyped
  <2>4. /\ Sleeps(posts["verify"]) \in Nat /\ Sleeps(posts["settle"]) \in Nat
        /\ Sleeps(posts["webhook"]) \in Nat
    BY DEF Sleeps, ClientTyped, ClientCalls
  <2>5. QED
    BY <1>2, <1>3, <2>3, <2>4 DEF ClockInv, ClientTyped, ClientCalls
<1>8. EventInv'
  BY <1>3, <1>4 DEF EventInv, ClientTyped
<1>9. MoneyInv'
  <2>1. posts'["settle"] >= posts["settle"] /\ (call = "settle" => posts'["settle"] > 0)
    BY <1>2 DEF ClientTyped, ClientCalls
  <2>2. posts["settle"] \in Nat /\ posts'["settle"] \in Nat
    BY <1>2 DEF ClientTyped, ClientCalls
  <2>3. QED
    BY <1>3, <1>4, <2>1, <2>2 DEF MoneyInv, ClientTyped
<1>10. QED
  BY <1>5, <1>6, <1>7, <1>8, <1>9

LEMMA GoesKeepsInv ==
  ASSUME ClientInv, Goes
  PROVE  ClientInv'
<1> USE DEF ClientInv
<1>1. ClientTyped'
  BY DEF Goes, ClientTyped, serverVars, ClientCalls, Phases, Outcomes
<1>2. LoopInv'
  BY DEF Goes, LoopInv, ClientTyped, ClientCalls
<1>3. ClockInv'
  BY DEF Goes, ClockInv, ClientTyped
<1>4. EventInv'
  BY DEF Goes, EventInv, ClientTyped, serverVars
<1>5. MoneyInv'
  BY DEF Goes, MoneyInv, ClientTyped, serverVars
<1>6. QED
  BY <1>1, <1>2, <1>3, <1>4, <1>5

LEMMA HandlerKeepsInv ==
  ASSUME ClientInv, HandlerReplies
  PROVE  ClientInv'
  BY DEF ClientInv, HandlerReplies, ClientTyped, LoopInv, ClockInv, EventInv, MoneyInv,
     serverVars, ClientCalls, Phases, Outcomes

LEMMA TakeUpKeepsInv ==
  ASSUME ClientInv, NEW c \in copies, TakeUp(c)
  PROVE  ClientInv'
<1> USE DEF ClientInv
<1>1. /\ UNCHANGED clientVars
      /\ copies' \subseteq copies
      /\ executed' = (executed \/ c.call = "settle")
      /\ heard' = IF c.call = "webhook" THEN heard \cup {c.body} ELSE heard
  BY DEF TakeUp
<1>2. c.body \in Nat
  BY DEF ClientTyped, Copy
<1>3. ClientTyped' /\ LoopInv' /\ ClockInv'
  BY <1>1, <1>2 DEF ClientTyped, LoopInv, ClockInv, clientVars
<1>4. EventInv' /\ MoneyInv'
  BY <1>1 DEF EventInv, MoneyInv, clientVars
<1>5. QED
  BY <1>3, <1>4

LEMMA RespondKeepsInv ==
  ASSUME ClientInv, NEW a \in Answers, Respond(a)
  PROVE  ClientInv'
  BY DEF ClientInv, Respond, ClientTyped, LoopInv, ClockInv, EventInv, MoneyInv,
     serverVars, Phases

LEMMA StepKeepsInv ==
  ASSUME ClientInv, [Next]_vars
  PROVE  ClientInv'
<1>1. CASE AttemptFails \/ BodyFails \/ Read \/ Delivered
  BY <1>1, StepGoes, GoesKeepsInv DEF ClientInv
<1>2. CASE UNCHANGED vars
  BY <1>2 DEF vars, clientVars, serverVars, ClientInv, ClientTyped, LoopInv, ClockInv,
     EventInv, MoneyInv
<1>3. QED
  BY <1>1, <1>2, PostKeepsInv, HandlerKeepsInv, TakeUpKeepsInv, RespondKeepsInv DEF Next

(* The inductive invariant holds of the loops and the servers, for any     *)
(* number of retries.                                                      *)
THEOREM ClientInvariant == Spec => []ClientInv
  BY InitInv, StepKeepsInv, PTL DEF Spec

-----------------------------------------------------------------------------
(* A call is POSTed 1 + MaxRetries times at most, so it sleeps MaxRetries  *)
(* times at most, whatever its server answers.                             *)
LEMMA InvTypes ==
  ASSUME ClientInv
  PROVE  TypeOK
<1>1. posts["verify"] \in 0 .. MaxRetries + 1 /\ posts["settle"] \in 0 .. MaxRetries + 1
      /\ posts["webhook"] \in 0 .. MaxRetries + 1
  BY DEF ClientInv, ClientTyped, ClientCalls
<1>2. \A n \in 0 .. MaxRetries + 1 : Sleeps(n) \in 0 .. MaxRetries
  BY ClientAssumption DEF Sleeps
<1>3. clock \in 0 .. 3 * MaxRetries /\ body \in 0 .. 3 * MaxRetries
  BY <1>1, <1>2, ClientAssumption DEF ClientInv, ClientTyped, ClockInv
<1>4. QED
  BY <1>3 DEF ClientInv, ClientTyped, TypeOK, Copy

(* The types of the clients' state, with the bounds on POSTs and sleeps.   *)
THEOREM ClientTypeCorrect == Spec => []TypeOK
  BY ClientInvariant, InvTypes, PTL

LEMMA InvHearsOne ==
  ASSUME ClientInv
  PROVE  OneEventPerSettlement
<1>1. IsFiniteSet({body}) /\ Cardinality({body}) = 1
  BY FS_Singleton
<1>2. Cardinality(heard) <= Cardinality({body})
  BY <1>1, FS_Subset DEF ClientInv, EventInv
<1>3. QED
  BY <1>1, <1>2 DEF OneEventPerSettlement

(* The billing endpoint hears of one event per settlement, for any number  *)
(* of retries, delayed POSTs and copies.                                   *)
THEOREM OneEvent == Spec => []OneEventPerSettlement
  BY ClientInvariant, InvHearsOne, PTL

-----------------------------------------------------------------------------
(* What Paywall sees of the request, without the functions of one element. *)

Upstream == IF call = "verify" THEN "none" ELSE "2xx"
Receipt  == IF call = "webhook" THEN Tx ELSE NoTx
Posted   == IF Settling /\ posts["settle"] > 0 THEN {SettleCall} ELSE {}
Charges  == IF executed THEN {SettleCall} ELSE {}
Events   == IF heard # {} THEN {Key} ELSE {}

Before == <<rail, Upstream, posts["settle"], Receipt>>
Book   == <<PaywallReply, PaywallRow>>
Money  == <<Posted, Charges, Events>>

LEMMA OneRequest ==
  /\ \A v : One(v)[Request] = v
  /\ \A v, w : [One(v) EXCEPT ![Request] = w] = One(w)
  BY DEF One

(* The row of Key, replaced.                                               *)
LEMMA OneRow ==
  \A v, w : [[k \in {Key} |-> v] EXCEPT ![Key] = w] = [k \in {Key} |-> w]
  OBVIOUS

LEMMA CallIsSettleCall ==
  ASSUME ClientTyped
  PROVE  W!Call(Request) = SettleCall
<1>1. W!Token(Key, [rail |-> rail, auth |-> Auth]) = Tx
  BY DEF W!Token, Tx
<1>2. QED
  BY <1>1, OneRequest DEF W!Call, SettleCall

LEMMA QuietStep ==
  ASSUME UNCHANGED <<PaywallPc, Before, Book, Money>>
  PROVE  UNCHANGED W!vars
<1>1. /\ UNCHANGED <<PaywallPc, rail, Upstream, posts["settle"], Receipt, PaywallReply,
                     PaywallRow, Posted, Charges, Events>>
  BY DEF Before, Book, Money
<1>2. UNCHANGED W!reqVars
  BY <1>1 DEF W!reqVars, One, Upstream, Receipt
<1>3. QED
  BY <1>1, <1>2 DEF W!vars, W!extVars, W!envVars, Posted, Charges, Events

(* recordSettlement of the pending row.                                    *)
Outcome(status, tx) == [status |-> status, tx |-> tx, created |-> 0, updated |-> 0]

LEMMA RecordIs ==
  ASSUME NEW status, NEW tx, PaywallRow.status = "pending",
         PaywallRow' = Outcome(status, tx)
  PROVE  W!Record(Request, status, tx)
<1>1. W!RecordSettlement(PaywallRow, status, tx, 0) = Outcome(status, tx)
  BY DEF PaywallRow, W!RecordSettlement, Outcome
<1>2. QED
  BY <1>1, OneRequest, OneRow DEF W!Record

LEMMA FinishIs ==
  ASSUME NEW rep, PaywallPc' = "done", PaywallReply' = rep
  PROVE  W!Finish(Request, rep)
  BY OneRequest DEF W!Finish, W!Goto

LEMMA GotoIs ==
  ASSUME NEW label, PaywallPc' = label
  PROVE  W!Goto(Request, label)
  BY OneRequest DEF W!Goto

(* Verify, the handler and the webhook.                                    *)
LEMMA AsVerifyAccepts ==
  ASSUME PaywallPc = "claimed", PaywallPc' = "handling", UNCHANGED <<Before, Book, Money>>
  PROVE  W!VerifyAccepts(Request)
<1>1. UNCHANGED <<rail, Upstream, posts["settle"], Receipt, PaywallReply, PaywallRow,
                  Posted, Charges, Events>>
  BY DEF Before, Book, Money
<1>2. QED
  BY <1>1, OneRequest, GotoIs DEF W!VerifyAccepts, W!extVars, W!envVars, One, Upstream,
     Receipt, Posted, Charges, Events

LEMMA AsVerifyFails ==
  ASSUME NEW rep \in {"402", "502", "error"},
         PaywallPc = "claimed", PaywallPc' = "done", PaywallReply' = rep,
         PaywallRow.status = "pending", PaywallRow' = Outcome("failed", NoTx),
         UNCHANGED <<Before, Money>>
  PROVE  W!VerifyFails(Request)
<1>1. UNCHANGED <<rail, Upstream, posts["settle"], Receipt, Posted, Charges, Events>>
  BY DEF Before, Money
<1>2. W!Record(Request, "failed", NoTx) /\ W!Finish(Request, rep)
  BY RecordIs, FinishIs
<1>3. QED
  BY <1>1, <1>2, OneRequest DEF W!VerifyFails, W!extVars, W!envVars, One, Upstream,
     Receipt, Posted, Charges, Events

LEMMA AsHandlerReplies ==
  ASSUME PaywallPc = "handling", PaywallPc' = "onSend", Upstream' = "2xx",
         UNCHANGED <<rail, posts["settle"], Receipt, Book, Money>>
  PROVE  W!HandlerReplies(Request, "2xx")
<1>1. UNCHANGED <<rail, posts["settle"], Receipt, PaywallReply, PaywallRow,
                  Posted, Charges, Events>>
  BY DEF Book, Money
<1>2. QED
  BY <1>1, OneRequest, GotoIs DEF W!HandlerReplies, W!extVars, W!envVars, One, Upstream,
     Receipt, Posted, Charges, Events

LEMMA AsNotify ==
  ASSUME PaywallPc = "notifying", PaywallPc' = "done", PaywallReply' = "paid",
         UNCHANGED <<Before, PaywallRow, Money>>
  PROVE  W!Notify(Request)
<1>1. UNCHANGED <<rail, Upstream, posts["settle"], Receipt, PaywallRow, Posted, Charges,
                  Events>>
  BY DEF Before, Money
<1>2. QED
  BY <1>1, OneRequest, FinishIs DEF W!Notify, W!extVars, W!envVars, One, Upstream,
     Receipt, Posted, Charges, Events

LEMMA AsBillingHears ==
  ASSUME Receipt # NoTx, posts["settle"] > 0, Events' = {Key}, Events \subseteq {Key},
         UNCHANGED <<PaywallPc, Before, Book, Posted, Charges>>
  PROVE  W!BillingHears(Request)
<1>1. UNCHANGED <<rail, Upstream, posts["settle"], Receipt, PaywallReply, PaywallRow,
                  Posted, Charges>>
  BY DEF Before, Book
<1>2. UNCHANGED W!reqVars
  BY <1>1 DEF W!reqVars, One, Upstream, Receipt
<1>3. Events' = Events \cup {Key}
  OBVIOUS
<1>4. QED
  BY <1>1, <1>2, <1>3, OneRequest DEF W!BillingHears, W!envVars, One, Receipt, Posted,
     Charges, Events

(* The settle call.                                                        *)
LEMMA AsPostSettle ==
  ASSUME ClientTyped,
         \/ PaywallPc = "onSend" /\ Upstream = "2xx" /\ Receipt = NoTx
         \/ PaywallPc = "retrying",
         PaywallPc' = "awaiting", posts["settle"]' = posts["settle"] + 1,
         Posted' = Posted \cup {SettleCall},
         UNCHANGED <<rail, Upstream, Receipt, Book, Charges, Events>>
  PROVE  W!PostSettle(Request)
<1>1. UNCHANGED <<rail, Upstream, Receipt, PaywallReply, PaywallRow, Charges, Events>>
  BY DEF Book
<1>2. W!ReadyToSettle(Request)
  BY OneRequest DEF W!ReadyToSettle, Upstream, Receipt
<1>3. QED
  BY <1>1, <1>2, OneRequest, GotoIs, CallIsSettleCall
  DEF W!PostSettle, W!envVars, One, Upstream, Receipt, Posted, Charges, Events

LEMMA AsSettlerExecutes ==
  ASSUME Posted = {SettleCall}, ~ executed, Charges' = {SettleCall},
         UNCHANGED <<PaywallPc, Before, Book, Posted, Events>>
  PROVE  \E c \in Posted : W!SettlerExecutes(c)
<1>1. UNCHANGED <<rail, Upstream, posts["settle"], Receipt, PaywallReply, PaywallRow,
                  Posted, Events>>
  BY DEF Before, Book
<1>2. UNCHANGED W!reqVars
  BY <1>1 DEF W!reqVars, One, Upstream, Receipt
<1>3. Charges = {} /\ ~ W!Spent(SettleCall.token)
  BY DEF W!Spent, Charges
<1>4. SettleCall.key \in {Key}
  BY DEF SettleCall
<1>5. W!SettlerExecutes(SettleCall)
  BY <1>1, <1>2, <1>3, <1>4 DEF W!SettlerExecutes, W!Withdrawn, W!envVars, Posted, Charges,
     Events
<1>6. QED
  BY <1>5

LEMMA AsSettleSucceeds ==
  ASSUME ClientTyped, executed, PaywallPc = "awaiting", PaywallPc' = "notifying",
         PaywallRow.status = "pending", PaywallRow' = Outcome("settled", Tx),
         Receipt' = Tx, Posted \subseteq {SettleCall}, Posted' = {},
         UNCHANGED <<rail, Upstream, posts["settle"], PaywallReply, Charges, Events>>
  PROVE  W!SettleSucceeds(Request)
<1>1. W!Call(Request) = SettleCall /\ SettleCall.token = Tx
  BY CallIsSettleCall DEF SettleCall
<1>2. W!Spent(SettleCall.token)
  BY DEF W!Spent
<1>3. W!Record(Request, "settled", SettleCall.token)
  BY <1>1, RecordIs
<1>4. Posted' = Posted \ {SettleCall}
  OBVIOUS
<1>5. QED
  BY <1>1, <1>2, <1>3, <1>4, OneRequest, GotoIs
  DEF W!SettleSucceeds, W!envVars, One, Upstream, Receipt, Posted, Charges, Events

LEMMA AsSettleRefused ==
  ASSUME ClientTyped, PaywallPc = "awaiting", PaywallPc' = "done", PaywallReply' = "402",
         PaywallRow.status = "pending", PaywallRow' = Outcome("failed", NoTx),
         Posted = {SettleCall}, UNCHANGED <<Before, Money>>
  PROVE  W!SettleRefused(Request)
<1>1. UNCHANGED <<rail, Upstream, posts["settle"], Receipt, Posted, Charges, Events>>
  BY DEF Before, Money
<1>2. W!Call(Request) = SettleCall /\ SettleCall.key = Key
  BY CallIsSettleCall DEF SettleCall
<1>3. W!Record(Request, "failed", NoTx) /\ W!Finish(Request, "402")
  BY RecordIs, FinishIs
<1>4. W!Withdrawn(SettleCall)
  BY <1>1, <1>2 DEF W!Withdrawn, Posted
<1>5. QED
  BY <1>1, <1>2, <1>3, <1>4, OneRequest DEF W!SettleRefused, W!envVars, One, Upstream,
     Receipt, Posted, Charges, Events

LEMMA AsAttemptFails ==
  ASSUME ClientTyped, PaywallPc = "awaiting", UNCHANGED Posted
  PROVE  W!AttemptFails(Request)
<1>1. W!Call(Request) = SettleCall /\ SettleCall.key = Key
  BY CallIsSettleCall DEF SettleCall
<1>2. QED
  BY <1>1, OneRequest DEF W!AttemptFails, W!Withdrawn, Posted

LEMMA AsSettleRetries ==
  ASSUME ClientTyped, PaywallPc = "awaiting", PaywallPc' = "retrying",
         posts["settle"] <= MaxRetries, UNCHANGED <<Before, Book, Money>>
  PROVE  W!SettleRetries(Request)
<1>1. UNCHANGED <<rail, Upstream, posts["settle"], Receipt, PaywallReply, PaywallRow,
                  Posted, Charges, Events>>
  BY DEF Before, Book, Money
<1>2. QED
  BY <1>1, OneRequest, GotoIs, AsAttemptFails DEF W!SettleRetries, W!envVars, One, Upstream,
     Receipt, Charges, Events

LEMMA AsSettleThrows ==
  ASSUME ClientTyped,
         PaywallPc = "awaiting", PaywallPc' = "done", PaywallReply' = "502",
         PaywallRow.status = "pending", PaywallRow' = Outcome("failed", NoTx),
         UNCHANGED <<Before, Money>>
  PROVE  W!SettleThrows(Request)
<1>1. UNCHANGED <<rail, Upstream, posts["settle"], Receipt, Posted, Charges, Events>>
  BY DEF Before, Money
<1>2. W!Record(Request, "failed", NoTx) /\ W!Finish(Request, "502")
  BY RecordIs, FinishIs
<1>3. QED
  BY <1>1, <1>2, OneRequest, AsAttemptFails DEF W!SettleThrows, W!envVars, One, Upstream,
     Receipt, Charges, Events

LEMMA AsSettleRethrows ==
  ASSUME ClientTyped,
         PaywallPc = "awaiting", PaywallPc' = "rerun", UNCHANGED PaywallReply,
         PaywallRow.status = "pending", PaywallRow' = Outcome("failed", NoTx),
         UNCHANGED <<Before, Money>>
  PROVE  W!SettleRethrows(Request)
<1>1. UNCHANGED <<rail, Upstream, posts["settle"], Receipt, Posted, Charges, Events>>
  BY DEF Before, Money
<1>2. W!Record(Request, "failed", NoTx) /\ W!Goto(Request, "rerun")
  BY RecordIs, GotoIs
<1>3. QED
  BY <1>1, <1>2, OneRequest, AsAttemptFails DEF W!SettleRethrows, W!envVars, One, Upstream,
     Receipt, Charges, Events

-----------------------------------------------------------------------------
(* Every step is one of these, or none.                                    *)

LEMMA ServeIsStep ==
  ASSUME W!Serve(Request)
  PROVE  W!Next
<1>1. W!Turn(Request)
  BY DEF W!Turn, W!Process
<1>2. QED
  BY <1>1 DEF W!Next

(* A settle call that is under way, with its POSTs.                        *)
LEMMA UnderWay ==
  ASSUME ClientInv, call = "settle", phase # "ready"
  PROVE  Posted = {SettleCall}
  BY DEF ClientInv, LoopInv, Posted, Settling

LEMMA PostIsStep ==
  ASSUME ClientInv, Post
  PROVE  W!Next \/ UNCHANGED W!vars
<1>1. UNCHANGED <<rail, call, outcome, executed, heard>> /\ phase' = "waiting"
      /\ phase \in {"ready", "sleeping"}
      /\ posts' \in [ClientCalls -> 0 .. MaxRetries + 1]
  BY PostKeepsInv DEF Post, serverVars, ClientInv, ClientTyped
<1>2. posts' = [posts EXCEPT ![call] = @ + 1] /\ posts \in [ClientCalls -> 0 .. MaxRetries + 1]
  BY DEF Post, ClientInv, ClientTyped
<1>3. UNCHANGED <<rail, Upstream, Receipt, PaywallReply, PaywallRow, Charges, Events>>
  BY <1>1 DEF Upstream, Receipt, PaywallReply, PaywallRow, PaywallPc, Charges, Events, Tx,
     Settling, SettleCall
<1>4. CASE call # "settle"
  <2>1. UNCHANGED <<PaywallPc, Posted>> /\ posts["settle"]' = posts["settle"]
    BY <1>1, <1>2, <1>4 DEF PaywallPc, Posted, Settling, ClientCalls
  <2>2. QED
    BY <1>3, <2>1, QuietStep DEF Before, Book, Money
<1>5. CASE call = "settle"
  <2>1. posts["settle"]' = posts["settle"] + 1 /\ posts["settle"] \in Nat
    BY <1>2, <1>5 DEF ClientCalls
  <2>2. Posted' = {SettleCall} /\ Posted \subseteq {SettleCall}
    BY <1>1, <1>5, <2>1 DEF Posted, Settling, SettleCall, Tx
  <2>3. PaywallPc \in {"onSend", "retrying"} /\ PaywallPc' = "awaiting"
        /\ Upstream = "2xx" /\ Receipt = NoTx
    BY <1>1, <1>5 DEF PaywallPc, Settling, Upstream, Receipt
  <2>4. W!PostSettle(Request)
    BY <1>3, <2>1, <2>2, <2>3, AsPostSettle DEF ClientInv, Book
  <2>5. QED
    BY <2>4, ServeIsStep DEF W!Serve
<1>6. QED
  BY <1>4, <1>5

LEMMA GoesIsStep ==
  ASSUME ClientInv, Goes
  PROVE  W!Next \/ UNCHANGED W!vars
<1>1. /\ UNCHANGED <<rail, posts, executed, heard, posts["settle"]>>
      /\ phase \in {"waiting", "reading"} /\ call \in ClientCalls
  BY DEF Goes, serverVars, ClientInv, ClientTyped
<1>2. UNCHANGED <<SettleCall, Charges, Events>>
  BY <1>1 DEF Charges, Events, SettleCall, Tx
<1>3. ASSUME phase' = "sleeping", posts[call] <= MaxRetries, UNCHANGED <<call, body, outcome>>
      PROVE  W!Next \/ UNCHANGED W!vars
  <2>1. UNCHANGED <<Upstream, Receipt, PaywallReply, PaywallRow, Posted>>
    BY <1>1, <1>2, <1>3 DEF Upstream, Receipt, PaywallReply, PaywallRow, PaywallPc, Posted, Tx,
       Settling
  <2>2. CASE call = "settle"
    <3>1. PaywallPc = "awaiting" /\ PaywallPc' = "retrying"
      BY <1>1, <1>3, <2>2 DEF PaywallPc, Settling
    <3>2. W!SettleRetries(Request)
      BY <1>1, <1>2, <1>3, <2>1, <2>2, <3>1, AsSettleRetries DEF ClientInv, Before, Book, Money
    <3>3. QED
      BY <3>2, ServeIsStep DEF W!Serve
  <2>3. CASE call # "settle"
    <3>1. UNCHANGED PaywallPc
      BY <1>1, <1>3, <2>3 DEF PaywallPc, Settling
    <3>2. QED
      BY <1>1, <1>2, <2>1, <3>1, QuietStep DEF Before, Book, Money
  <2>4. QED
    BY <2>2, <2>3
<1>4. ASSUME phase' = "done", UNCHANGED <<call, body>>,
             outcome' \in {"ok", "402", "502", "error"}, call = "settle" => outcome' # "ok"
      PROVE  W!Next \/ UNCHANGED W!vars
  <2>1. UNCHANGED <<Upstream, Receipt, Posted>>
    BY <1>1, <1>2, <1>4 DEF Upstream, Receipt, Posted, Tx, Settling
  <2>2. UNCHANGED <<Before, Money>>
    BY <1>1, <1>2, <2>1 DEF Before, Money
  <2>3. CASE call = "verify" /\ outcome' = "ok"
    <3>1. PaywallPc = "claimed" /\ PaywallPc' = "handling"
      BY <1>1, <1>4, <2>3 DEF PaywallPc, Settling, Phases
    <3>2. UNCHANGED Book
      BY <1>1, <1>4, <2>3, <3>1 DEF Book, PaywallReply, PaywallRow, Tx
    <3>3. W!VerifyAccepts(Request)
      BY <2>2, <3>1, <3>2, AsVerifyAccepts
    <3>4. QED
      BY <3>3, ServeIsStep DEF W!Serve
  <2>4. CASE call # "webhook" /\ outcome' # "ok"
    <3>1. /\ call = "verify" => PaywallPc = "claimed"
          /\ call # "verify" => call = "settle" /\ PaywallPc = "awaiting"
      <4>1. call \in {"verify", "settle"}
        BY <1>1, <2>4 DEF ClientCalls
      <4>2. QED
        BY <1>1, <4>1 DEF PaywallPc, Settling
    <3>2. PaywallPc' = IF call = "settle" /\ outcome' = "error" THEN "rerun" ELSE "done"
      BY <1>1, <1>4, <2>4 DEF PaywallPc, Settling, ClientCalls
    <3>3. PaywallReply' = (IF PaywallPc' = "rerun" THEN "none" ELSE outcome')
      BY <1>4, <2>4, <3>2 DEF PaywallReply
    <3>4. PaywallRow.status = "pending" /\ PaywallRow' = Outcome("failed", NoTx)
      BY <1>4, <2>4, <3>1, <3>2 DEF PaywallRow, Outcome
    <3>5. CASE call = "verify"
      <4>1. PaywallPc' = "done" /\ PaywallReply' = outcome'
        BY <3>2, <3>3, <3>5
      <4>2. W!VerifyFails(Request)
        BY <1>4, <2>2, <2>4, <3>1, <3>4, <3>5, <4>1, AsVerifyFails
      <4>3. QED
        BY <4>2, ServeIsStep DEF W!Serve
    <3>6. CASE call = "settle" /\ outcome' = "402"
      <4>1. PaywallPc' = "done" /\ PaywallReply' = "402"
        BY <3>2, <3>3, <3>6
      <4>2. Posted = {SettleCall}
        BY <1>1, <2>4, <3>6, UnderWay DEF ClientCalls
      <4>3. W!SettleRefused(Request)
        BY <2>2, <3>1, <3>4, <3>6, <4>1, <4>2, AsSettleRefused DEF ClientInv
      <4>4. QED
        BY <4>3, ServeIsStep DEF W!Serve
    <3>7. CASE call = "settle" /\ outcome' = "502"
      <4>1. PaywallPc' = "done" /\ PaywallReply' = "502"
        BY <3>2, <3>3, <3>7
      <4>2. W!SettleThrows(Request)
        BY <2>2, <3>1, <3>4, <3>7, <4>1, AsSettleThrows DEF ClientInv
      <4>3. QED
        BY <4>2, ServeIsStep DEF W!Serve
    <3>8. CASE call = "settle" /\ outcome' = "error"
      <4>1. PaywallPc' = "rerun" /\ PaywallReply' = "none" /\ PaywallReply = "none"
        BY <3>1, <3>2, <3>3, <3>8 DEF PaywallReply
      <4>2. W!SettleRethrows(Request)
        BY <2>2, <3>1, <3>4, <3>8, <4>1, AsSettleRethrows DEF ClientInv
      <4>3. QED
        BY <4>2, ServeIsStep DEF W!Serve
    <3>9. QED
      BY <1>1, <1>4, <2>4, <3>5, <3>6, <3>7, <3>8 DEF ClientCalls
  <2>5. CASE call = "webhook"
    <3>1. PaywallPc = "notifying" /\ PaywallPc' = "done"
      BY <1>1, <1>4, <2>5 DEF PaywallPc, Settling
    <3>2. PaywallReply' = "paid" /\ UNCHANGED PaywallRow
      BY <1>1, <1>4, <2>5, <3>1 DEF PaywallReply, PaywallRow, Tx
    <3>3. W!Notify(Request)
      BY <2>2, <3>1, <3>2, AsNotify
    <3>4. QED
      BY <3>3, ServeIsStep DEF W!Serve
  <2>6. QED
    BY <1>1, <1>4, <2>3, <2>4, <2>5 DEF ClientCalls
<1>5. ASSUME call = "settle", call' = "webhook", phase' = "ready", phase = "reading",
             answer.body = "yes", body' = clock, outcome' = "ok"
      PROVE  W!Next \/ UNCHANGED W!vars
  <2>1. executed /\ Posted = {SettleCall} /\ Posted' = {}
    BY <1>5, UnderWay DEF ClientInv, MoneyInv, Posted, Settling
  <2>2. PaywallPc = "awaiting" /\ PaywallPc' = "notifying"
    BY <1>5 DEF PaywallPc, Settling
  <2>3. PaywallRow.status = "pending" /\ PaywallRow' = Outcome("settled", Tx)
    BY <1>1, <1>5, <2>2 DEF PaywallRow, Outcome, Tx
  <2>4. Receipt' = Tx /\ UNCHANGED Upstream
    BY <1>1, <1>5 DEF Receipt, Upstream, Tx
  <2>5. UNCHANGED PaywallReply
    BY <2>2 DEF PaywallReply
  <2>6. W!SettleSucceeds(Request)
    BY <1>1, <1>2, <2>1, <2>2, <2>3, <2>4, <2>5, AsSettleSucceeds DEF ClientInv
  <2>7. QED
    BY <2>6, ServeIsStep DEF W!Serve
<1>6. QED
  BY <1>3, <1>4, <1>5 DEF Goes

LEMMA HandlerIsStep ==
  ASSUME ClientInv, HandlerReplies
  PROVE  W!Next \/ UNCHANGED W!vars
<1>1. /\ call = "verify" /\ phase = "done" /\ outcome = "ok"
      /\ call' = "settle" /\ phase' = "ready"
      /\ UNCHANGED <<rail, executed, heard, posts["settle"]>> /\ posts["settle"] = 0
  BY DEF HandlerReplies, serverVars, ClientInv, LoopInv
<1>2. UNCHANGED <<Receipt, PaywallReply, PaywallRow, Posted, Charges, Events>>
  BY <1>1 DEF Receipt, PaywallReply, PaywallRow, PaywallPc, Posted, Settling, SettleCall,
     Charges, Events, Tx
<1>3. PaywallPc = "handling" /\ PaywallPc' = "onSend" /\ Upstream' = "2xx"
  BY <1>1 DEF PaywallPc, Settling, Upstream
<1>4. W!HandlerReplies(Request, "2xx")
  BY <1>1, <1>2, <1>3, AsHandlerReplies DEF Book, Money
<1>5. QED
  BY <1>4, ServeIsStep DEF W!Serve

(* Paywall's settler takes the money once, and its billing endpoint hears  *)
(* of a key once: what comes again is none of its business.                *)
LEMMA TakeUpIsStep ==
  ASSUME ClientInv, NEW c \in copies, TakeUp(c)
  PROVE  W!Next \/ UNCHANGED W!vars
<1>1. /\ UNCHANGED <<rail, call, phase, posts, outcome, posts["settle"]>>
      /\ executed' = (executed \/ c.call = "settle")
      /\ heard' = IF c.call = "webhook" THEN heard \cup {c.body} ELSE heard
  BY DEF TakeUp, clientVars
<1>2. UNCHANGED <<PaywallPc, Upstream, Receipt, PaywallReply, PaywallRow, Posted, SettleCall>>
  BY <1>1 DEF PaywallPc, Upstream, Receipt, PaywallReply, PaywallRow, Posted, Settling,
     SettleCall, Tx
<1>3. UNCHANGED <<PaywallPc, Before, Book, Posted>>
  BY <1>1, <1>2 DEF Before, Book
<1>4. CASE c.call = "settle" /\ ~ executed
  <2>1. posts["settle"] > 0 /\ call = "settle"
    BY <1>4 DEF ClientInv, ClientTyped, LoopInv, MoneyInv, ClientCalls
  <2>2. Posted = {SettleCall} /\ Charges' = {SettleCall} /\ UNCHANGED Events
    BY <1>1, <1>2, <1>4, <2>1 DEF Posted, Charges, Events, Settling
  <2>3. \E d \in Posted : W!SettlerExecutes(d)
    BY <1>3, <1>4, <2>2, AsSettlerExecutes
  <2>4. QED
    BY <2>3 DEF W!Next, Posted
<1>5. CASE c.call = "webhook" /\ heard = {}
  <2>1. call = "webhook" /\ posts["settle"] > 0
    BY <1>5 DEF ClientInv, EventInv, MoneyInv
  <2>2. Receipt # NoTx
    BY <2>1, ClientAssumption DEF Receipt, Tx
  <2>3. Events' = {Key} /\ Events \subseteq {Key}
    BY <1>1, <1>5 DEF Events
  <2>4. UNCHANGED Charges
    BY <1>1, <1>2, <1>5 DEF Charges, ClientInv, ClientTyped
  <2>5. W!BillingHears(Request)
    BY <1>3, <2>1, <2>2, <2>3, <2>4, AsBillingHears
  <2>6. QED
    BY <2>5 DEF W!Next
<1>6. CASE ~ (c.call = "settle" /\ ~ executed) /\ ~ (c.call = "webhook" /\ heard = {})
  <2>1. executed' = executed /\ (heard' = {} <=> heard = {})
    BY <1>1, <1>6 DEF ClientInv, ClientTyped
  <2>2. UNCHANGED <<Charges, Events>>
    BY <1>2, <2>1 DEF Charges, Events
  <2>3. QED
    BY <1>3, <2>2, QuietStep DEF Money
<1>7. QED
  BY <1>4, <1>5, <1>6

LEMMA StillQuiet ==
  ASSUME UNCHANGED <<rail, call, posts, outcome, executed, heard>>,
         phase' = phase \/ (phase = "waiting" /\ phase' = "reading")
  PROVE  UNCHANGED W!vars
<1>1. UNCHANGED <<PaywallPc, Upstream, Receipt, PaywallReply, PaywallRow, Posted, Charges,
                  Events, posts["settle"]>>
  BY DEF PaywallPc, Upstream, Receipt, PaywallReply, PaywallRow, Posted, Settling,
     SettleCall, Charges, Events, Tx
<1>2. QED
  BY <1>1, QuietStep DEF Before, Book, Money

LEMMA StepIsStep ==
  ASSUME ClientInv, [Next]_vars
  PROVE  [W!Next]_(W!vars)
<1>1. CASE AttemptFails \/ BodyFails \/ Read \/ Delivered
  BY <1>1, StepGoes, GoesIsStep DEF ClientInv
<1>2. ASSUME NEW a \in Answers, Respond(a)
      PROVE  UNCHANGED W!vars
  BY <1>2, StillQuiet DEF Respond, serverVars
<1>3. CASE UNCHANGED vars
  BY <1>3, StillQuiet DEF vars, clientVars, serverVars
<1>4. QED
  BY <1>1, <1>2, <1>3, PostIsStep, HandlerIsStep, TakeUpIsStep DEF Next

(* What the clients and the servers of one payment do is what Paywall      *)
(* provides for: no order of timeouts, retries, late executions and        *)
(* malformed answers shows it anything else, for any number of retries.    *)
THEOREM ClientRefinement == Spec => ImplementsPaywall
  BY ClientInvariant, StepIsStep, PTL DEF Spec, ImplementsPaywall
=============================================================================
