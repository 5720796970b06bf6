--------------------------- MODULE SettlerClient ---------------------------
(***************************************************************************)
(* What one paid request puts on the network: the verify and the settle    *)
(* call of settler/facilitator.ts or settler/visa.ts, then the webhook of  *)
(* webhook/settlement.ts.  Each is a loop of POSTs, under a timer that     *)
(* stops when the headers of an answer arrive, with sleeps between them.   *)
(*                                                                         *)
(* Paywall takes each settle call to be answered or given up on, some time *)
(* after it was posted.  Here the POSTs, their timer, the reading of the   *)
(* answer and the server's own steps are apart, and a server may take up a *)
(* POST that the client has given up.                                      *)
(***************************************************************************)
EXTENDS Naturals, FiniteSets

CONSTANTS
  Request, Key, Auth, \* the request, its key and the payment it presents
  NoTx,               \* no transaction
  MaxRetries          \* maxRetries of each client

ASSUME ClientAssumption ==
  MaxRetries \in Nat /\ Auth # Key /\ NoTx \notin {Key, Auth}

VARIABLES
  rail,      \* the rail of the payment
  call,      \* the call being made
  phase,     \* where its loop is
  posts,     \* POSTs made of each call
  body,      \* what the current call sends: its settledAt, for the webhook
  copies,    \* POSTs that a server may still take up
  answer,    \* status and body of the answer being read
  outcome,   \* how the last call ended
  executed,  \* has the settler taken the money?
  heard,     \* bodies the billing endpoint has received
  clock      \* sleeps so far: each is at least half a second

clientVars == <<rail, call, phase, posts, body, answer, outcome, clock>>
serverVars == <<executed, heard>>
vars == <<clientVars, copies, serverVars>>

ClientCalls == {"verify", "settle", "webhook"}

(* "ready": about to POST.  "reading": the headers are there, the timer is *)
(* cleared.  "sleeping": the backoff before the next POST.                 *)
Phases == {"ready", "waiting", "reading", "sleeping", "done"}

(* "yes" and "no" are success (isValid) true and false.  "other" is JSON   *)
(* of another shape or an empty body, "junk" is no JSON.                   *)
Answers == [status : {"2xx", "4xx", "5xx"}, body : {"yes", "no", "other", "junk"}]

NoAnswer == [status |-> "none", body |-> "none"]

Outcomes == {"none", "ok", "402", "502", "error"}

Tx == IF rail = "visa" THEN Key ELSE Auth

TypeOK ==
  /\ rail \in {"x402", "visa"}
  /\ call \in ClientCalls
  /\ phase \in Phases
  /\ posts \in [ClientCalls -> 0 .. MaxRetries + 1]
  /\ body \in 0 .. 3 * MaxRetries
  /\ copies \subseteq [call : ClientCalls, n : 1 .. MaxRetries + 1, body : Nat]
  /\ answer \in Answers \cup {NoAnswer}
  /\ outcome \in Outcomes
  /\ executed \in BOOLEAN
  /\ heard \subseteq Nat
  /\ clock \in 0 .. 3 * MaxRetries

(* The key is claimed; the client of the rail is asked to verify.          *)
Init ==
  /\ rail \in {"x402", "visa"}
  /\ call = "verify" /\ phase = "ready"
  /\ posts = [c \in ClientCalls |-> 0]
  /\ body = 0 /\ copies = {}
  /\ answer = NoAnswer /\ outcome = "none"
  /\ executed = FALSE /\ heard = {} /\ clock = 0

-----------------------------------------------------------------------------
(* The loop.                                                               *)

CurrentPost == [call |-> call, n |-> posts[call], body |-> body]

(* Mutant: the body is built for every POST, with the time of the POST.    *)
PostRebuilt ==
  /\ phase \in {"ready", "sleeping"}
  /\ phase' = "waiting"
  /\ posts' = [posts EXCEPT ![call] = @ + 1]
  /\ clock' = IF phase = "sleeping" THEN clock + 1 ELSE clock
  /\ body' = clock'
  /\ copies' = copies \cup {[call |-> call, n |-> posts'[call], body |-> body']}
  /\ UNCHANGED <<rail, call, answer, outcome, serverVars>>

(* postJsonOnce, postSignedOnce, postOnce: the body is that of the call.   *)
Post ==
  /\ phase \in {"ready", "sleeping"}
  /\ phase' = "waiting"
  /\ posts' = [posts EXCEPT ![call] = @ + 1]
  /\ clock' = IF phase = "sleeping" THEN clock + 1 ELSE clock
  /\ copies' = copies \cup {[call |-> call, n |-> posts'[call], body |-> body]}
  /\ UNCHANGED <<rail, call, body, answer, outcome, serverVars>>

(* The call is over.  An accepted settlement is recorded and the webhook's *)
(* payload built; how the delivery ends is logged only.                    *)
End(o) ==
  /\ outcome' = IF call = "webhook" THEN "ok" ELSE o
  /\ IF call = "settle" /\ o = "ok"
     THEN call' = "webhook" /\ phase' = "ready" /\ body' = clock
     ELSE phase' = "done" /\ UNCHANGED <<call, body>>

(* Mutant: attempt <= maxRetries, one POST too many.                       *)
MayRetryOnceMore == posts[call] <= MaxRetries + 1

(* attempt < maxRetries, attempts being counted from 0                     *)
MayRetry == posts[call] <= MaxRetries

(* The clients' own errors know whether they are; "body", the text of an   *)
(* answer cannot be read, is none of them.                                 *)
Retryable(e) == e \in {"timeout", "transport", "5xx"}

(* The catch block of the loop; the callers know the clients' errors only. *)
Fails(e) ==
  \/ /\ Retryable(e) /\ MayRetry
     /\ phase' = "sleeping" /\ UNCHANGED <<call, body, outcome>>
  \/ /\ ~ (Retryable(e) /\ MayRetry)
     /\ End(IF e = "body" THEN "error" ELSE "502")

(* Mutant: without the AbortController a POST fails only while the server  *)
(* has not taken it up.                                                    *)
AttemptFailsUntaken ==
  /\ phase = "waiting"
  /\ CurrentPost \in copies
  /\ Fails("transport")
  /\ UNCHANGED <<rail, posts, copies, answer, clock, serverVars>>

(* The fetch throws: no connection, or the timer aborts it.                *)
AttemptFails ==
  /\ phase = "waiting"
  /\ \E e \in {"timeout", "transport"} : Fails(e)
  /\ UNCHANGED <<rail, posts, copies, answer, clock, serverVars>>

(* The reading of the body throws.                                         *)
BodyFails ==
  /\ phase = "reading" /\ call # "webhook"
  /\ Fails("body")
  /\ UNCHANGED <<rail, posts, copies, answer, clock, serverVars>>

(* parseSettlementResponse throws a HeaderDecodeError, which the callers   *)
(* do not know; the other parsers throw a transport error.  Both are       *)
(* thrown outside of the loop.                                             *)
Malformed == IF call = "settle" /\ rail = "x402" THEN "error" ELSE "502"

(* Mutant: settlement.success is not looked at.                            *)
ParsedAsSuccess(b) == IF b \in {"yes", "no"} THEN "ok" ELSE Malformed

(* parseVerifyResponse, parseSettlementResponse, parseVisaSettle           *)
Parsed(b) ==
  CASE b = "yes" -> "ok"
    [] b = "no"  -> "402"
    [] OTHER     -> Malformed

(* The answer is read, the body before the status: an error page that is   *)
(* no JSON is a transport error, whatever its status.                      *)
Read ==
  /\ phase = "reading" /\ call # "webhook"
  /\ \/ answer.body = "junk" /\ Fails("transport")
     \/ answer.body # "junk" /\ answer.status # "2xx" /\ Fails(answer.status)
     \/ answer.body # "junk" /\ answer.status = "2xx" /\ End(Parsed(answer.body))
  /\ answer' = NoAnswer
  /\ UNCHANGED <<rail, posts, copies, clock, serverVars>>

(* The webhook's client looks at the status only.                          *)
Delivered ==
  /\ phase = "reading" /\ call = "webhook"
  /\ IF answer.status = "2xx" THEN End("ok") ELSE Fails(answer.status)
  /\ answer' = NoAnswer
  /\ UNCHANGED <<rail, posts, copies, clock, serverVars>>

(* The payment is valid: the handler runs, and replies 2xx.                *)
HandlerReplies ==
  /\ call = "verify" /\ phase = "done" /\ outcome = "ok"
  /\ call' = "settle" /\ phase' = "ready" /\ outcome' = "none"
  /\ UNCHANGED <<rail, posts, body, copies, answer, clock, serverVars>>

-----------------------------------------------------------------------------
(* The servers.                                                            *)

(* The settler settles, or the billing endpoint records, what it was sent, *)
(* whether the client still waits for it or not; a copy may come twice.    *)
TakeUp(c) ==
  /\ executed' = (executed \/ c.call = "settle")
  /\ heard' = IF c.call = "webhook" THEN heard \cup {c.body} ELSE heard
  /\ copies' \in {copies, copies \ {c}}
  /\ UNCHANGED clientVars

(* A server answers the POST under way, and says of a settlement it has    *)
(* made, now or for an earlier POST, that it is successful.                *)
Respond(a) ==
  /\ phase = "waiting"
  /\ a.body = "yes" /\ call = "settle" => executed
  /\ phase' = "reading" /\ answer' = a
  /\ UNCHANGED <<rail, call, posts, body, outcome, clock, copies, serverVars>>

Next ==
  \/ Post
  \/ AttemptFails
  \/ BodyFails
  \/ Read
  \/ Delivered
  \/ HandlerReplies
  \/ \E c \in copies : TakeUp(c)
  \/ \E a \in Answers : Respond(a)

(* The client's own timers fire, the sleep's and the AbortController's, and *)
(* a status that has come is looked at.  Nothing ends the body of an answer *)
(* whose headers are there: the timer is cleared by then, and Node's fetch  *)
(* gives up on silence only, not on a body that goes on and on.             *)
Spec ==
  /\ Init /\ [][Next]_vars
  /\ WF_vars(Post) /\ WF_vars(AttemptFails) /\ WF_vars(Delivered)

-----------------------------------------------------------------------------
(* `POSTs an HMAC-signed settlement.succeeded event': the POSTs of the     *)
(* webhook, however many are retried, delayed or doubled, are one event.   *)
OneEventPerSettlement == Cardinality(heard) <= 1

(* Every call ends, or waits for ever for the rest of one answer: retries, *)
(* lost POSTs, servers that never answer and late answers do not keep the  *)
(* request.  The webhook's call ends in any case.                          *)
CallEnds ==
  \A c \in ClientCalls :
    \/ call = c /\ phase # "done" ~> call # c \/ phase = "done"
    \/ c # "webhook" /\ <>[](call = c /\ phase = "reading")

(* The paywall's view of the request.                                      *)

Settling == call = "settle"

PaywallPc ==
  CASE call = "verify" /\ phase # "done"                   -> "claimed"
    [] Settling /\ phase = "done" /\ outcome = "error"      -> "rerun"
    [] call = "verify" /\ phase = "done" /\ outcome = "ok" -> "handling"
    [] Settling /\ phase = "ready"                         -> "onSend"
    [] Settling /\ phase \in {"waiting", "reading"}        -> "awaiting"
    [] Settling /\ phase = "sleeping"                      -> "retrying"
    [] call = "webhook" /\ phase # "done"                  -> "notifying"
    [] OTHER                                               -> "done"

PaywallReply ==
  IF PaywallPc # "done"    THEN "none"
  ELSE IF call = "webhook" THEN "paid" ELSE outcome

PaywallRow ==
  [status  |-> IF call = "webhook" THEN "settled"
               ELSE IF PaywallPc \in {"done", "rerun"} THEN "failed" ELSE "pending",
   tx      |-> IF call = "webhook" THEN Tx ELSE NoTx,
   created |-> 0,
   updated |-> 0]

SettleCall == [key |-> Key, token |-> Tx]

One(value) == [r \in {Request} |-> value]

W == INSTANCE Paywall WITH
  Reqs <- {Request}, Proc <- One("http"), Keys <- {Key}, Auths <- {Auth},
  Offers <- [k \in {Key} |-> [rail : {"x402", "visa"}, auth : {Auth}]],
  Price <- 1, MaxDaily <- 1, Window <- 1, Rolling <- FALSE,
  Lossy <- {Key}, MaxTime <- 0, MaxCrashes <- 0, MaxInFlight <- 1,
  pc       <- One(PaywallPc),
  key      <- One(Key),
  offer    <- One([rail |-> rail, auth |-> Auth]),
  upstream <- One(IF call = "verify" THEN "none" ELSE "2xx"),
  attempts <- One(posts["settle"]),
  receipt  <- One(IF call = "webhook" THEN Tx ELSE NoTx),
  reply    <- One(PaywallReply),
  ledger   <- [k \in {Key} |-> PaywallRow],
  posted   <- IF Settling /\ posts["settle"] > 0 THEN {SettleCall} ELSE {},
  charges  <- IF executed THEN {SettleCall} ELSE {},
  events   <- IF heard # {} THEN {Key} ELSE {},
  now      <- 0,
  crashes  <- 0,
  freed    <- {}

(* Every step of the clients and of their servers is one that Paywall      *)
(* takes for a key whose answers may be lost, or none of its business: no  *)
(* order of timeouts, retries, late executions and malformed answers shows *)
(* the paywall a settle call it does not provide for.                      *)
ImplementsPaywall == [][W!Next]_(W!vars)
=============================================================================
