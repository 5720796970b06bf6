------------------------------ MODULE Paywall ------------------------------
(***************************************************************************)
(* The HTTP paywall of packages/paymcp/src/middleware/paywall.ts: any      *)
(* number of requests, each running the preHandler hook, the route's       *)
(* handler and the onSend hook, over one ledger and one external settler   *)
(* (the x402 facilitator or the Visa gateway).                             *)
(*                                                                         *)
(* A step of the model is the code between two awaits on the network, and  *)
(* at most one transaction on the ledger, a file that several processes    *)
(* may share: the events of the requests interleave at every such point,   *)
(* the settler may execute what it was asked late, or lose the answer, and *)
(* a process may stop and restart with nothing left but the ledger.        *)
(***************************************************************************)
EXTENDS PaymentLedger

CONSTANTS
  Reqs,         \* the HTTP requests; a client's retry is another request
  Proc,         \* Proc[r]: the process that serves request r
  Keys,         \* idempotency keys
  Auths,        \* signed payment authorizations, or Visa credentials
  Offers,       \* Offers[k]: the payments clients present under key k
  Price,        \* price of the operation, in atomic units
  MaxDaily,     \* maxDailyAtomic of the operation
  Window,       \* length of the budget window, in ticks of the clock
  Rolling,      \* window: rolling_24h (TRUE) or calendar_day_utc (FALSE)
  MaxRetries,   \* maxRetries of the settler's client
  Lossy,        \* keys whose settle calls may be executed and not answered
  MaxTime,      \* bound: the clock stops here
  MaxCrashes,   \* bound: restarts of the process
  MaxInFlight   \* bound: requests served at the same time

(* A payment as the client presents it, on the rail that                   *)
(* resolveSettlementRail picks for the request.                            *)
Payment == [rail : {"x402", "visa"}, auth : Auths]

AllOffers == UNION {Offers[k] : k \in Keys}

(* What a settler spends at most once.  The facilitator is sent the        *)
(* payload alone, whose authorization holds a nonce; the Visa gateway is   *)
(* sent the idempotency key with the credential.                           *)
Token(k, o) == IF o.rail = "visa" THEN k ELSE o.auth

Tokens == Keys \cup Auths

ASSUME ConstantsAssumption ==
  /\ Offers \in [Keys -> SUBSET Payment]
  /\ Keys # {} /\ AllOffers # {}
  /\ NoTx \notin Tokens
  /\ Price \in Nat /\ MaxDaily \in Nat
  /\ Window \in Nat \ {0} /\ Rolling \in BOOLEAN
  /\ MaxRetries \in Nat /\ Lossy \subseteq Keys
  /\ MaxTime \in Nat /\ MaxCrashes \in Nat /\ MaxInFlight \in Nat \ {0}

VARIABLES
  (* The process: one entry per request, lost when it stops.               *)
  pc,         \* where the request is
  key,        \* its Idempotency-Key, given or derived from the signature
  offer,      \* the payment it presents
  upstream,   \* the handler's reply: "none", "2xx" or "error"
  attempts,   \* POSTs of the settle call made so far
  receipt,    \* the settlement its PAYMENT-RESPONSE header names
  reply,      \* what the client was answered
  (* What survives the process.                                            *)
  ledger,     \* the row of every key
  posted,     \* settle calls the settler holds and has not executed
  charges,    \* settle calls the settler has executed
  events,     \* settlement webhooks the billing endpoint received
  now,        \* the wall clock
  crashes,    \* restarts so far
  freed       \* history: keys whose pending row a rerun has overwritten

reqVars == <<pc, key, offer, upstream, attempts, receipt, reply>>
extVars == <<posted, charges, events>>
envVars == <<now, crashes, freed>>
vars == <<reqVars, ledger, extVars, envVars>>

(* "hook" .. "claimed" are points of the preHandler hook, "handling" is    *)
(* the route's handler, "onSend" .. "notifying" are points of the onSend   *)
(* hook.  A request is "retrying" while postJson sleeps before the next    *)
(* POST, "awaiting" while one is under way, and at "rerun" when the hook   *)
(* has thrown and Fastify is about to run it again.                        *)
PCs == {"idle", "hook", "admitted", "claimed", "handling", "onSend",
        "retrying", "awaiting", "rerun", "notifying", "done"}

(* "paid": the handler's 2xx after this request settled.  "prior": the     *)
(* handler's reply, with the receipt of an earlier settlement.  "reset":   *)
(* the connection was lost with the process.                               *)
Replies == {"none", "refused", "429", "409", "402", "502", "error",
            "paid", "prior", "reset"}

Active(r) == pc[r] \notin {"idle", "done"}

(* The points from which a request writes the outcome of the key it has    *)
(* claimed: it owns the key's pending row.                                 *)
Owning(r) ==
  \/ pc[r] \in {"claimed", "retrying", "awaiting"}
  \/ pc[r] \in {"handling", "onSend"} /\ receipt[r] = NoTx

CutOff(r) == pc[r] = "done" /\ reply[r] = "reset"

Process(r) == {q \in Reqs : Proc[q] = Proc[r]}

(* q has come with the key of r to another process.                        *)
Contends(q, r) == Proc[q] # Proc[r] /\ key[q] = key[r] /\ pc[q] # "idle"

Call(r) == [key |-> key[r], token |-> Token(key[r], offer[r])]

Calls == [key : Keys, token : Tokens]

Spent(token) == \E c \in charges : c.token = token

TypeOK ==
  /\ pc \in [Reqs -> PCs]
  /\ key \in [Reqs -> Keys]
  /\ offer \in [Reqs -> AllOffers]
  /\ upstream \in [Reqs -> {"none", "2xx", "error"}]
  /\ attempts \in [Reqs -> Nat]
  /\ receipt \in [Reqs -> Tokens \cup {NoTx}]
  /\ reply \in [Reqs -> Replies]
  /\ ledger \in [Keys -> RowOf(Tokens)]
  /\ posted \subseteq Calls
  /\ charges \subseteq Calls
  /\ events \subseteq Keys
  /\ now \in Nat
  /\ crashes \in Nat
  /\ freed \subseteq Keys

(* The key and the payment of a request that has not arrived mean nothing. *)
Init ==
  /\ pc = [r \in Reqs |-> "idle"]
  /\ key = [r \in Reqs |-> CHOOSE k \in Keys : TRUE]
  /\ offer = [r \in Reqs |-> CHOOSE o \in AllOffers : TRUE]
  /\ upstream = [r \in Reqs |-> "none"]
  /\ attempts = [r \in Reqs |-> 0]
  /\ receipt = [r \in Reqs |-> NoTx]
  /\ reply = [r \in Reqs |-> "none"]
  /\ ledger = [k \in Keys |-> NoRow]
  /\ posted = {} /\ charges = {} /\ events = {}
  /\ now = 0 /\ crashes = 0 /\ freed = {}

-----------------------------------------------------------------------------
(* Small steps the handlers share.                                         *)

Goto(r, label) == pc' = [pc EXCEPT ![r] = label]

(* The request is over: its client gets rep.                               *)
Finish(r, rep) ==
  /\ Goto(r, "done")
  /\ reply' = [reply EXCEPT ![r] = rep]

(* await ledger.recordSettlement(...) for the request's key.               *)
Record(r, status, tx) ==
  ledger' = [ledger EXCEPT ![key[r]] = RecordSettlement(@, status, tx, now)]

(* windowStartIso *)
WindowStart(t) ==
  IF Rolling
  THEN IF t >= Window THEN t - Window ELSE 0
  ELSE (t \div Window) * Window

(* ledger.sumSettledAtomic for the operation, all rows having its price.   *)
CountedSpend == Price * Cardinality(CountedKeys(ledger, WindowStart(now)))

-----------------------------------------------------------------------------
(* The preHandler hook.                                                    *)

Arrive(r, k, o) ==
  /\ pc[r] = "idle"
  /\ Cardinality({q \in Reqs : Active(q)}) < MaxInFlight
  /\ Goto(r, "hook")
  /\ key' = [key EXCEPT ![r] = k]
  /\ offer' = [offer EXCEPT ![r] = o]
  /\ UNCHANGED <<upstream, attempts, receipt, reply, ledger, extVars, envVars>>

(* The early returns that touch no state: 403 off the allowlist (before    *)
(* the budget check), then 429 rate limited, 503 no rail, 402 or 400 for a *)
(* missing, undecodable or mismatched payment header.                      *)
Refuse(r) ==
  /\ pc[r] \in {"hook", "admitted"}
  /\ Finish(r, "refused")
  /\ UNCHANGED <<key, offer, upstream, attempts, receipt, ledger, extVars, envVars>>

(* Mutant: the check forgets the price of the request itself.              *)
CheckBudgetSpentOnly(r) ==
  /\ pc[r] = "hook"
  /\ IF CountedSpend > MaxDaily
     THEN Finish(r, "429")
     ELSE Goto(r, "admitted") /\ UNCHANGED reply
  /\ UNCHANGED <<key, offer, upstream, attempts, receipt, ledger, extVars, envVars>>

(* checkBudget: settled spend in the window plus the price against the max *)
CheckBudget(r) ==
  /\ pc[r] = "hook"
  /\ IF CountedSpend + Price > MaxDaily
     THEN Finish(r, "429")
     ELSE Goto(r, "admitted") /\ UNCHANGED reply
  /\ UNCHANGED <<key, offer, upstream, attempts, receipt, ledger, extVars, envVars>>

(* ledger.beginPending and the three ways on.  The settled row's           *)
(* transaction becomes the receipt (priorSettlement) without verifying the *)
(* payment presented.                                                      *)
Claim(r) ==
  /\ pc[r] = "admitted"
  /\ LET row  == ledger[key[r]]
         kind == ClaimKind(row)
     IN  /\ ledger' = [ledger EXCEPT ![key[r]] = BeginPending(@, now)]
         /\ \/ /\ kind = "claimed"
               /\ Goto(r, "claimed")
               /\ UNCHANGED <<receipt, reply>>
            \/ /\ kind = "already_settled"
               /\ Goto(r, "handling")
               /\ receipt' = [receipt EXCEPT ![r] = row.tx]
               /\ UNCHANGED reply
            \/ /\ kind = "in_flight"
               /\ Finish(r, "409")
               /\ UNCHANGED receipt
  /\ UNCHANGED <<key, offer, upstream, attempts, extVars, envVars>>

(* settler.verify answers that the payment is valid: the request is left   *)
(* with its pending payment, and the handler runs.                         *)
VerifyAccepts(r) ==
  /\ pc[r] = "claimed"
  /\ Goto(r, "handling")
  /\ UNCHANGED <<key, offer, upstream, attempts, receipt, reply, ledger, extVars, envVars>>

(* Mutant: the hook answers without giving the claim back.                 *)
VerifyFailsSilently(r) ==
  /\ pc[r] = "claimed"
  /\ \E rep \in {"402", "502", "error"} : Finish(r, rep)
  /\ UNCHANGED <<key, offer, upstream, attempts, receipt, ledger, extVars, envVars>>

(* settler.verify answers "invalid", or throws after its own retries.      *)
VerifyFails(r) ==
  /\ pc[r] = "claimed"
  /\ Record(r, "failed", NoTx)
  /\ \E rep \in {"402", "502", "error"} : Finish(r, rep)
  /\ UNCHANGED <<key, offer, upstream, attempts, receipt, extVars, envVars>>

(* The route's own handler replies, or throws (a 500).                     *)
HandlerReplies(r, status) ==
  /\ pc[r] = "handling"
  /\ upstream' = [upstream EXCEPT ![r] = status]
  /\ Goto(r, "onSend")
  /\ UNCHANGED <<key, offer, attempts, receipt, reply, ledger, extVars, envVars>>

-----------------------------------------------------------------------------
(* The onSend hook, settleOnSuccess.                                       *)

(* Mutant: only a 2xx reply gets the prior receipt.                        *)
SendPriorIf2xx(r) ==
  /\ pc[r] = "onSend"
  /\ receipt[r] # NoTx
  /\ upstream[r] = "2xx"
  /\ Finish(r, "prior")
  /\ UNCHANGED <<key, offer, upstream, attempts, receipt, ledger, extVars, envVars>>

(* The key was settled before: the reply goes out, nothing is settled.     *)
SendPrior(r) ==
  /\ pc[r] = "onSend"
  /\ receipt[r] # NoTx
  /\ Finish(r, "prior")
  /\ UNCHANGED <<key, offer, upstream, attempts, receipt, ledger, extVars, envVars>>

(* The handler did not reply 2xx: the claim is recorded as failed.         *)
ReleaseOnError(r) ==
  /\ pc[r] = "onSend"
  /\ receipt[r] = NoTx
  /\ upstream[r] # "2xx"
  /\ Record(r, "failed", NoTx)
  /\ Finish(r, "error")
  /\ UNCHANGED <<key, offer, upstream, attempts, receipt, extVars, envVars>>

(* Mutant: the handler's status is not looked at.                          *)
ReadyToSettleAnyway(r) ==
  \/ pc[r] = "onSend" /\ receipt[r] = NoTx
  \/ pc[r] = "retrying"

(* One POST of the settle call, the first or a retry.                      *)
ReadyToSettle(r) ==
  \/ pc[r] = "onSend" /\ receipt[r] = NoTx /\ upstream[r] = "2xx"
  \/ pc[r] = "retrying"

PostSettle(r) ==
  /\ ReadyToSettle(r)
  /\ attempts' = [attempts EXCEPT ![r] = @ + 1]
  /\ posted' = posted \cup {Call(r)}
  /\ Goto(r, "awaiting")
  /\ UNCHANGED <<key, offer, upstream, receipt, reply, ledger, charges, events, envVars>>

(* What a call leaves with the settler once it has acted on it, or once    *)
(* the client has its answer or has given up on it: nothing, or, when its  *)
(* messages can outlive the client's timeout, a copy that is still to be   *)
(* handled.                                                                *)
Withdrawn(c) ==
  \/ posted' = posted \ {c}
  \/ c.key \in Lossy /\ posted' = posted

(* The settler executes a call it holds, unless what it would spend is     *)
(* spent: an x402 authorization's nonce is used once on chain, and the     *)
(* Visa gateway is given the idempotency key.                              *)
SettlerExecutes(c) ==
  /\ c \in posted
  /\ ~ Spent(c.token)
  /\ charges' = charges \cup {c}
  /\ Withdrawn(c)
  /\ UNCHANGED <<reqVars, ledger, events, envVars>>

(* settlement.success: the key becomes settled; the webhook is next.  The  *)
(* settler answers success for what it has executed, now or for an earlier *)
(* copy of the same payment.                                               *)
SettleSucceeds(r) ==
  /\ pc[r] = "awaiting"
  /\ Spent(Call(r).token)
  /\ posted' = posted \ {Call(r)}
  /\ Record(r, "settled", Call(r).token)
  /\ receipt' = [receipt EXCEPT ![r] = Call(r).token]
  /\ Goto(r, "notifying")
  /\ UNCHANGED <<key, offer, upstream, attempts, reply, charges, events, envVars>>

(* Mutant: the webhook fires although the settlement failed.               *)
SettleRefusedNotifies(r) ==
  /\ pc[r] = "awaiting"
  /\ Call(r) \in posted
  /\ Withdrawn(Call(r))
  /\ \E tx \in {NoTx, Call(r).token} : Record(r, "failed", tx)
  /\ Finish(r, "402")
  /\ events' = events \cup {key[r]}
  /\ UNCHANGED <<key, offer, upstream, attempts, receipt, charges, envVars>>

(* settlement.success = false, for a call the settler has not executed: it *)
(* may be a retry of a payment that it has executed.  The failed row keeps *)
(* whatever transaction the answer names.                                  *)
SettleRefused(r) ==
  /\ pc[r] = "awaiting"
  /\ Call(r) \in posted
  /\ Withdrawn(Call(r))
  /\ \E tx \in {NoTx, Call(r).token} : Record(r, "failed", tx)
  /\ Finish(r, "402")
  /\ UNCHANGED <<key, offer, upstream, attempts, receipt, charges, events, envVars>>

(* A POST fails: transport error, timeout, 5xx, an unreadable or a 4xx     *)
(* answer.  Unless answers can be lost, the settler has then not acted.    *)
AttemptFails(r) ==
  /\ pc[r] = "awaiting"
  /\ key[r] \in Lossy \/ Call(r) \in posted
  /\ Withdrawn(Call(r))

(* A retryable error with retries left: sleep, then POST again.            *)
SettleRetries(r) ==
  /\ AttemptFails(r)
  /\ attempts[r] <= MaxRetries
  /\ Goto(r, "retrying")
  /\ UNCHANGED <<key, offer, upstream, attempts, receipt, reply, ledger, charges, events, envVars>>

(* Mutant: a settle that throws is taken for one that succeeded.           *)
SettleThrowsAsSuccess(r) ==
  /\ AttemptFails(r)
  /\ Record(r, "settled", Call(r).token)
  /\ receipt' = [receipt EXCEPT ![r] = Call(r).token]
  /\ Goto(r, "notifying")
  /\ UNCHANGED <<key, offer, upstream, attempts, reply, charges, events, envVars>>

(* settle throws: `Release pending claim so the same Idempotency-Key can   *)
(* be retried', and a 502 for the errors of the client's own.              *)
SettleThrows(r) ==
  /\ AttemptFails(r)
  /\ Record(r, "failed", NoTx)
  /\ Finish(r, "502")
  /\ UNCHANGED <<key, offer, upstream, attempts, receipt, charges, events, envVars>>

(* Any other error is thrown again once the failure is recorded: the hook  *)
(* fails, ...                                                              *)
SettleRethrows(r) ==
  /\ AttemptFails(r)
  /\ Record(r, "failed", NoTx)
  /\ Goto(r, "rerun")
  /\ UNCHANGED <<key, offer, upstream, attempts, receipt, reply, charges, events, envVars>>

(* ... and Fastify runs it again on the 500 that it makes of the error,    *)
(* which is not 2xx: the failure is recorded a second time, over whatever  *)
(* the row has become, unless it is settled.                               *)
Rerun(r) ==
  /\ pc[r] = "rerun"
  /\ Record(r, "failed", NoTx)
  /\ freed' = freed \cup {k \in {key[r]} : ledger[k].status = "pending"}
  /\ Finish(r, "error")
  /\ UNCHANGED <<key, offer, upstream, attempts, receipt, extVars, now, crashes>>

(* webhook.notify returns, whether the event was delivered or not.         *)
Notify(r) ==
  /\ pc[r] = "notifying"
  /\ Finish(r, "paid")
  /\ UNCHANGED <<key, offer, upstream, attempts, receipt, ledger, extVars, envVars>>

(* The billing endpoint receives the event of a request that has settled   *)
(* its key: while the request waits for it, or later than that.            *)
BillingHears(r) ==
  /\ receipt[r] # NoTx
  /\ attempts[r] > 0
  /\ events' = events \cup {key[r]}
  /\ UNCHANGED <<reqVars, ledger, posted, charges, envVars>>

-----------------------------------------------------------------------------
(* The environment.                                                        *)

(* The requests of P are cut off where they are: nothing is recorded, and  *)
(* the settler keeps what was posted.                                      *)
Cut(P) ==
  /\ pc' = [r \in Reqs |-> IF r \in P THEN "done" ELSE pc[r]]
  /\ reply' = [r \in Reqs |-> IF r \in P THEN "reset" ELSE reply[r]]
  /\ UNCHANGED <<key, offer, upstream, attempts, receipt, ledger, extVars, now,
                 freed>>

(* The process that serves P stops and starts again: every open connection *)
(* is lost.  The ledger is a file or a database.                           *)
Crash(P) ==
  /\ crashes < MaxCrashes
  /\ \E r \in P : Active(r)
  /\ crashes' = crashes + 1
  /\ Cut({r \in P : Active(r)})

Tick ==
  /\ now < MaxTime
  /\ now' = now + 1
  /\ UNCHANGED <<reqVars, ledger, extVars, crashes, freed>>

(* What the process itself does for a request, once it has arrived.        *)
Serve(r) ==
  \/ Refuse(r)
  \/ CheckBudget(r)
  \/ Claim(r)
  \/ VerifyAccepts(r)
  \/ VerifyFails(r)
  \/ \E status \in {"2xx", "error"} : HandlerReplies(r, status)
  \/ SendPrior(r)
  \/ ReleaseOnError(r)
  \/ PostSettle(r)
  \/ SettleSucceeds(r)
  \/ SettleRefused(r)
  \/ SettleRetries(r)
  \/ SettleThrows(r)
  \/ SettleRethrows(r)
  \/ Rerun(r)
  \/ Notify(r)

(* Between the two runs of the hook lie no awaits on anything outside of   *)
(* the process: its other requests stand still, those of another do not.   *)
Turn(r) == \A q \in Process(r) : pc[q] = "rerun" => q = r

Next ==
  \/ \E r \in Reqs, k \in Keys : \E o \in Offers[k] : Turn(r) /\ Arrive(r, k, o)
  \/ \E r \in Reqs : Turn(r) /\ Serve(r)
  \/ \E c \in posted : SettlerExecutes(c)
  \/ \E r \in Reqs : BillingHears(r)
  \/ \E r \in Reqs : Crash(Process(r))
  \/ Tick

Spec == Init /\ [][Next]_vars

-----------------------------------------------------------------------------
(* Safety                                                                  *)

(* A key has at most one request between its claim and the outcome, and    *)
(* that request finds the row as it left it: pending.  This is what keeps  *)
(* two verify or settle calls for one key from ever running together, but  *)
(* for the keys that a rerun of the hook has freed.                        *)
ExclusiveOn(K) ==
  \A r \in Reqs : Owning(r) /\ key[r] \in K =>
    /\ ledger[key[r]].status = "pending"
    /\ \A q \in Reqs : Owning(q) /\ key[q] = key[r] => q = r

ExclusiveClaim == ExclusiveOn(Keys \ freed)

(* A pending row that no request owns is that of a request that was cut    *)
(* off: every way out of the two hooks, early return or exception, records *)
(* an outcome.                                                             *)
PendingHasOwner ==
  \A k \in Keys : ledger[k].status = "pending" =>
    \E r \in Reqs : key[r] = k /\ (Owning(r) \/ CutOff(r))

(* The ledger never claims money that was not taken: the transaction of a  *)
(* settled row is one the settler has executed, whatever was retried,      *)
(* refused, lost or answered late.                                         *)
SettledIsCharged ==
  \A k \in Keys : ledger[k].status = "settled" => Spent(ledger[k].tx)

(* Every PAYMENT-RESPONSE handed out for a key, by the request that        *)
(* settled it or by any replay, before or after a restart, is of a key     *)
(* that is settled, and names the transaction in its row: one key, one     *)
(* receipt, but for the keys that a rerun has freed.                       *)
ReceiptsAgreeOn(K) ==
  \A r \in Reqs : receipt[r] # NoTx =>
    /\ ledger[key[r]].status = "settled"
    /\ key[r] \in K => ledger[key[r]].tx = receipt[r]

ReceiptsAgree == ReceiptsAgreeOn(Keys \ freed)

(* `Settle only after 2xx', `failed upstream responses never settle': the  *)
(* settler never holds or executes a call that does not come from a        *)
(* request whose own handler replied 2xx.                                  *)
SettleOnlyAfter2xx ==
  \A c \in posted \cup charges :
    \E r \in Reqs : Call(r) = c /\ upstream[r] = "2xx" /\ attempts[r] > 0

(* `Failed settles, non-2xx handlers, and idempotent replays do not fire   *)
(* the webhook': the billing endpoint hears of settled keys only.          *)
WebhookOnlySettled ==
  \A k \in events : ledger[k].status = "settled"

(* `settle failures never succeed the request': a client that is served as *)
(* paid has been charged the payment it presented, under its key.          *)
PaidMeansCharged ==
  \A r \in Reqs : reply[r] = "paid" =>
    /\ receipt[r] = Call(r).token
    /\ Spent(receipt[r])

(* Only a settled key, or the request that has just settled it, has a      *)
(* receipt to show.                                                        *)
NoReceiptYet ==
  \A r \in Reqs :
    pc[r] \in {"idle", "hook", "admitted", "claimed", "retrying", "awaiting",
                "rerun"} =>
      receipt[r] = NoTx

ReceiptsCharged == \A r \in Reqs : receipt[r] # NoTx => Spent(receipt[r])

(* The inductive invariant of the claims: with ReceiptsAgree and           *)
(* SettledIsCharged, a request that replays an earlier receipt cannot be   *)
(* taken for the owner of its key.                                         *)
ClaimInvOn(K) ==
  /\ ExclusiveOn(K)
  /\ PendingHasOwner
  /\ NoReceiptYet
  /\ ReceiptsAgreeOn(K)
  /\ ReceiptsCharged
  /\ SettledIsCharged

ClaimInv == ClaimInvOn(Keys \ freed)

(* A rerun frees a key under another process only: a claim that the second *)
(* run of a hook finds, or has found, pending was not made by its own.     *)
RerunInv ==
  /\ \A r \in Reqs : pc[r] = "rerun" /\ ledger[key[r]].status = "pending" =>
       \E q \in Reqs : Contends(q, r)
  /\ \A k \in freed : \E q, r \in Reqs : key[r] = k /\ pc[r] # "idle" /\ Contends(q, r)

(* `Same key never double-charges'.                                        *)
OneChargePerKey ==
  \A c, d \in charges : c.key = d.key => c = d

(* ... which the code keeps for a key as long as no answer to its settle   *)
(* calls is lost and no rerun frees it: then a call is charged only while  *)
(* the key is pending or settled with it, through retries, restarts,       *)
(* payments signed again and whatever is lost for other keys.              *)
OneChargeOn(K) ==
  \A c, d \in charges : c.key = d.key /\ c.key \in K => c = d

OneChargeUnlessLost == OneChargeOn(Keys \ (Lossy \cup freed))

(* What a request has sent and got agrees with where it is, and each call  *)
(* the settler holds or has executed stems from one that was served.       *)
RequestInv(r) ==
  /\ pc[r] \in {"idle", "hook", "admitted", "claimed", "handling"} =>
       attempts[r] = 0 /\ reply[r] = "none"
  /\ pc[r] # "idle" => offer[r] \in Offers[key[r]]
  /\ pc[r] \in {"retrying", "awaiting", "rerun"} => upstream[r] = "2xx"
  /\ pc[r] = "notifying" \/ reply[r] = "paid" => receipt[r] = Call(r).token

CallInv ==
  /\ \A r \in Reqs : RequestInv(r)
  /\ SettleOnlyAfter2xx
  /\ WebhookOnlySettled

(* The request that owns the key of c, if any, is waiting for its answer.  *)
InHand(c) ==
  /\ ledger[c.key].status = "pending"
  /\ \A r \in Reqs : Owning(r) /\ key[r] = c.key =>
                       pc[r] = "awaiting" /\ Call(r) = c

(* The calls for a key whose answers are not lost and that is not freed:   *)
(* with the settler only while the request waits, or after a crash with    *)
(* the key stuck; executed, the key is settled with it or, until then, in  *)
(* hand.                                                                   *)
SettleInvOn(K) ==
  /\ \A c \in posted : c.key \in K => InHand(c)
  /\ \A c \in charges : c.key \in K =>
       \/ ledger[c.key].status = "settled" /\ ledger[c.key].tx = c.token
       \/ InHand(c)
  /\ \A c \in posted, d \in charges : c.key \in K => c.key # d.key
  /\ \A c, d \in posted : c.key \in K /\ c.key = d.key => c = d
  /\ OneChargeOn(K)

SettleInv == SettleInvOn(Keys \ (Lossy \cup freed))

(* The inductive invariant of the paywall, next to TypeOK.                 *)
IndInv == ClaimInv /\ RerunInv /\ CallInv /\ SettleInv

(* Action properties                                                       *)

(* A settled row is final: no later claim, failure or settlement changes   *)
(* it, in particular its transaction.                                      *)
SettledIsFinal ==
  [][\A k \in Keys : ledger[k].status = "settled" => ledger'[k] = ledger[k]]_vars

(* `Does not call the facilitator again' for a settled key, unless a rerun *)
(* has freed it.                                                           *)
NoSettleAfterSettled ==
  [][\A k \in Keys \ freed : ledger[k].status = "settled" =>
       \A c \in posted' : c.key = k => c \in posted]_vars

(* Budgets                                                                 *)

(* `Hard stop on settled spend'?  Requests that have passed the check      *)
(* together each settle: the spend that the budget counts overshoots the   *)
(* maximum, by at most one price for every request beyond the first.       *)
OvershootBounded == CountedSpend <= MaxDaily + Price * (MaxInFlight - 1)

(* The keys settled in the current window, by the time of the settlement.  *)
SettledInWindow ==
  {k \in Keys : /\ ledger[k].status = "settled"
                /\ ledger[k].updated >= WindowStart(now)}

(* `When spent + requested > max, the request fails with 429', spent being *)
(* the settled spend of the window: the check lets no request through over *)
(* the maximum.                                                            *)
AdmittedWithinMax ==
  [][\A r \in Reqs :
       pc[r] = "hook" /\ pc'[r] = "admitted" =>
         Price * Cardinality(SettledInWindow) + Price <= MaxDaily]_vars

(* Refinement: the paywall keeps the promise of a key's lease, until a     *)
(* rerun frees the key.                                                    *)

LeasePhase(row) ==
  CASE row.status = "settled" -> "settled"
    [] row.status = "pending" -> "held"
    [] OTHER                  -> "free"

KeyPhase ==
  [k \in Keys |-> IF k \in freed THEN "broken" ELSE LeasePhase(ledger[k])]

KeyHolders ==
  [k \in Keys |-> {r \in Reqs : Owning(r) /\ key[r] = k /\ k \notin freed}]

KeyTx ==
  [k \in Keys |-> IF ledger[k].status = "settled" /\ k \notin freed
                  THEN ledger[k].tx ELSE NoTx]

Lease == INSTANCE KeyLease WITH
  Txs     <- Tokens,
  phase   <- KeyPhase,
  holders <- KeyHolders,
  tx      <- KeyTx

(* Every step of the paywall is a step of the lease, or none of its        *)
(* business: claims are exclusive, only the holder gives a key back or     *)
(* settles it, only a crash loses it, and only a rerun breaks it.          *)
ImplementsLease == Lease!Spec

(* Liveness                                                                *)

(* `A request with this Idempotency-Key is already settling; retry after   *)
(* it completes': it completes.                                            *)
ClaimResolves ==
  \A k \in Keys : ledger[k].status = "pending" ~> ledger[k].status # "pending"

(* Every request that arrives is answered.                                 *)
RequestAnswered == \A r \in Reqs : Active(r) ~> ~ Active(r)
=============================================================================
