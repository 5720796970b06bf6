---------------------------- MODULE StoreInvoke ----------------------------
(***************************************************************************)
(* The credit path of packages/store: InvokeGateway.invoke over the buyers'*)
(* balances (ledger/balance.ts), the sellers' listings and payouts         *)
(* (listings/registry.ts, payout/queue.ts, payout/service.ts) and the      *)
(* funding of balances by Stripe (funding/stripe.ts).                      *)
(*                                                                         *)
(* Every step is one transaction of the store's SQLite file, or one event  *)
(* of the upstream or of the payout executor.  The server and the          *)
(* paymcp-store commands are processes of their own over the same file, so *)
(* the transactions of different workers interleave at every step.         *)
(***************************************************************************)
EXTENDS Integers, FiniteSets, Folds

CONSTANTS
  Reqs,         \* invocations; a client's retry is another one
  Flushes,      \* runs of flushPending (POST /v1/payouts/flush or the CLI)
  Keys,         \* idempotency keys, each with at most one spend_log row
  Buyers,
  Seeded,       \* Seeded[l]: the listing that the seed registered, if any
  Prices,       \* the prices and
  Addresses,    \* the payout addresses that sellers choose from
  Offers,       \* bound: what sellers write into a listing
  MaxEdits,     \* bound: changes of listings
  Fundings,     \* Fundings[f]: the buyer and the amount of checkout f
  Delayed,      \* the checkouts paid by a method that is not immediate
  BadUrls,      \* an invocation may have no upstream URL
  Lossy,        \* the executor may transfer and still report an error
  MaxCrashes    \* bound: crashes of the processes

Listings == DOMAIN Seeded
Workers == Reqs \cup Flushes

(* A listing, as far as invoke and the payouts read it.  "inactive" stands *)
(* for draft, paused and archived.                                         *)
Listing == [status : {"absent", "active", "inactive"},
            price  : Prices,
            payTo  : Addresses]

ASSUME StoreAssumption ==
  /\ Prices \subseteq Nat
  /\ Seeded \in [Listings -> Listing]
  /\ Offers \subseteq {row \in Listing : row.status # "absent"}
  /\ Delayed \subseteq DOMAIN Fundings
  /\ Fundings \in [DOMAIN Fundings -> [buyer : Buyers, amount : Nat]]
  /\ Reqs \cap Flushes = {}
  /\ Keys # {} /\ Buyers # {} /\ Listings # {}
  /\ \A S \in {Keys, Buyers, DOMAIN Fundings} : IsFiniteSet(S)
  /\ BadUrls \in BOOLEAN /\ Lossy \in BOOLEAN /\ {MaxCrashes, MaxEdits} \subseteq Nat

VARIABLES
  (* The processes.                                                        *)
  pc,        \* where each worker is
  key,       \* the key a request invokes with, or whose row a flush pays
  quote,     \* the listing as a request read it
  todo,      \* the rows of listPending a flush still has to pay
  (* The store's database.                                                 *)
  listing,   \* listings
  balance,   \* buyer_balances
  funded,    \* funding_events
  spend,     \* spend_log, the row of every key
  payout,    \* seller_payouts, the row of every key's spend
  (* Stripe, the chain, and the model's own counts.                        *)
  session,   \* the checkout sessions
  sent,      \* transfers of a payout row's amount, for every key's spend
  edits,
  crashes

procVars == <<pc, key, quote, todo>>
shopVars == <<listing, edits>>
fundVars == <<funded, session>>
vars == <<procVars, shopVars, fundVars, balance, spend, payout, sent, crashes>>

(* A request is "calling" its upstream between beginSpend and completeSpend*)
(* and "settled" before it has enqueued the payout.  A worker is "paying"  *)
(* while the executor runs, and "sent" once it has transferred.  A request *)
(* ends as "threw" when an exception leaves its spend as it is.            *)
PCs == {"idle", "calling", "settled", "paying", "sent", "flushing", "done", "threw"}

Running(w) == pc[w] \notin {"idle", "done", "threw"}

Row == [status : {"absent", "pending", "settled", "failed"},
        buyer  : Buyers,
        amount : Nat]

Payout == [status : {"none", "pending", "paid", "failed"},
           payTo  : Addresses,
           amount : Nat]

TypeOK ==
  /\ pc \in [Workers -> PCs]
  /\ key \in [Workers -> Keys]
  /\ quote \in [Reqs -> Listing]
  /\ todo \in [Flushes -> SUBSET [key : Keys, status : {"pending", "failed"}]]
  /\ listing \in [Listings -> Listing]
  /\ balance \in [Buyers -> Nat]
  /\ funded \subseteq DOMAIN Fundings
  /\ spend \in [Keys -> Row]
  /\ payout \in [Keys -> Payout]
  /\ session \in [DOMAIN Fundings -> {"none", "open", "unpaid", "paid"}]
  /\ sent \in [Keys -> Nat]
  /\ edits \in Nat
  /\ crashes \in Nat

Init ==
  /\ pc = [w \in Workers |-> "idle"]
  /\ key = [w \in Workers |-> CHOOSE k \in Keys : TRUE]
  /\ quote = [r \in Reqs |-> CHOOSE q \in Listing : TRUE]
  /\ todo = [w \in Flushes |-> {}]
  /\ listing = Seeded
  /\ balance = [b \in Buyers |-> 0]
  /\ funded = {}
  /\ spend = [k \in Keys |-> [status |-> "absent",
                              buyer  |-> CHOOSE b \in Buyers : TRUE,
                              amount |-> 0]]
  /\ payout = [k \in Keys |-> [status |-> "none",
                               payTo  |-> CHOOSE a \in Addresses : TRUE,
                               amount |-> 0]]
  /\ session = [f \in DOMAIN Fundings |-> "none"]
  /\ sent = [k \in Keys |-> 0]
  /\ edits = 0
  /\ crashes = 0

Goto(w, label) == pc' = [pc EXCEPT ![w] = label]

-----------------------------------------------------------------------------
(* Listings                                                                *)

Edit(l, row) ==
  /\ edits < MaxEdits
  /\ edits' = edits + 1
  /\ listing' = [listing EXCEPT ![l] = row]
  /\ UNCHANGED <<procVars, fundVars, balance, spend, payout, sent, crashes>>

(* create: the id is free, which it is again after a delete.               *)
CreateListing(l, row) ==
  /\ listing[l].status = "absent"
  /\ Edit(l, row)

(* update: a patch of price, payTo and status, whatever is under way.      *)
UpdateListing(l, row) ==
  /\ listing[l].status # "absent"
  /\ Edit(l, row)

DeleteListing(l) ==
  /\ listing[l].status # "absent"
  /\ Edit(l, [listing[l] EXCEPT !.status = "absent"])

-----------------------------------------------------------------------------
(* Funding                                                                 *)

CreateCheckoutSession(f) ==
  /\ session[f] = "none"
  /\ session' = [session EXCEPT ![f] = "open"]
  /\ UNCHANGED <<procVars, shopVars, funded, balance, spend, payout, sent, crashes>>

(* The buyer completes the checkout.  With a delayed payment method the    *)
(* session completes unpaid, and `checkout.session.completed' says so      *)
(* however often it is delivered.                                          *)
CompleteCheckout(f) ==
  /\ session[f] = "open"
  /\ session' = [session EXCEPT ![f] = IF f \in Delayed THEN "unpaid" ELSE "paid"]
  /\ UNCHANGED <<procVars, shopVars, funded, balance, spend, payout, sent, crashes>>

(* parseVerifiedWebhook: the event that credits.  Stripe signed it, its    *)
(* session is completed and paid.  Any other is acknowledged and ignored.  *)
Creditable(f) == session[f] = "paid"

(* creditFromFunding, for an event that may be delivered again.            *)
CreditFromFunding(f) ==
  /\ f \notin funded
  /\ funded' = funded \cup {f}
  /\ balance' = [balance EXCEPT ![Fundings[f].buyer] = @ + Fundings[f].amount]
  /\ UNCHANGED <<procVars, shopVars, session, spend, payout, sent, crashes>>

(* POST /v1/webhooks/stripe                                                *)
StripeWebhook(f) == Creditable(f) /\ CreditFromFunding(f)

-----------------------------------------------------------------------------
(* Invocations                                                             *)

(* Mutants of Hold: the balance is not checked; a failed row that is       *)
(* claimed again holds nothing.                                            *)
HoldUnchecked(k, b, amount) ==
  /\ balance' = [balance EXCEPT ![b] = @ - amount]
  /\ spend' = [spend EXCEPT ![k] =
                 [status |-> "pending", buyer |-> b, amount |-> amount]]

HoldFirstOnly(k, b, amount) ==
  /\ balance[b] >= amount
  /\ balance' = IF spend[k].status = "failed" THEN balance
                ELSE [balance EXCEPT ![b] = @ - amount]
  /\ spend' = [spend EXCEPT ![k] =
                 [status |-> "pending", buyer |-> b, amount |-> amount]]

(* beginSpend with a free key: a new row, or a failed one claimed again    *)
(* for the buyer and the price of this request; the amount is held.        *)
Hold(k, b, amount) ==
  /\ balance[b] >= amount
  /\ balance' = [balance EXCEPT ![b] = @ - amount]
  /\ spend' = [spend EXCEPT ![k] =
                 [status |-> "pending", buyer |-> b, amount |-> amount]]

(* invoke up to the upstream request, with a claim: the listing is read    *)
(* here, and not again for the payout.                                     *)
BeginSpend(r, k, b, l) ==
  /\ pc[r] = "idle"
  /\ listing[l].status = "active"
  /\ key' = [key EXCEPT ![r] = k]
  /\ quote' = [quote EXCEPT ![r] = listing[l]]
  /\ spend[k].status \in {"absent", "failed"}
  /\ listing[l].price > 0
  /\ Hold(k, b, listing[l].price)
  /\ Goto(r, "calling")
  /\ UNCHANGED <<todo, shopVars, fundVars, payout, sent, crashes>>

(* buildUpstreamUrl throws, for a listing without an upstream or a path    *)
(* that makes no URL: it is called after the hold and before the try block.*)
UrlThrows(r) ==
  /\ BadUrls
  /\ pc[r] = "calling"
  /\ Goto(r, "threw")
  /\ UNCHANGED <<key, quote, todo, shopVars, fundVars, balance, spend, payout, sent, crashes>>

(* invoke answered without a claim: listing not found or inactive, key     *)
(* settled (replay) or in flight (409), balance too low (402).             *)
Refuse(r) ==
  /\ pc[r] = "idle"
  /\ Goto(r, "done")
  /\ UNCHANGED <<key, quote, todo, shopVars, fundVars, balance, spend, payout, sent, crashes>>

(* completeSpend(settled): the debit stays.                                *)
CompleteSettled(k) ==
  /\ spend' = [spend EXCEPT ![k].status = "settled"]
  /\ UNCHANGED balance

(* completeSpend(failed): nothing for a settled row; the hold of a pending *)
(* one goes back to the buyer.                                             *)
CompleteFailed(k) ==
  IF spend[k].status = "settled"
  THEN UNCHANGED <<spend, balance>>
  ELSE /\ spend' = [spend EXCEPT ![k].status = "failed"]
       /\ balance' = IF spend[k].status = "pending"
                     THEN [balance EXCEPT ![spend[k].buyer] = @ + spend[k].amount]
                     ELSE balance

(* Mutant: the seller is paid first and the spend completed afterwards.    *)
UpstreamSucceedsUnsettled(r) ==
  /\ pc[r] = "calling"
  /\ Goto(r, "settled")
  /\ UNCHANGED <<key, quote, todo, shopVars, fundVars, balance, spend, payout, sent, crashes>>

UpstreamSucceeds(r) ==
  /\ pc[r] = "calling"
  /\ CompleteSettled(key[r])
  /\ Goto(r, "settled")
  /\ UNCHANGED <<key, quote, todo, shopVars, fundVars, payout, sent, crashes>>

(* Mutant: the hold is not released.                                       *)
UpstreamFailsHolding(r) ==
  /\ pc[r] = "calling"
  /\ Goto(r, "done")
  /\ UNCHANGED <<key, quote, todo, shopVars, fundVars, balance, spend, payout, sent, crashes>>

(* A reply that is not 2xx, or no reply.                                   *)
UpstreamFails(r) ==
  /\ pc[r] = "calling"
  /\ CompleteFailed(key[r])
  /\ Goto(r, "done")
  /\ UNCHANGED <<key, quote, todo, shopVars, fundVars, payout, sent, crashes>>

(* settleForSpend: enqueue the seller's payout, at the price that was held *)
(* and to the address that invoke read, then execute it.                   *)
Enqueue(r) ==
  LET k == key[r] IN
  /\ pc[r] = "settled"
  /\ payout' = [payout EXCEPT ![k] =
                  IF @.status # "none" THEN @
                  ELSE [status |-> "pending", payTo |-> quote[r].payTo,
                        amount |-> spend[k].amount]]
  /\ Goto(r, IF payout[k].status = "paid" THEN "done" ELSE "paying")
  /\ UNCHANGED <<key, quote, todo, shopVars, fundVars, balance, spend, sent, crashes>>

(* The database refuses the row: invoke takes it for an upstream error.    *)
EnqueueFails(r) ==
  /\ pc[r] = "settled"
  /\ CompleteFailed(key[r])
  /\ Goto(r, "threw")
  /\ UNCHANGED <<key, quote, todo, shopVars, fundVars, payout, sent, crashes>>

-----------------------------------------------------------------------------
(* Payouts, of a request (settleForSpend) or of a flush.                   *)

AfterPayout(w) == IF w \in Flushes THEN "flushing" ELSE "done"

(* executor.execute: the USDC transfer, or the facilitator's settle.       *)
Transfer(w) ==
  /\ pc[w] = "paying"
  /\ sent' = [sent EXCEPT ![key[w]] = @ + 1]
  /\ Goto(w, "sent")
  /\ UNCHANGED <<key, quote, todo, shopVars, fundVars, balance, spend, payout, crashes>>

(* Mutant: the payout is reported before the transfer has returned.        *)
MarkPaidEarly(w) ==
  /\ pc[w] \in {"paying", "sent"}
  /\ payout' = [payout EXCEPT ![key[w]].status = "paid"]
  /\ Goto(w, AfterPayout(w))
  /\ UNCHANGED <<key, quote, todo, shopVars, fundVars, balance, spend, sent, crashes>>

MarkPaid(w) ==
  /\ pc[w] = "sent"
  /\ payout' = [payout EXCEPT ![key[w]].status = "paid"]
  /\ Goto(w, AfterPayout(w))
  /\ UNCHANGED <<key, quote, todo, shopVars, fundVars, balance, spend, sent, crashes>>

(* The executor throws: no payload, one for another payee, a settlement    *)
(* that is refused, or an answer that is lost after the transfer.          *)
ExecuteThrows(w) ==
  \/ pc[w] = "paying"
  \/ Lossy /\ pc[w] = "sent"

(* Mutant: a paid row is failed like any other.                            *)
MarkFailedAnyway(w) ==
  /\ ExecuteThrows(w)
  /\ payout' = [payout EXCEPT ![key[w]].status = "failed"]
  /\ Goto(w, AfterPayout(w))
  /\ UNCHANGED <<key, quote, todo, shopVars, fundVars, balance, spend, sent, crashes>>

(* A paid row is left alone.                                               *)
MarkFailed(w) ==
  /\ ExecuteThrows(w)
  /\ payout' = [payout EXCEPT ![key[w]].status = IF @ = "paid" THEN @ ELSE "failed"]
  /\ Goto(w, AfterPayout(w))
  /\ UNCHANGED <<key, quote, todo, shopVars, fundVars, balance, spend, sent, crashes>>

(* flushPending: listPending reads the rows once, before any is paid.      *)
Unpaid == {k \in Keys : payout[k].status \in {"pending", "failed"}}

ListPending(w) ==
  /\ pc[w] = "idle"
  /\ todo' = [todo EXCEPT ![w] =
                {[key |-> k, status |-> payout[k].status] : k \in Unpaid}]
  /\ Goto(w, "flushing")
  /\ UNCHANGED <<key, quote, shopVars, fundVars, balance, spend, payout, sent, crashes>>

(* The next row, as it was read: a failed one is requeued, and read again  *)
(* for that (the executor skips it if it has been paid), a pending one is  *)
(* executed as it stands.                                                  *)
FlushRow(w, row) ==
  LET paidSince == row.status = "failed" /\ payout[row.key].status = "paid" IN
  /\ pc[w] = "flushing"
  /\ todo' = [todo EXCEPT ![w] = @ \ {row}]
  /\ key' = [key EXCEPT ![w] = row.key]
  /\ payout' = [payout EXCEPT ![row.key].status =
                  IF row.status = "failed" /\ @ = "failed" THEN "pending" ELSE @]
  /\ Goto(w, IF paidSince THEN "flushing" ELSE "paying")
  /\ UNCHANGED <<quote, shopVars, fundVars, balance, spend, sent, crashes>>

FlushEnds(w) ==
  /\ pc[w] = "flushing"
  /\ todo[w] = {}
  /\ Goto(w, "done")
  /\ UNCHANGED <<key, quote, todo, shopVars, fundVars, balance, spend, payout, sent, crashes>>

-----------------------------------------------------------------------------
(* A process stops: its workers are gone, the database is not.             *)
Crash(W) ==
  /\ crashes < MaxCrashes
  /\ W # {} /\ \A w \in W : Running(w)
  /\ crashes' = crashes + 1
  /\ pc' = [w \in Workers |-> IF w \in W THEN "done" ELSE pc[w]]
  /\ UNCHANGED <<key, quote, todo, shopVars, fundVars, balance, spend, payout, sent>>

(* POST /v1/listings/:id/invoke, with the payout that it makes             *)
Invoke(r) ==
  \/ \E k \in Keys, b \in Buyers, l \in Listings : BeginSpend(r, k, b, l)
  \/ Refuse(r) \/ UrlThrows(r)
  \/ UpstreamSucceeds(r) \/ UpstreamFails(r)
  \/ Enqueue(r) \/ EnqueueFails(r)
  \/ Transfer(r) \/ MarkPaid(r) \/ MarkFailed(r)

(* POST /v1/payouts/flush, or the command line                             *)
FlushPending(w) ==
  \/ ListPending(w)
  \/ \E row \in todo[w] : FlushRow(w, row)
  \/ Transfer(w) \/ MarkPaid(w) \/ MarkFailed(w)
  \/ FlushEnds(w)

Next ==
  \/ \E f \in DOMAIN Fundings :
       CreateCheckoutSession(f) \/ CompleteCheckout(f) \/ StripeWebhook(f)
  \/ \E l \in Listings :
       \/ \E row \in Offers : CreateListing(l, row) \/ UpdateListing(l, row)
       \/ DeleteListing(l)
  \/ \E r \in Reqs : Invoke(r)
  \/ \E w \in Flushes : FlushPending(w)
  \/ \E W \in SUBSET Workers : Crash(W)

Spec == Init /\ [][Next]_vars

-----------------------------------------------------------------------------
(* Safety                                                                  *)

SumOver(S, value) ==
  MapThenFoldSet(LAMBDA x, y : x + y, 0, LAMBDA x : value[x],
                 LAMBDA T : CHOOSE x \in T : TRUE, S)

(* What buyers still have, what is held and what is settled add up to what *)
(* the paid checkouts credited: no interleaving of holds, refunds, reclaims*)
(* by another buyer or at a changed price, deliveries and crashes makes or *)
(* loses a credit.                                                         *)
Conservation ==
  LET Taken == {k \in Keys : spend[k].status \in {"pending", "settled"}}
      Paid  == {f \in funded : session[f] = "paid"} IN
  SumOver(Buyers, balance) + SumOver(Taken, [k \in Keys |-> spend[k].amount])
    = SumOver(Paid, [f \in DOMAIN Fundings |-> Fundings[f].amount])

(* `Credit debit without a payout row is incomplete': and a payout row, or *)
(* a transfer, without the debit never is.  The row is for the amount that *)
(* the buyer was debited, to the address of the invocation's listing, also *)
(* when the seller edits, deletes or registers the listing again meanwhile.*)
PayoutIsDebited ==
  \A k \in Keys : payout[k].status # "none" \/ sent[k] > 0 =>
    /\ spend[k].status = "settled"
    /\ \E r \in Reqs : /\ key[r] = k
                       /\ quote[r].payTo = payout[k].payTo
                       /\ quote[r].price = spend[k].amount
                       /\ quote[r].price = payout[k].amount

(* toReceipt, of the three tables as they are when it is asked for.        *)
Receipt(k) ==
  [amount |-> spend[k].amount, buyer |-> spend[k].buyer,
   settleStatus |-> spend[k].status, payoutStatus |-> payout[k].status]

(* `Build public settlement receipts from spend log + listing + seller     *)
(* payout': a receipt that says the seller is paid is of a spend that is   *)
(* settled, shows the amount that was paid out, and is true: there was a   *)
(* transfer.                                                               *)
ReceiptIsTrue ==
  \A k \in Keys : Receipt(k).payoutStatus = "paid" =>
    /\ Receipt(k).settleStatus = "settled"
    /\ Receipt(k).amount = payout[k].amount
    /\ sent[k] > 0

(* `Failed upstream releases the hold', `credit debit without a payout row *)
(* is incomplete': held credits belong to a request that is going to       *)
(* settle or release them, and a debit has its payout row or a request     *)
(* that is going to make one.  Only a crash strands either, or one of the  *)
(* two exceptions that invoke does not undo.                               *)
NothingStranded ==
  crashes = 0 =>
    \A k \in Keys :
      /\ spend[k].status = "pending" =>
           \E r \in Reqs : key[r] = k /\ pc[r] \in {"calling", "threw"}
      /\ spend[k].status = "settled" /\ payout[k].status = "none" =>
           \E r \in Reqs : key[r] = k /\ pc[r] \in {"settled", "threw"}

(* A settled spend keeps its buyer, amount and status, and a paid payout   *)
(* stays paid, whoever reports a failure later.                            *)
OutcomesAreFinal ==
  [][\A k \in Keys :
       /\ spend[k].status = "settled" => spend'[k] = spend[k]
       /\ payout[k].status = "paid" => payout'[k] = payout[k]]_vars

(* flushPending `retries pending/failed seller payouts', and settleForSpend*)
(* and the executors return a paid one as it is: a seller is not paid for  *)
(* a spend whose payout is paid.                                           *)
PaidIsNotPaidAgain ==
  [][\A k \in Keys : payout[k].status = "paid" => sent'[k] = sent[k]]_vars
=============================================================================
