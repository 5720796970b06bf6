----------------------------- MODULE StoreProofs -----------------------------
(***************************************************************************)
(* Theorems about StoreInvoke, for every number of invocations, flushes,   *)
(* buyers, listings, edits and crashes.                                    *)
(***************************************************************************)
EXTENDS StoreInvoke, FiniteSetTheorems, WellFoundedInduction, TLAPS

-----------------------------------------------------------------------------
(* Type correctness                                                        *)

LEMMA SomeListing == Listing # {} /\ Addresses # {}
  <1>1. PICK l \in Listings : Seeded[l] \in Listing
    BY StoreAssumption
  <1>2. Seeded[l].payTo \in Addresses
    BY <1>1 DEF Listing
  <1> QED
    BY <1>1, <1>2

LEMMA InitTypeOK == Init => TypeOK
  <1> SUFFICES ASSUME Init  PROVE TypeOK
    OBVIOUS
  <1>1. pc \in [Workers -> PCs] /\ key \in [Workers -> Keys]
    BY StoreAssumption DEF Init, PCs
  <1>2. quote \in [Reqs -> Listing]
    BY SomeListing DEF Init
  <1>3. spend \in [Keys -> Row] /\ payout \in [Keys -> Payout]
    BY StoreAssumption, SomeListing DEF Init, Row, Payout
  <1>4. todo \in [Flushes -> SUBSET [key : Keys, status : {"pending", "failed"}]]
    BY DEF Init
  <1>5. /\ listing \in [Listings -> Listing]
        /\ balance \in [Buyers -> Nat]
        /\ funded \subseteq DOMAIN Fundings
        /\ session \in [DOMAIN Fundings -> {"none", "open", "unpaid", "paid"}]
        /\ sent \in [Keys -> Nat]
        /\ edits \in Nat /\ crashes \in Nat
    BY StoreAssumption DEF Init
  <1> QED
    BY <1>1, <1>2, <1>3, <1>4, <1>5 DEF TypeOK

(* An invocation's hold, its release, and a payment into a balance.        *)
LEMMA HoldType ==
  ASSUME TypeOK, NEW k \in Keys, NEW b \in Buyers, NEW amount \in Nat,
         Hold(k, b, amount)
  PROVE  balance' \in [Buyers -> Nat] /\ spend' \in [Keys -> Row]
  <1>1. balance[b] - amount \in Nat
    BY DEF Hold, TypeOK
  <1> QED
    BY <1>1 DEF Hold, TypeOK, Row

LEMMA CompleteFailedType ==
  ASSUME TypeOK, NEW k \in Keys, CompleteFailed(k)
  PROVE  balance' \in [Buyers -> Nat] /\ spend' \in [Keys -> Row]
  <1>1. spend[k].buyer \in Buyers /\ spend[k].amount \in Nat
    BY DEF TypeOK, Row
  <1>2. spend' \in [Keys -> Row]
    BY DEF CompleteFailed, TypeOK, Row
  <1>3. balance[spend[k].buyer] + spend[k].amount \in Nat
    BY <1>1 DEF TypeOK
  <1>4. \/ balance' = balance
        \/ balance' = [balance EXCEPT ![spend[k].buyer] = @ + spend[k].amount]
    BY DEF CompleteFailed
  <1>5. balance' \in [Buyers -> Nat]
    BY <1>1, <1>3, <1>4 DEF TypeOK
  <1> QED
    BY <1>2, <1>5

LEMMA TypeStep == TypeOK /\ [Next]_vars => TypeOK'
  <1> SUFFICES ASSUME TypeOK, [Next]_vars  PROVE TypeOK'
    OBVIOUS
  <1> USE DEF Goto
  <1>1. ASSUME NEW l \in Listings, NEW row \in Offers,
               CreateListing(l, row) \/ UpdateListing(l, row)
        PROVE  TypeOK'
    BY <1>1, StoreAssumption
       DEF CreateListing, UpdateListing, Edit, TypeOK, procVars, fundVars
  <1>2. ASSUME NEW l \in Listings, DeleteListing(l)  PROVE TypeOK'
    BY <1>2, StoreAssumption DEF DeleteListing, Edit, TypeOK, procVars, fundVars, Listing
  <1>3. ASSUME NEW f \in DOMAIN Fundings,
               CreateCheckoutSession(f) \/ CompleteCheckout(f)
        PROVE  TypeOK'
    BY <1>3 DEF CreateCheckoutSession, CompleteCheckout, TypeOK, procVars, shopVars
  <1>4. ASSUME NEW f \in DOMAIN Fundings, StripeWebhook(f)  PROVE TypeOK'
    <2>1. Fundings[f].buyer \in Buyers /\ Fundings[f].amount \in Nat
      BY StoreAssumption
    <2> QED
      BY <1>4, <2>1 DEF StripeWebhook, CreditFromFunding, TypeOK, procVars, shopVars
  <1>5. ASSUME NEW r \in Reqs, NEW k \in Keys, NEW b \in Buyers, NEW l \in Listings,
               BeginSpend(r, k, b, l)
        PROVE  TypeOK'
    <2>1. listing[l] \in Listing /\ listing[l].price \in Nat
      BY StoreAssumption DEF TypeOK, Listing
    <2>2. balance' \in [Buyers -> Nat] /\ spend' \in [Keys -> Row]
      BY <1>5, <2>1, HoldType DEF BeginSpend
    <2> QED
      BY <1>5, <2>1, <2>2 DEF BeginSpend, TypeOK, PCs, Workers, shopVars, fundVars
  <1>6. ASSUME NEW r \in Reqs, Refuse(r) \/ UrlThrows(r)  PROVE TypeOK'
    BY <1>6 DEF Refuse, UrlThrows, TypeOK, PCs, Workers, shopVars, fundVars
  <1>7. ASSUME NEW r \in Reqs, UpstreamSucceeds(r)  PROVE TypeOK'
    BY <1>7 DEF UpstreamSucceeds, CompleteSettled, TypeOK, PCs, Row, Workers, shopVars, fundVars
  <1>8. ASSUME NEW r \in Reqs, UpstreamFails(r) \/ EnqueueFails(r)  PROVE TypeOK'
    <2>1. key[r] \in Keys
      BY DEF TypeOK, Workers
    <2>2. balance' \in [Buyers -> Nat] /\ spend' \in [Keys -> Row]
      BY <1>8, <2>1, CompleteFailedType DEF UpstreamFails, EnqueueFails
    <2> QED
      BY <1>8, <2>2 DEF UpstreamFails, EnqueueFails, TypeOK, PCs, Workers, shopVars, fundVars
  <1>9. ASSUME NEW r \in Reqs, Enqueue(r)  PROVE TypeOK'
    <2>1. /\ key[r] \in Keys
          /\ quote[r].payTo \in Addresses /\ spend[key[r]].amount \in Nat
      BY DEF TypeOK, Workers, Listing, Row
    <2>2. payout' \in [Keys -> Payout]
      BY <1>9, <2>1 DEF Enqueue, TypeOK, Payout
    <2> QED
      BY <1>9, <2>2 DEF Enqueue, TypeOK, PCs, Workers, shopVars, fundVars
  <1>10. ASSUME NEW w \in Workers, Transfer(w)  PROVE TypeOK'
    BY <1>10 DEF Transfer, TypeOK, PCs, shopVars, fundVars
  <1>11. ASSUME NEW w \in Workers, MarkPaid(w) \/ MarkFailed(w)  PROVE TypeOK'
    <2>1. AfterPayout(w) \in PCs
      BY DEF AfterPayout, PCs
    <2>2. payout' \in [Keys -> Payout]
      <3>1. key[w] \in Keys /\ payout[key[w]] \in Payout
        BY DEF TypeOK
      <3>2. PICK status \in {"paid", "failed"} :
              payout' = [payout EXCEPT ![key[w]].status = status]
        BY <1>11, <3>1 DEF MarkPaid, MarkFailed, TypeOK, Payout
      <3> QED
        BY <3>1, <3>2 DEF TypeOK, Payout
    <2>3. pc' \in [Workers -> PCs]
      BY <1>11, <2>1 DEF MarkPaid, MarkFailed, TypeOK
    <2> QED
      BY <1>11, <2>2, <2>3 DEF MarkPaid, MarkFailed, TypeOK, shopVars, fundVars
  <1>12. ASSUME NEW w \in Flushes, ListPending(w)  PROVE TypeOK'
    <2>1. {[key |-> k, status |-> payout[k].status] : k \in Unpaid}
            \subseteq [key : Keys, status : {"pending", "failed"}]
      BY DEF Unpaid
    <2> QED
      BY <1>12, <2>1 DEF ListPending, TypeOK, PCs, Workers, shopVars, fundVars
  <1>13. ASSUME NEW w \in Flushes, NEW row \in todo[w], FlushRow(w, row)  PROVE TypeOK'
    <2>1. row.key \in Keys
      BY DEF TypeOK
    <2> QED
      BY <1>13, <2>1 DEF FlushRow, TypeOK, PCs, Payout, Workers, shopVars, fundVars
  <1>14. ASSUME NEW w \in Flushes, FlushEnds(w)  PROVE TypeOK'
    BY <1>14 DEF FlushEnds, TypeOK, PCs, Workers, shopVars, fundVars
  <1>15. ASSUME NEW W \in SUBSET Workers, Crash(W)  PROVE TypeOK'
    BY <1>15 DEF Crash, TypeOK, PCs, shopVars, fundVars
  <1>16. CASE UNCHANGED vars
    BY <1>16 DEF vars, procVars, shopVars, fundVars, TypeOK
  <1> QED
    BY <1>1, <1>2, <1>3, <1>4, <1>5, <1>6, <1>7, <1>8, <1>9, <1>10, <1>11, <1>12,
       <1>13, <1>14, <1>15, <1>16 DEF Next, Invoke, FlushPending, Workers

(* Every reachable state of the store is well typed; in particular no      *)
(* balance is below zero.                                                  *)
THEOREM TypeCorrect == Spec => []TypeOK
  BY InitTypeOK, TypeStep, PTL DEF Spec

-----------------------------------------------------------------------------
(* The inductive invariant                                                 *)

(* A request that calls its upstream holds the spend of its key alone, at  *)
(* the price it has read.                                                  *)
HoldInv ==
  \A r \in Reqs : pc[r] = "calling" =>
    /\ spend[key[r]].status = "pending"
    /\ spend[key[r]].amount = quote[r].price
    /\ \A q \in Reqs : pc[q] = "calling" /\ key[q] = key[r] => q = r

(* One whose upstream has replied 2xx has been debited that price.         *)
DebitInv ==
  \A r \in Reqs : pc[r] = "settled" =>
    /\ spend[key[r]].status = "settled"
    /\ spend[key[r]].amount = quote[r].price

(* The rows of seller_payouts, those that are paid, and those whose amount *)
(* has been transferred.                                                   *)
Enqueued == {k \in Keys : payout[k].status # "none"}
PaidOut == {k \in Keys : payout[k].status = "paid"}
Moved == {k \in Keys : sent[k] # 0}

(* A worker pays rows that there are, and reports a transfer it has made.  *)
PayInv ==
  /\ \A w \in Workers :
       /\ pc[w] \in {"paying", "sent"} => key[w] \in Enqueued
       /\ pc[w] = "sent" => key[w] \in Moved
  /\ \A w \in Flushes : \A row \in todo[w] : row.key \in Enqueued
  /\ Moved \subseteq Enqueued
  /\ PaidOut \subseteq Moved

(* A payout row is that of a request that has arrived, and whose spend is  *)
(* settled.                                                                *)
Backed(k) ==
  /\ spend[k].status = "settled"
  /\ \E r \in Reqs : /\ pc[r] # "idle" /\ key[r] = k
                     /\ quote[r].payTo = payout[k].payTo
                     /\ quote[r].price = spend[k].amount
                     /\ quote[r].price = payout[k].amount

BackedInv == \A k \in Enqueued : Backed(k)

StoreInv == HoldInv /\ DebitInv /\ PayInv /\ BackedInv /\ NothingStranded

LEMMA InitStoreInv == Init => StoreInv
  BY DEF Init, StoreInv, HoldInv, DebitInv, PayInv, BackedInv, NothingStranded, Workers,
     Enqueued, PaidOut, Moved

(* What an action does to the requests' hold on the spends.                *)
LEMMA HoldStep == TypeOK /\ StoreInv /\ [Next]_vars => (HoldInv /\ DebitInv)'
  <1> SUFFICES ASSUME TypeOK, StoreInv, [Next]_vars  PROVE (HoldInv /\ DebitInv)'
    OBVIOUS
  <1> USE DEF HoldInv, DebitInv, StoreInv, Goto
  <1>0. Reqs \subseteq Workers /\ Flushes \subseteq Workers /\ Reqs \cap Flushes = {}
    BY StoreAssumption DEF Workers
  <1>1. ASSUME NEW r \in Reqs, NEW k \in Keys, NEW b \in Buyers, NEW l \in Listings,
               BeginSpend(r, k, b, l)
        PROVE  (HoldInv /\ DebitInv)'
    <2>1. /\ spend[k].status \in {"absent", "failed"}
          /\ spend' = [spend EXCEPT ![k] = [status |-> "pending", buyer |-> b,
                                            amount |-> listing[l].price]]
          /\ pc' = [pc EXCEPT ![r] = "calling"]
          /\ key' = [key EXCEPT ![r] = k]
          /\ quote' = [quote EXCEPT ![r] = listing[l]]
      BY <1>1 DEF BeginSpend, Hold
    <2>2. \A q \in Reqs : pc[q] \in {"calling", "settled"} => key[q] # k
      BY <2>1
    <2> QED
      BY <1>0, <2>1, <2>2 DEF TypeOK
  <1>2. ASSUME NEW r \in Reqs, UpstreamSucceeds(r)  PROVE (HoldInv /\ DebitInv)'
    BY <1>0, <1>2 DEF UpstreamSucceeds, CompleteSettled, TypeOK, Row
  <1>3. ASSUME NEW r \in Reqs, UpstreamFails(r)  PROVE (HoldInv /\ DebitInv)'
    <2>1. /\ spend' = [spend EXCEPT ![key[r]].status = "failed"]
          /\ spend[key[r]].status = "pending"
          /\ pc' = [pc EXCEPT ![r] = "done"] /\ UNCHANGED <<key, quote>>
      BY <1>3 DEF UpstreamFails, CompleteFailed
    <2> QED
      BY <1>0, <1>3, <2>1 DEF UpstreamFails, TypeOK, Row
  <1>4. ASSUME NEW r \in Reqs, EnqueueFails(r)  PROVE (HoldInv /\ DebitInv)'
    <2>1. UNCHANGED <<spend, key, quote>> /\ pc' = [pc EXCEPT ![r] = "threw"]
      BY <1>4 DEF EnqueueFails, CompleteFailed
    <2> QED
      BY <1>0, <2>1 DEF TypeOK
  <1>5. ASSUME UNCHANGED <<spend, quote>>,
               \A r \in Reqs : pc'[r] \in {"calling", "settled"} =>
                 pc'[r] = pc[r] /\ key'[r] = key[r]
        PROVE  (HoldInv /\ DebitInv)'
    BY <1>5
  <1>6. ASSUME NEW r \in Reqs,
               Refuse(r) \/ UrlThrows(r) \/ Enqueue(r) \/ Transfer(r)
                 \/ MarkPaid(r) \/ MarkFailed(r)
        PROVE  (HoldInv /\ DebitInv)'
    BY <1>0, <1>5, <1>6 DEF Refuse, UrlThrows, Enqueue, Transfer, MarkPaid, MarkFailed,
         AfterPayout, TypeOK
  <1>7. ASSUME NEW w \in Flushes, FlushPending(w)  PROVE (HoldInv /\ DebitInv)'
    BY <1>0, <1>5, <1>7 DEF FlushPending, ListPending, FlushRow, FlushEnds, Transfer,
         MarkPaid, MarkFailed, TypeOK
  <1>8. ASSUME NEW W \in SUBSET Workers, Crash(W)  PROVE (HoldInv /\ DebitInv)'
    BY <1>0, <1>5, <1>8 DEF Crash, TypeOK
  <1>9. ASSUME UNCHANGED <<spend, procVars>>  PROVE (HoldInv /\ DebitInv)'
    BY <1>5, <1>9 DEF procVars
  <1>10. ASSUME NEW f \in DOMAIN Fundings,
                CreateCheckoutSession(f) \/ CompleteCheckout(f) \/ StripeWebhook(f)
         PROVE  UNCHANGED <<spend, procVars>>
    BY <1>10 DEF CreateCheckoutSession, CompleteCheckout, StripeWebhook, CreditFromFunding
  <1>11. ASSUME NEW l \in Listings,
                \/ \E row \in Offers : CreateListing(l, row) \/ UpdateListing(l, row)
                \/ DeleteListing(l)
         PROVE  UNCHANGED <<spend, procVars>>
    BY <1>11 DEF CreateListing, UpdateListing, DeleteListing, Edit
  <1>12. CASE UNCHANGED vars
    BY <1>9, <1>12 DEF vars
  <1> QED
    BY <1>1, <1>2, <1>3, <1>4, <1>6, <1>7, <1>8, <1>9, <1>10, <1>11, <1>12
       DEF Next, Invoke

(* What an action does to the payouts, and to what workers are about to do *)
(* with them.                                                              *)
LEMMA PayStep == TypeOK /\ StoreInv /\ [Next]_vars => PayInv'
  <1> SUFFICES ASSUME TypeOK, PayInv, HoldInv, DebitInv, [Next]_vars  PROVE PayInv'
    BY DEF StoreInv
  <1> USE DEF Goto
  <1>0. Reqs \subseteq Workers /\ Flushes \subseteq Workers /\ Reqs \cap Flushes = {}
    BY StoreAssumption DEF Workers
  <1>1. ASSUME UNCHANGED <<Enqueued, PaidOut, Moved, todo>>,
               \A w \in Workers : pc'[w] \in {"paying", "sent"} =>
                 pc'[w] = pc[w] /\ key'[w] = key[w]
        PROVE  PayInv'
    BY <1>1 DEF PayInv
  <1>a. ASSUME UNCHANGED <<payout, sent>>
        PROVE  UNCHANGED <<Enqueued, PaidOut, Moved>>
    BY <1>a DEF Enqueued, PaidOut, Moved
  <1>2. ASSUME NEW r \in Reqs, NEW k \in Keys, NEW b \in Buyers, NEW l \in Listings,
               BeginSpend(r, k, b, l)
        PROVE  PayInv'
    BY <1>0, <1>a, <1>1, <1>2 DEF BeginSpend, TypeOK
  <1>3. ASSUME NEW r \in Reqs,
               Refuse(r) \/ UrlThrows(r) \/ UpstreamSucceeds(r)
                 \/ UpstreamFails(r) \/ EnqueueFails(r)
        PROVE  PayInv'
    BY <1>0, <1>a, <1>1, <1>3 DEF Refuse, UrlThrows, UpstreamSucceeds, UpstreamFails,
         EnqueueFails, TypeOK
  <1>4. ASSUME NEW r \in Reqs, Enqueue(r)  PROVE PayInv'
    <2>1. /\ \A k \in Keys : payout[k].status # "none" => payout'[k] = payout[k]
          /\ payout'[key[r]].status # "none"
          /\ \A k \in Keys : payout'[k].status = "paid" => payout[k].status = "paid"
          /\ key[r] \in Keys
      BY <1>0, <1>4 DEF Enqueue, TypeOK
    <2>2. /\ Enqueued \subseteq Enqueued' /\ key[r] \in Enqueued'
          /\ PaidOut' \subseteq PaidOut
      BY <2>1 DEF Enqueued, PaidOut
    <2>3. UNCHANGED Moved
      BY <1>4 DEF Enqueue, Moved
    <2>4. /\ UNCHANGED <<key, todo>>
          /\ \A w \in Workers : w # r => pc'[w] = pc[w]
          /\ pc'[r] # "sent"
      BY <1>0, <1>4 DEF Enqueue, TypeOK
    <2> QED
      BY <1>0, <2>2, <2>3, <2>4 DEF PayInv
  <1>5. ASSUME NEW w \in Workers, Transfer(w)  PROVE PayInv'
    <2>1. /\ pc[w] = "paying" /\ key[w] \in Keys
          /\ sent' = [sent EXCEPT ![key[w]] = sent[key[w]] + 1]
          /\ pc' = [pc EXCEPT ![w] = "sent"]
          /\ UNCHANGED <<key, todo, payout>>
      BY <1>5 DEF Transfer, TypeOK
    <2>2. Moved' = Moved \cup {key[w]}
      BY <2>1 DEF Moved, TypeOK
    <2>3. UNCHANGED <<Enqueued, PaidOut>>
      BY <2>1 DEF Enqueued, PaidOut
    <2>4. \A v \in Workers : v # w => pc'[v] = pc[v]
      BY <2>1 DEF TypeOK
    <2> QED
      BY <2>1, <2>2, <2>3, <2>4 DEF PayInv
  <1>6. ASSUME NEW w \in Workers, MarkPaid(w) \/ MarkFailed(w)  PROVE PayInv'
    <2>1. /\ pc[w] \in {"paying", "sent"} /\ key[w] \in Keys
          /\ pc' = [pc EXCEPT ![w] = AfterPayout(w)]
          /\ AfterPayout(w) \notin {"paying", "sent"}
          /\ UNCHANGED <<key, todo, sent>>
      BY <1>6 DEF MarkPaid, MarkFailed, ExecuteThrows, AfterPayout, TypeOK
    <2>2. PICK status \in {"paid", "failed"} :
            /\ payout' = [payout EXCEPT ![key[w]].status = status]
            /\ status = "paid" => pc[w] = "sent" \/ payout[key[w]].status = "paid"
      BY <1>6, <2>1 DEF MarkPaid, MarkFailed, TypeOK, Payout
    <2>3. /\ Enqueued \subseteq Enqueued'
          /\ PaidOut' \subseteq PaidOut \cup (IF pc[w] = "sent" THEN {key[w]} ELSE {})
      BY <2>1, <2>2 DEF Enqueued, PaidOut, TypeOK, Payout
    <2>4. UNCHANGED Moved
      BY <2>1 DEF Moved
    <2>5. \A v \in Workers : pc'[v] \in {"paying", "sent"} => pc'[v] = pc[v]
      BY <2>1 DEF TypeOK
    <2> QED
      BY <2>1, <2>3, <2>4, <2>5 DEF PayInv
  <1>7. ASSUME NEW w \in Flushes, ListPending(w)  PROVE PayInv'
    <2>1. \A row \in {[key |-> k, status |-> payout[k].status] : k \in Unpaid} :
            row.key \in Enqueued
      BY DEF Unpaid, Enqueued
    <2>2. UNCHANGED <<Enqueued, PaidOut, Moved>>
      BY <1>7, <1>a DEF ListPending
    <2> QED
      BY <1>0, <1>7, <2>1, <2>2 DEF ListPending, TypeOK, PayInv
  <1>8. ASSUME NEW w \in Flushes, NEW row \in todo[w], FlushRow(w, row)  PROVE PayInv'
    <2>1. /\ row.key \in Keys /\ row.key \in Enqueued
          /\ \A v \in Workers : v # w => pc'[v] = pc[v] /\ key'[v] = key[v]
          /\ key'[w] = row.key /\ pc'[w] # "sent"
          /\ \A v \in Flushes : todo'[v] \subseteq todo[v]
      BY <1>0, <1>8 DEF FlushRow, TypeOK, PayInv
    <2>2. Enqueued \subseteq Enqueued' /\ PaidOut' \subseteq PaidOut
      BY <1>8, <2>1 DEF FlushRow, Enqueued, PaidOut, TypeOK, Payout
    <2>3. UNCHANGED Moved
      BY <1>8 DEF FlushRow, Moved
    <2> QED
      BY <1>0, <2>1, <2>2, <2>3 DEF PayInv
  <1>9. ASSUME NEW w \in Flushes, FlushEnds(w)  PROVE PayInv'
    BY <1>0, <1>a, <1>1, <1>9 DEF FlushEnds, TypeOK
  <1>10. ASSUME NEW W \in SUBSET Workers, Crash(W)  PROVE PayInv'
    BY <1>a, <1>1, <1>10 DEF Crash, TypeOK
  <1>11. ASSUME UNCHANGED <<payout, sent, procVars>>  PROVE PayInv'
    BY <1>a, <1>1, <1>11 DEF procVars
  <1>12. ASSUME NEW f \in DOMAIN Fundings,
                CreateCheckoutSession(f) \/ CompleteCheckout(f) \/ StripeWebhook(f)
         PROVE  UNCHANGED <<payout, sent, procVars>>
    BY <1>12 DEF CreateCheckoutSession, CompleteCheckout, StripeWebhook, CreditFromFunding
  <1>13. ASSUME NEW l \in Listings,
                \/ \E row \in Offers : CreateListing(l, row) \/ UpdateListing(l, row)
                \/ DeleteListing(l)
         PROVE  UNCHANGED <<payout, sent, procVars>>
    BY <1>13 DEF CreateListing, UpdateListing, DeleteListing, Edit
  <1>14. CASE UNCHANGED vars
    BY <1>11, <1>14 DEF vars
  <1> QED
    BY <1>0, <1>2, <1>3, <1>4, <1>5, <1>6, <1>7, <1>8, <1>9, <1>10, <1>11, <1>12,
       <1>13, <1>14 DEF Next, Invoke, FlushPending

(* What every action leaves of the spends and the payouts that are over,   *)
(* of the requests that have arrived and of the payout rows.               *)
LEMMA OutcomesStep ==
  TypeOK /\ StoreInv /\ [Next]_vars =>
    \A k \in Keys : /\ spend[k].status = "settled" => spend'[k] = spend[k]
                    /\ payout[k].status = "paid" => payout'[k] = payout[k]
  <1> SUFFICES ASSUME TypeOK, HoldInv, [Next]_vars, NEW k \in Keys
               PROVE  /\ spend[k].status = "settled" => spend'[k] = spend[k]
                      /\ payout[k].status = "paid" => payout'[k] = payout[k]
    BY DEF StoreInv
  <1>0. Reqs \subseteq Workers /\ Flushes \subseteq Workers
    BY DEF Workers
  <1>1. CASE UNCHANGED <<spend, payout>>
    BY <1>1
  <1>2. ASSUME NEW r \in Reqs, NEW i \in Keys, NEW b \in Buyers, NEW l \in Listings,
               BeginSpend(r, i, b, l)
        PROVE  /\ spend[k].status = "settled" => spend'[k] = spend[k]
               /\ UNCHANGED payout
    BY <1>2 DEF BeginSpend, Hold, TypeOK
  <1>3. ASSUME NEW r \in Reqs, UpstreamSucceeds(r)
        PROVE  /\ spend[k].status = "settled" => spend'[k] = spend[k]
               /\ UNCHANGED payout
    <2>1. spend[key[r]].status = "pending"
      BY <1>3 DEF UpstreamSucceeds, HoldInv
    <2> QED
      BY <1>3, <2>1 DEF UpstreamSucceeds, CompleteSettled, TypeOK
  <1>4. ASSUME NEW r \in Reqs, UpstreamFails(r) \/ EnqueueFails(r)
        PROVE  /\ spend[k].status = "settled" => spend'[k] = spend[k]
               /\ UNCHANGED payout
    BY <1>4 DEF UpstreamFails, EnqueueFails, CompleteFailed, TypeOK
  <1>5. ASSUME NEW r \in Reqs, Enqueue(r)
        PROVE  /\ payout[k].status = "paid" => payout'[k] = payout[k]
               /\ UNCHANGED spend
    BY <1>5 DEF Enqueue, TypeOK
  <1>6. ASSUME NEW w \in Workers, MarkPaid(w) \/ MarkFailed(w)
        PROVE  /\ payout[k].status = "paid" => payout'[k] = payout[k]
               /\ UNCHANGED spend
    <2>1. PICK status \in {"paid", "failed"} :
            /\ payout' = [payout EXCEPT ![key[w]].status = status]
            /\ payout[key[w]].status = "paid" => status = "paid"
            /\ UNCHANGED spend
      BY <1>6 DEF MarkPaid, MarkFailed, TypeOK, Payout
    <2>2. CASE k = key[w] /\ payout[k].status = "paid"
      <3>1. payout[k] \in Payout /\ payout'[k] = [payout[k] EXCEPT !.status = "paid"]
        BY <2>1, <2>2 DEF TypeOK
      <3> QED
        BY <2>1, <2>2, <3>1 DEF Payout
    <2> QED
      BY <2>1, <2>2 DEF TypeOK
  <1>7. ASSUME NEW w \in Flushes, NEW row \in todo[w], FlushRow(w, row)
        PROVE  /\ payout[k].status = "paid" => payout'[k] = payout[k]
               /\ UNCHANGED spend
    <2>1. /\ payout' = [payout EXCEPT ![row.key].status =
                          IF row.status = "failed" /\ payout[row.key].status = "failed"
                          THEN "pending" ELSE payout[row.key].status]
          /\ UNCHANGED spend
      BY <1>7 DEF FlushRow
    <2>2. CASE k = row.key /\ payout[k].status = "paid"
      <3>1. payout[k] \in Payout /\ payout'[k] = [payout[k] EXCEPT !.status = "paid"]
        BY <2>1, <2>2 DEF TypeOK
      <3> QED
        BY <2>1, <2>2, <3>1 DEF Payout
    <2> QED
      BY <2>1, <2>2 DEF TypeOK
  <1>8. ASSUME NEW f \in DOMAIN Fundings,
               CreateCheckoutSession(f) \/ CompleteCheckout(f) \/ StripeWebhook(f)
        PROVE  UNCHANGED <<spend, payout>>
    BY <1>8 DEF CreateCheckoutSession, CompleteCheckout, StripeWebhook, CreditFromFunding
  <1>9. ASSUME NEW l \in Listings,
               \/ \E row \in Offers : CreateListing(l, row) \/ UpdateListing(l, row)
               \/ DeleteListing(l)
        PROVE  UNCHANGED <<spend, payout>>
    BY <1>9 DEF CreateListing, UpdateListing, DeleteListing, Edit
  <1>10. ASSUME NEW w \in Workers,
                \/ w \in Reqs /\ (Refuse(w) \/ UrlThrows(w))
                \/ w \in Flushes /\ (ListPending(w) \/ FlushEnds(w))
                \/ Transfer(w)
         PROVE  UNCHANGED <<spend, payout>>
    BY <1>10 DEF Refuse, UrlThrows, ListPending, FlushEnds, Transfer
  <1>11. ASSUME NEW W \in SUBSET Workers, Crash(W)  PROVE UNCHANGED <<spend, payout>>
    BY <1>11 DEF Crash
  <1>12. CASE UNCHANGED vars
    BY <1>1, <1>12 DEF vars
  <1> QED
    BY <1>0, <1>1, <1>2, <1>3, <1>4, <1>5, <1>6, <1>7, <1>8, <1>9, <1>10, <1>11, <1>12
       DEF Next, Invoke, FlushPending

LEMMA RequestStep ==
  TypeOK /\ [Next]_vars =>
    \A r \in Reqs : pc[r] # "idle" =>
      pc'[r] # "idle" /\ key'[r] = key[r] /\ quote'[r] = quote[r]
  <1> SUFFICES ASSUME TypeOK, [Next]_vars, NEW r \in Reqs, pc[r] # "idle"
               PROVE  pc'[r] # "idle" /\ key'[r] = key[r] /\ quote'[r] = quote[r]
    OBVIOUS
  <1> USE DEF Goto
  <1>0. Reqs \subseteq Workers /\ Flushes \subseteq Workers /\ Reqs \cap Flushes = {}
    BY StoreAssumption DEF Workers
  <1>1. CASE UNCHANGED procVars
    BY <1>1 DEF procVars
  <1>2. ASSUME NEW q \in Reqs, NEW k \in Keys, NEW b \in Buyers, NEW l \in Listings,
               BeginSpend(q, k, b, l)
        PROVE  pc'[r] # "idle" /\ key'[r] = key[r] /\ quote'[r] = quote[r]
    BY <1>0, <1>2 DEF BeginSpend, TypeOK
  <1>3. ASSUME NEW q \in Reqs,
               Refuse(q) \/ UrlThrows(q) \/ UpstreamSucceeds(q) \/ UpstreamFails(q)
                 \/ Enqueue(q) \/ EnqueueFails(q)
        PROVE  pc'[r] # "idle" /\ key'[r] = key[r] /\ quote'[r] = quote[r]
    BY <1>0, <1>3 DEF Refuse, UrlThrows, UpstreamSucceeds, UpstreamFails, Enqueue,
         EnqueueFails, TypeOK
  <1>4. ASSUME NEW w \in Workers, Transfer(w) \/ MarkPaid(w) \/ MarkFailed(w)
        PROVE  pc'[r] # "idle" /\ key'[r] = key[r] /\ quote'[r] = quote[r]
    BY <1>0, <1>4 DEF Transfer, MarkPaid, MarkFailed, AfterPayout, TypeOK
  <1>5. ASSUME NEW w \in Flushes,
               ListPending(w) \/ FlushEnds(w) \/ (\E row \in todo[w] : FlushRow(w, row))
        PROVE  pc'[r] # "idle" /\ key'[r] = key[r] /\ quote'[r] = quote[r]
    <2>1. /\ UNCHANGED quote
          /\ \A v \in Workers : v # w => pc'[v] = pc[v] /\ key'[v] = key[v]
      <3>1. CASE ListPending(w) \/ FlushEnds(w)
        BY <1>0, <3>1 DEF ListPending, FlushEnds, TypeOK
      <3>2. ASSUME NEW row \in todo[w], FlushRow(w, row)
            PROVE  /\ UNCHANGED quote
                   /\ \A v \in Workers : v # w => pc'[v] = pc[v] /\ key'[v] = key[v]
        BY <1>0, <3>2 DEF FlushRow, TypeOK
      <3> QED
        BY <1>5, <3>1, <3>2
    <2> QED
      BY <1>0, <2>1
  <1>6. ASSUME NEW W \in SUBSET Workers, Crash(W)
        PROVE  pc'[r] # "idle" /\ key'[r] = key[r] /\ quote'[r] = quote[r]
    BY <1>0, <1>6 DEF Crash
  <1>7. ASSUME NEW f \in DOMAIN Fundings,
               CreateCheckoutSession(f) \/ CompleteCheckout(f) \/ StripeWebhook(f)
        PROVE  UNCHANGED procVars
    BY <1>7 DEF CreateCheckoutSession, CompleteCheckout, StripeWebhook, CreditFromFunding
  <1>8. ASSUME NEW l \in Listings,
               \/ \E row \in Offers : CreateListing(l, row) \/ UpdateListing(l, row)
               \/ DeleteListing(l)
        PROVE  UNCHANGED procVars
    BY <1>8 DEF CreateListing, UpdateListing, DeleteListing, Edit
  <1>9. CASE UNCHANGED vars
    BY <1>1, <1>9 DEF vars
  <1> QED
    BY <1>0, <1>1, <1>2, <1>3, <1>4, <1>5, <1>6, <1>7, <1>8, <1>9
       DEF Next, Invoke, FlushPending

LEMMA PayoutRowStep ==
  TypeOK /\ StoreInv /\ [Next]_vars =>
    \A k \in Enqueued' :
      \/ /\ k \in Enqueued
         /\ payout'[k].payTo = payout[k].payTo
         /\ payout'[k].amount = payout[k].amount
      \/ \E r \in Reqs : k = key[r] /\ k \notin Enqueued /\ Enqueue(r)
  <1> SUFFICES ASSUME TypeOK, PayInv, [Next]_vars, NEW k \in Enqueued'
               PROVE  \/ /\ k \in Enqueued
                         /\ payout'[k].payTo = payout[k].payTo
                         /\ payout'[k].amount = payout[k].amount
                      \/ \E r \in Reqs : k = key[r] /\ k \notin Enqueued /\ Enqueue(r)
    BY DEF StoreInv
  <1> DEFINE Kept == /\ k \in Enqueued
                     /\ payout'[k].payTo = payout[k].payTo
                     /\ payout'[k].amount = payout[k].amount
  <1>0. /\ k \in Keys /\ payout'[k].status # "none" /\ payout[k] \in Payout
        /\ Reqs \subseteq Workers /\ Flushes \subseteq Workers
    BY DEF Enqueued, TypeOK, Workers
  <1>1. CASE UNCHANGED payout
    BY <1>0, <1>1 DEF Enqueued
  <1>2. ASSUME NEW r \in Reqs, Enqueue(r)
        PROVE  Kept \/ (k = key[r] /\ k \notin Enqueued)
    BY <1>0, <1>2 DEF Enqueue, Enqueued, TypeOK
  <1>3. ASSUME NEW w \in Workers, MarkPaid(w) \/ MarkFailed(w)  PROVE Kept
    <2>1. key[w] \in Enqueued
      BY <1>3 DEF MarkPaid, MarkFailed, ExecuteThrows, PayInv
    <2>2. PICK status \in {"paid", "failed"} :
            payout' = [payout EXCEPT ![key[w]].status = status]
      BY <1>3, <2>1 DEF MarkPaid, MarkFailed, TypeOK, Payout, Enqueued
    <2> QED
      BY <1>0, <2>1, <2>2 DEF Enqueued, TypeOK, Payout
  <1>4. ASSUME NEW w \in Flushes, NEW row \in todo[w], FlushRow(w, row)  PROVE Kept
    <2>1. row.key \in Enqueued
      BY <1>4 DEF PayInv
    <2>2. payout' = [payout EXCEPT ![row.key].status =
                       IF row.status = "failed" /\ payout[row.key].status = "failed"
                       THEN "pending" ELSE payout[row.key].status]
      BY <1>4 DEF FlushRow
    <2> QED
      BY <1>0, <2>1, <2>2 DEF Enqueued, TypeOK, Payout
  <1>5. ASSUME NEW r \in Reqs,
               \/ \E i \in Keys, b \in Buyers, l \in Listings : BeginSpend(r, i, b, l)
               \/ Refuse(r) \/ UrlThrows(r) \/ UpstreamSucceeds(r)
               \/ UpstreamFails(r) \/ EnqueueFails(r)
        PROVE  UNCHANGED payout
    BY <1>5 DEF BeginSpend, Refuse, UrlThrows, UpstreamSucceeds, UpstreamFails, EnqueueFails
  <1>6. ASSUME NEW w \in Workers,
               Transfer(w) \/ (w \in Flushes /\ (ListPending(w) \/ FlushEnds(w)))
        PROVE  UNCHANGED payout
    BY <1>6 DEF Transfer, ListPending, FlushEnds
  <1>7. ASSUME NEW f \in DOMAIN Fundings,
               CreateCheckoutSession(f) \/ CompleteCheckout(f) \/ StripeWebhook(f)
        PROVE  UNCHANGED payout
    BY <1>7 DEF CreateCheckoutSession, CompleteCheckout, StripeWebhook, CreditFromFunding
  <1>8. ASSUME NEW l \in Listings,
               \/ \E row \in Offers : CreateListing(l, row) \/ UpdateListing(l, row)
               \/ DeleteListing(l)
        PROVE  UNCHANGED payout
    BY <1>8 DEF CreateListing, UpdateListing, DeleteListing, Edit
  <1>9. ASSUME NEW W \in SUBSET Workers, Crash(W)  PROVE UNCHANGED payout
    BY <1>9 DEF Crash
  <1>10. CASE UNCHANGED vars
    BY <1>1, <1>10 DEF vars
  <1> HIDE DEF Kept
  <1>11. Kept \/ \E r \in Reqs : k = key[r] /\ k \notin Enqueued /\ Enqueue(r)
    <2>1. CASE UNCHANGED payout
      BY <1>1, <2>1 DEF Kept
    <2>2. ASSUME NEW r \in Reqs, Invoke(r), ~UNCHANGED payout
          PROVE  Kept \/ (k = key[r] /\ k \notin Enqueued /\ Enqueue(r))
      BY <1>0, <1>2, <1>3, <1>5, <1>6, <2>2 DEF Invoke
    <2>3. ASSUME NEW w \in Flushes, FlushPending(w), ~UNCHANGED payout
          PROVE  Kept
      BY <1>0, <1>3, <1>4, <1>6, <2>3 DEF FlushPending
    <2> QED
      BY <1>7, <1>8, <1>9, <1>10, <2>1, <2>2, <2>3 DEF Next, vars
  <1> QED
    BY <1>11 DEF Kept

(* The row of a payout stays backed by its request.                        *)
LEMMA BackedStep == TypeOK /\ StoreInv /\ [Next]_vars => BackedInv'
  <1> SUFFICES ASSUME TypeOK, StoreInv, [Next]_vars, NEW k \in Enqueued'
               PROVE  Backed(k)'
    BY DEF BackedInv
  <1>0. k \in Keys /\ Reqs \subseteq Workers
    BY DEF Enqueued, Workers
  <1>1. CASE /\ k \in Enqueued
             /\ payout'[k].payTo = payout[k].payTo
             /\ payout'[k].amount = payout[k].amount
    <2>1. spend[k].status = "settled" /\ spend'[k] = spend[k]
      BY <1>0, <1>1, OutcomesStep DEF StoreInv, BackedInv, Backed
    <2>2. PICK r \in Reqs : /\ pc[r] # "idle" /\ key[r] = k
                            /\ quote[r].payTo = payout[k].payTo
                            /\ quote[r].price = spend[k].amount
                            /\ quote[r].price = payout[k].amount
      BY <1>1 DEF StoreInv, BackedInv, Backed
    <2>3. pc'[r] # "idle" /\ key'[r] = key[r] /\ quote'[r] = quote[r]
      BY <2>2, RequestStep
    <2> QED
      BY <1>1, <2>1, <2>2, <2>3 DEF Backed
  <1>2. ASSUME NEW r \in Reqs, k = key[r], k \notin Enqueued, Enqueue(r)
        PROVE  Backed(k)'
    <2>1. /\ pc[r] = "settled" /\ UNCHANGED <<key, quote, spend>>
          /\ payout' = [payout EXCEPT ![k] = [status |-> "pending",
                                              payTo  |-> quote[r].payTo,
                                              amount |-> spend[k].amount]]
          /\ pc' = [pc EXCEPT ![r] =
                      IF payout[k].status = "paid" THEN "done" ELSE "paying"]
      BY <1>0, <1>2 DEF Enqueue, Goto, Enqueued, TypeOK
    <2>2. spend[k].status = "settled" /\ spend[k].amount = quote[r].price
      BY <1>2, <2>1 DEF StoreInv, DebitInv
    <2>3. /\ payout'[k].payTo = quote[r].payTo
          /\ payout'[k].amount = spend[k].amount
      BY <1>0, <2>1 DEF TypeOK
    <2>4. pc'[r] # "idle"
      BY <1>0, <2>1 DEF TypeOK
    <2> QED
      BY <1>2, <2>1, <2>2, <2>3, <2>4 DEF Backed
  <1> QED
    BY <1>1, <1>2, PayoutRowStep

(* Without a crash, credits that are held or debited stay in the care of a *)
(* request, or of one that threw.                                          *)
LEMMA StrandedStep == TypeOK /\ StoreInv /\ [Next]_vars => NothingStranded'
  <1> SUFFICES ASSUME TypeOK, StoreInv, [Next]_vars, crashes' = 0, NEW k \in Keys
               PROVE  /\ spend'[k].status = "pending" =>
                           \E r \in Reqs : key'[r] = k /\ pc'[r] \in {"calling", "threw"}
                      /\ spend'[k].status = "settled" /\ payout'[k].status = "none" =>
                           \E r \in Reqs : key'[r] = k /\ pc'[r] \in {"settled", "threw"}
    BY DEF NothingStranded
  <1> DEFINE Held == \E r \in Reqs : key[r] = k /\ pc[r] \in {"calling", "threw"}
             Owed == \E r \in Reqs : key[r] = k /\ pc[r] \in {"settled", "threw"}
             Held1 == \E r \in Reqs : key'[r] = k /\ pc'[r] \in {"calling", "threw"}
             Owed1 == \E r \in Reqs : key'[r] = k /\ pc'[r] \in {"settled", "threw"}
             Goal == /\ spend'[k].status = "pending" => Held1
                     /\ spend'[k].status = "settled" /\ payout'[k].status = "none" => Owed1
  <1> USE DEF Goto
  <1>0. Reqs \subseteq Workers /\ Flushes \subseteq Workers /\ Reqs \cap Flushes = {}
    BY StoreAssumption DEF Workers
  <1>a. ASSUME crashes = 0
        PROVE  /\ spend[k].status = "pending" => Held
               /\ spend[k].status = "settled" /\ payout[k].status = "none" => Owed
    BY <1>a DEF StoreInv, NothingStranded
  <1>b. ASSUME UNCHANGED crashes, spend'[k] = spend[k],
               payout[k].status # "none" => payout'[k].status # "none",
               \A r \in Reqs : key[r] = k /\ pc[r] \in {"calling", "settled", "threw"} =>
                 key'[r] = k /\ pc'[r] = pc[r]
        PROVE  Goal
    BY <1>a, <1>b
  <1>1. ASSUME NEW r \in Reqs, NEW i \in Keys, NEW b \in Buyers, NEW l \in Listings,
               BeginSpend(r, i, b, l)
        PROVE  Goal
    <2>1. /\ pc[r] = "idle" /\ UNCHANGED <<crashes, payout>>
          /\ spend' = [spend EXCEPT ![i] = [status |-> "pending", buyer |-> b,
                                            amount |-> listing[l].price]]
          /\ pc' = [pc EXCEPT ![r] = "calling"]
          /\ key' = [key EXCEPT ![r] = i]
      BY <1>1 DEF BeginSpend, Hold
    <2>2. CASE k = i
      <3>1. key'[r] = k /\ pc'[r] = "calling" /\ spend'[k].status = "pending"
        BY <1>0, <2>1, <2>2 DEF TypeOK
      <3> QED
        BY <3>1
    <2>3. CASE k # i
      BY <1>0, <1>b, <2>1, <2>3 DEF TypeOK
    <2> QED
      BY <2>2, <2>3
  <1>2. ASSUME NEW r \in Reqs, UrlThrows(r)  PROVE Goal
    <2>1. /\ pc[r] = "calling" /\ UNCHANGED <<crashes, payout, spend, key>>
          /\ pc' = [pc EXCEPT ![r] = "threw"]
      BY <1>2 DEF UrlThrows
    <2>2. CASE key[r] = k
      <3>1. spend'[k].status = "pending"
        BY <2>1, <2>2 DEF StoreInv, HoldInv
      <3>2. key'[r] = k /\ pc'[r] = "threw"
        BY <1>0, <2>1, <2>2 DEF TypeOK
      <3> QED
        BY <3>1, <3>2
    <2>3. CASE key[r] # k
      BY <1>0, <1>b, <2>1, <2>3 DEF TypeOK
    <2> QED
      BY <2>2, <2>3
  <1>3. ASSUME NEW r \in Reqs, UpstreamSucceeds(r)  PROVE Goal
    <2>1. /\ UNCHANGED <<crashes, payout, key>>
          /\ spend' = [spend EXCEPT ![key[r]].status = "settled"]
          /\ pc' = [pc EXCEPT ![r] = "settled"]
      BY <1>3 DEF UpstreamSucceeds, CompleteSettled
    <2>2. CASE key[r] = k
      <3>1. key'[r] = k /\ pc'[r] = "settled"
        BY <1>0, <2>1, <2>2 DEF TypeOK
      <3>2. spend'[k].status = "settled"
        BY <2>1, <2>2 DEF TypeOK, Row
      <3> QED
        BY <3>1, <3>2
    <2>3. CASE key[r] # k
      BY <1>0, <1>b, <2>1, <2>3 DEF TypeOK
    <2> QED
      BY <2>2, <2>3
  <1>4. ASSUME NEW r \in Reqs, UpstreamFails(r)  PROVE Goal
    <2>1. /\ UNCHANGED <<crashes, payout, key>> /\ pc[r] = "calling"
          /\ pc' = [pc EXCEPT ![r] = "done"]
      BY <1>4 DEF UpstreamFails
    <2>2. spend' = [spend EXCEPT ![key[r]].status = "failed"]
      BY <1>4, <2>1 DEF UpstreamFails, CompleteFailed, StoreInv, HoldInv
    <2>3. CASE key[r] = k
      BY <2>2, <2>3 DEF TypeOK, Row
    <2>4. CASE key[r] # k
      BY <1>0, <1>b, <2>1, <2>2, <2>4 DEF TypeOK
    <2> QED
      BY <2>3, <2>4
  <1>5. ASSUME NEW r \in Reqs, Enqueue(r)  PROVE Goal
    <2>1. /\ pc[r] = "settled" /\ UNCHANGED <<crashes, key, spend>>
          /\ \A q \in Reqs : q # r => pc'[q] = pc[q]
          /\ payout'[key[r]].status # "none"
          /\ payout[k].status # "none" => payout'[k].status # "none"
      BY <1>0, <1>5 DEF Enqueue, TypeOK
    <2>2. CASE key[r] = k
      <3>1. spend'[k].status = "settled"
        BY <2>1, <2>2 DEF StoreInv, DebitInv
      <3> QED
        BY <2>1, <2>2, <3>1
    <2>3. CASE key[r] # k
      BY <1>0, <1>b, <2>1, <2>3 DEF TypeOK
    <2> QED
      BY <2>2, <2>3
  <1>6. ASSUME NEW r \in Reqs, EnqueueFails(r)  PROVE Goal
    <2>1. /\ pc[r] = "settled" /\ UNCHANGED <<crashes, key, payout>>
          /\ pc' = [pc EXCEPT ![r] = "threw"]
      BY <1>6 DEF EnqueueFails
    <2>2. spend[key[r]].status = "settled" /\ UNCHANGED spend
      BY <1>6, <2>1 DEF EnqueueFails, CompleteFailed, StoreInv, DebitInv
    <2>3. CASE key[r] = k
      <3>1. key'[r] = k /\ pc'[r] = "threw" /\ spend'[k].status = "settled"
        BY <1>0, <2>1, <2>2, <2>3 DEF TypeOK
      <3> QED
        BY <3>1
    <2>4. CASE key[r] # k
      BY <1>0, <1>b, <2>1, <2>2, <2>4 DEF TypeOK
    <2> QED
      BY <2>3, <2>4
  <1>7. ASSUME NEW w \in Workers, MarkPaid(w) \/ MarkFailed(w)  PROVE Goal
    <2>1. /\ pc[w] \in {"paying", "sent"} /\ key[w] \in Keys
          /\ UNCHANGED <<crashes, spend, key>>
          /\ \A r \in Reqs : r # w => pc'[r] = pc[r]
      BY <1>0, <1>7 DEF MarkPaid, MarkFailed, ExecuteThrows, TypeOK
    <2>2. PICK status \in {"paid", "failed"} :
            payout' = [payout EXCEPT ![key[w]].status = status]
      BY <1>7, <2>1 DEF MarkPaid, MarkFailed, TypeOK, Payout
    <2>3. payout[k].status # "none" => payout'[k].status # "none"
      BY <2>1, <2>2 DEF TypeOK, Payout
    <2> QED
      BY <1>b, <2>1, <2>3
  <1>8. ASSUME NEW w \in Flushes, NEW row \in todo[w], FlushRow(w, row)  PROVE Goal
    <2>1. /\ UNCHANGED <<crashes, spend>>
          /\ \A r \in Reqs : pc'[r] = pc[r] /\ key'[r] = key[r]
      BY <1>0, <1>8 DEF FlushRow, TypeOK
    <2>2. payout[k].status # "none" => payout'[k].status # "none"
      BY <1>8 DEF FlushRow, TypeOK, Payout
    <2> QED
      BY <1>b, <2>1, <2>2
  <1>9. ASSUME UNCHANGED <<crashes, spend, payout>>,
               \A r \in Reqs : pc[r] \in {"calling", "settled", "threw"} =>
                 key'[r] = key[r] /\ pc'[r] = pc[r]
        PROVE  Goal
    BY <1>b, <1>9
  <1>10. ASSUME NEW w \in Workers,
                \/ w \in Reqs /\ Refuse(w)
                \/ Transfer(w)
                \/ w \in Flushes /\ (ListPending(w) \/ FlushEnds(w))
         PROVE  Goal
    BY <1>0, <1>9, <1>10 DEF Refuse, Transfer, ListPending, FlushEnds, TypeOK
  <1>11. ASSUME NEW W \in SUBSET Workers, Crash(W)  PROVE FALSE
    BY <1>11 DEF Crash, TypeOK
  <1>12. ASSUME UNCHANGED <<spend, payout, crashes, procVars>>  PROVE Goal
    BY <1>9, <1>12 DEF procVars
  <1>13. ASSUME NEW f \in DOMAIN Fundings,
                CreateCheckoutSession(f) \/ CompleteCheckout(f) \/ StripeWebhook(f)
         PROVE  UNCHANGED <<spend, payout, crashes, procVars>>
    BY <1>13 DEF CreateCheckoutSession, CompleteCheckout, StripeWebhook, CreditFromFunding
  <1>14. ASSUME NEW l \in Listings,
                \/ \E row \in Offers : CreateListing(l, row) \/ UpdateListing(l, row)
                \/ DeleteListing(l)
         PROVE  UNCHANGED <<spend, payout, crashes, procVars>>
    BY <1>14 DEF CreateListing, UpdateListing, DeleteListing, Edit
  <1>15. ASSUME UNCHANGED vars  PROVE Goal
    BY <1>12, <1>15 DEF vars
  <1> HIDE DEF Goal
  <1>16. Goal
    <2>1. ASSUME NEW r \in Reqs, Invoke(r)  PROVE Goal
      BY <1>0, <1>1, <1>2, <1>3, <1>4, <1>5, <1>6, <1>7, <1>10, <2>1 DEF Invoke
    <2>2. ASSUME NEW w \in Flushes, FlushPending(w)  PROVE Goal
      BY <1>0, <1>7, <1>8, <1>10, <2>2 DEF FlushPending
    <2>3. ASSUME NEW f \in DOMAIN Fundings,
                 CreateCheckoutSession(f) \/ CompleteCheckout(f) \/ StripeWebhook(f)
          PROVE  Goal
      BY <1>12, <1>13, <2>3
    <2>4. ASSUME NEW l \in Listings,
                 \/ \E row \in Offers : CreateListing(l, row) \/ UpdateListing(l, row)
                 \/ DeleteListing(l)
          PROVE  Goal
      BY <1>12, <1>14, <2>4
    <2> QED
      BY <1>11, <1>15, <2>1, <2>2, <2>3, <2>4 DEF Next
  <1> QED
    BY <1>16 DEF Goal

-----------------------------------------------------------------------------
(* The theorems                                                            *)

(* The inductive invariant holds of the store.                             *)
THEOREM StoreInvariant == Spec => [](TypeOK /\ StoreInv)
  <1>1. Init => TypeOK /\ StoreInv
    BY InitTypeOK, InitStoreInv
  <1>2. TypeOK /\ StoreInv /\ [Next]_vars => (TypeOK /\ StoreInv)'
    BY TypeStep, HoldStep, PayStep, BackedStep, StrandedStep DEF StoreInv
  <1> QED
    BY <1>1, <1>2, PTL DEF Spec

(* A payout row, or a transfer, has its debit, for its amount and to the   *)
(* address of the invocation's listing: settleForSpend and the flushes     *)
(* never pay out what a buyer has not been debited.                        *)
THEOREM PayoutsAreDebited == Spec => []PayoutIsDebited
  <1>1. TypeOK /\ StoreInv => PayoutIsDebited
    <2> SUFFICES ASSUME TypeOK, StoreInv, NEW k \in Keys,
                        payout[k].status # "none" \/ sent[k] > 0
                 PROVE  /\ spend[k].status = "settled"
                        /\ \E r \in Reqs : /\ key[r] = k
                                           /\ quote[r].payTo = payout[k].payTo
                                           /\ quote[r].price = spend[k].amount
                                           /\ quote[r].price = payout[k].amount
      BY DEF PayoutIsDebited
    <2>1. sent[k] > 0 => k \in Moved
      BY DEF Moved, TypeOK
    <2>2. k \in Enqueued
      BY <2>1 DEF StoreInv, PayInv, Enqueued
    <2> QED
      BY <2>2 DEF StoreInv, BackedInv, Backed
  <1> QED
    BY <1>1, StoreInvariant, PTL

(* A receipt that says the seller is paid is true, whenever it is asked    *)
(* for.                                                                    *)
THEOREM ReceiptsAreTrue == Spec => []ReceiptIsTrue
  <1>1. TypeOK /\ StoreInv => ReceiptIsTrue
    <2> SUFFICES ASSUME TypeOK, StoreInv, NEW k \in Keys, payout[k].status = "paid"
                 PROVE  /\ spend[k].status = "settled"
                        /\ spend[k].amount = payout[k].amount
                        /\ sent[k] > 0
      BY DEF ReceiptIsTrue, Receipt
    <2>1. k \in Enqueued /\ k \in PaidOut
      BY DEF Enqueued, PaidOut
    <2>2. sent[k] > 0
      BY <2>1 DEF StoreInv, PayInv, Moved, TypeOK
    <2> QED
      BY <2>1, <2>2 DEF StoreInv, BackedInv, Backed
  <1> QED
    BY <1>1, StoreInvariant, PTL

(* While no process crashes, credits that are held or debited stay in the  *)
(* care of a request, or of one that ended in an exception.                *)
THEOREM NothingIsStranded == Spec => []NothingStranded
  <1>1. TypeOK /\ StoreInv => NothingStranded
    BY DEF StoreInv
  <1> QED
    BY <1>1, StoreInvariant, PTL

(* A settled spend and a paid payout are never touched again.              *)
THEOREM OutcomesStay == Spec => OutcomesAreFinal
  <1>1. TypeOK /\ StoreInv /\ [Next]_vars =>
          [\A k \in Keys :
             /\ spend[k].status = "settled" => spend'[k] = spend[k]
             /\ payout[k].status = "paid" => payout'[k] = payout[k]]_vars
    BY OutcomesStep
  <1> QED
    BY <1>1, StoreInvariant, PTL DEF Spec, OutcomesAreFinal

-----------------------------------------------------------------------------
(* Sums                                                                    *)

(* SumOver is a fold, that is, a recursive function on the subsets of a    *)
(* set.  What holds of a sum is shown of the smallest subset for which it  *)
(* would not hold.                                                         *)
Some(s) == CHOOSE x \in s : TRUE

IsSum(f, S, v) ==
  f = [s \in SUBSET S |-> IF s = {} THEN 0 ELSE v[Some(s)] + f[s \ {Some(s)}]]

TheSum(S, v) == CHOOSE f : IsSum(f, S, v)

LEMMA SumIs == ASSUME NEW S, NEW v PROVE SumOver(S, v) = TheSum(S, v)[S]
  BY DEF SumOver, MapThenFoldSet, TheSum, IsSum, Some

(* A family of finite sets has a member that no other is strictly within.  *)
LEMMA Smallest ==
  ASSUME NEW S, NEW F \in SUBSET FiniteSubsetsOf(S), F # {}
  PROVE  \E T \in F : \A U \in F : U \subseteq T => U = T
<1>1. PICK T \in F : \A U \in F : ~ (<<U, T>> \in StrictSubsetOrdering(S))
  BY FS_StrictSubsetOrderingWellFounded, WFMin
<1>2. ASSUME NEW U \in F, U \subseteq T, U # T
      PROVE  FALSE
  <2>1. U \in SUBSET S /\ T \in SUBSET S
    BY DEF FiniteSubsetsOf
  <2>2. <<U, T>> \in StrictSubsetOrdering(S)
    BY <1>2, <2>1 DEF StrictSubsetOrdering
  <2>3. QED
    BY <1>1, <2>2
<1>3. QED
  BY <1>2

LEMMA SomeIs == ASSUME NEW s, s # {} PROVE Some(s) \in s
  BY DEF Some

LEMMA SumStep ==
  ASSUME NEW S, NEW v, NEW f, IsSum(f, S, v), NEW s \in SUBSET S
  PROVE  f[s] = IF s = {} THEN 0 ELSE v[Some(s)] + f[s \ {Some(s)}]
  BY DEF IsSum

LEMMA SumUnique ==
  ASSUME NEW S, NEW T, NEW v, NEW f, NEW g, IsSum(f, S, v), IsSum(g, T, v),
         NEW s, IsFiniteSet(s), s \subseteq S, s \subseteq T
  PROVE  f[s] = g[s]
<1> DEFINE B == {u \in FiniteSubsetsOf(s) : f[u] # g[u]}
<1>1. SUFFICES ASSUME f[s] # g[s] PROVE FALSE
  OBVIOUS
<1>2. s \in B
  BY <1>1 DEF FiniteSubsetsOf
<1>3. B \in SUBSET FiniteSubsetsOf(s)
  OBVIOUS
<1> HIDE DEF B
<1>4. PICK u \in B : \A t \in B : t \subseteq u => t = u
  BY <1>2, <1>3, Smallest
<1>5. /\ u \subseteq s /\ IsFiniteSet(u) /\ f[u] # g[u]
  BY DEF B, FiniteSubsetsOf
<1>6. u \in SUBSET S /\ u \in SUBSET T
  BY <1>5
<1>7. /\ f[u] = IF u = {} THEN 0 ELSE v[Some(u)] + f[u \ {Some(u)}]
      /\ g[u] = IF u = {} THEN 0 ELSE v[Some(u)] + g[u \ {Some(u)}]
  BY <1>6, SumStep
<1>8. u # {}
  BY <1>5, <1>7
<1>9. u \ {Some(u)} \subseteq u /\ u \ {Some(u)} # u
  BY <1>8, SomeIs
<1>10. u \ {Some(u)} \notin B
  BY <1>4, <1>9
<1>11. u \ {Some(u)} \in FiniteSubsetsOf(s)
  BY <1>5, <1>9, FS_Subset DEF FiniteSubsetsOf
<1>12. f[u \ {Some(u)}] = g[u \ {Some(u)}]
  BY <1>10, <1>11 DEF B
<1>13. QED
  BY <1>5, <1>7, <1>12

LEMMA SumExists ==
  ASSUME NEW S, IsFiniteSet(S), NEW v
  PROVE  IsSum(TheSum(S, v), S, v)
<1> DEFINE B == {u \in FiniteSubsetsOf(S) : ~ IsSum(TheSum(u, v), u, v)}
<1>1. SUFFICES ASSUME ~ IsSum(TheSum(S, v), S, v) PROVE FALSE
  OBVIOUS
<1>2. S \in B
  BY <1>1 DEF FiniteSubsetsOf
<1>3. B \in SUBSET FiniteSubsetsOf(S)
  OBVIOUS
<1> HIDE DEF B
<1>4. PICK u \in B : \A t \in B : t \subseteq u => t = u
  BY <1>2, <1>3, Smallest
<1>5. /\ u \subseteq S /\ IsFiniteSet(u) /\ ~ IsSum(TheSum(u, v), u, v)
  BY DEF B, FiniteSubsetsOf
<1>6. ASSUME NEW s \in SUBSET u, s # u
      PROVE  IsSum(TheSum(s, v), s, v) /\ IsFiniteSet(s)
  <2>1. s \notin B
    BY <1>4, <1>6
  <2>2. s \in FiniteSubsetsOf(S) /\ IsFiniteSet(s)
    BY <1>5, FS_Subset DEF FiniteSubsetsOf
  <2>3. QED
    BY <2>1, <2>2 DEF B
<1> DEFINE less(s) == s \ {Some(s)}
           rec(s, f) == IF s = {} THEN 0 ELSE v[Some(s)] + f
           g == [s \in SUBSET u |-> IF s = u THEN rec(u, TheSum(less(u), v)[less(u)])
                                    ELSE TheSum(s, v)[s]]
<1>7. ASSUME NEW s \in SUBSET u
      PROVE  g[s] = rec(s, g[less(s)])
  <2>1. CASE s = {}
    <3>1. CASE s = u
      BY <2>1, <3>1
    <3>2. CASE s # u
      <4>1. TheSum(s, v)[s] = 0
        BY <1>6, <2>1, <3>2, SumStep
      <4>2. QED
        BY <2>1, <3>2, <4>1
    <3>3. QED
      BY <3>1, <3>2
  <2>2. CASE s # {}
    <3>1. less(s) \in SUBSET u /\ less(s) # s /\ less(s) \subseteq s /\ less(s) # u
      BY <2>2, SomeIs
    <3>2. g[less(s)] = TheSum(less(s), v)[less(s)]
      BY <3>1
    <3>3. CASE s = u
      BY <2>2, <3>2, <3>3
    <3>4. CASE s # u
      <4>1. g[s] = TheSum(s, v)[s]
        BY <3>4
      <4>2. TheSum(s, v)[s] = v[Some(s)] + TheSum(s, v)[less(s)]
        BY <1>6, <2>2, <3>4, SumStep
      <4>3. /\ IsSum(TheSum(s, v), s, v) /\ IsSum(TheSum(less(s), v), less(s), v)
            /\ IsFiniteSet(less(s))
        BY <1>6, <3>1, <3>4
      <4>4. TheSum(s, v)[less(s)] = TheSum(less(s), v)[less(s)]
        <5> HIDE DEF less
        <5>1. QED
          BY <3>1, <4>3, SumUnique
      <4>5. QED
        BY <2>2, <3>2, <4>1, <4>2, <4>4
    <3>5. QED
      BY <3>3, <3>4
  <2>3. QED
    BY <2>1, <2>2
<1>8. g = [s \in SUBSET u |-> g[s]]
  OBVIOUS
<1> HIDE DEF g
<1>9. IsSum(g, u, v)
  BY <1>7, <1>8 DEF IsSum
<1>10. IsSum(TheSum(u, v), u, v)
  BY <1>9 DEF TheSum
<1>11. QED
  BY <1>5, <1>10

LEMMA SumOfNone == ASSUME NEW v PROVE SumOver({}, v) = 0
<1>1. IsSum(TheSum({}, v), {}, v)
  BY SumExists, FS_EmptySet
<1>2. QED
  BY <1>1, SumStep, SumIs

LEMMA SumOfSome ==
  ASSUME NEW S, IsFiniteSet(S), S # {}, NEW v
  PROVE  SumOver(S, v) = v[Some(S)] + SumOver(S \ {Some(S)}, v)
<1> DEFINE T == S \ {Some(S)}
<1>1. IsFiniteSet(T) /\ T \subseteq S
  BY FS_Subset
<1> HIDE DEF T
<1>2. IsSum(TheSum(S, v), S, v) /\ IsSum(TheSum(T, v), T, v)
  BY <1>1, SumExists
<1>3. TheSum(S, v)[T] = TheSum(T, v)[T]
  BY <1>1, <1>2, SumUnique
<1>4. TheSum(S, v)[S] = v[Some(S)] + TheSum(S, v)[T]
  BY <1>2, SumStep DEF T
<1>5. QED
  BY <1>3, <1>4, SumIs DEF T

LEMMA SumTyped ==
  ASSUME NEW S, IsFiniteSet(S), NEW v, \A x \in S : v[x] \in Int
  PROVE  SumOver(S, v) \in Int
<1> DEFINE B == {u \in FiniteSubsetsOf(S) : SumOver(u, v) \notin Int}
<1>1. SUFFICES ASSUME SumOver(S, v) \notin Int PROVE FALSE
  OBVIOUS
<1>2. S \in B /\ B \in SUBSET FiniteSubsetsOf(S)
  BY <1>1 DEF FiniteSubsetsOf
<1> HIDE DEF B
<1>3. PICK u \in B : \A t \in B : t \subseteq u => t = u
  BY <1>2, Smallest
<1>4. u \subseteq S /\ IsFiniteSet(u) /\ SumOver(u, v) \notin Int
  BY DEF B, FiniteSubsetsOf
<1>5. u # {}
  BY <1>4, SumOfNone
<1> DEFINE t == u \ {Some(u)}
<1>6. SumOver(u, v) = v[Some(u)] + SumOver(t, v) /\ v[Some(u)] \in Int
  BY <1>4, <1>5, SumOfSome, SomeIs
<1>7. t \notin B
  BY <1>3, <1>5, SomeIs
<1>8. t \in FiniteSubsetsOf(S)
  BY <1>4, FS_Subset DEF FiniteSubsetsOf
<1>9. SumOver(t, v) \in Int
  BY <1>7, <1>8 DEF B
<1>10. QED
  BY <1>4, <1>6, <1>9

(* The order does not matter.                                              *)
LEMMA SumWithout ==
  ASSUME NEW S, IsFiniteSet(S), NEW v, \A x \in S : v[x] \in Int, NEW x \in S
  PROVE  SumOver(S, v) = v[x] + SumOver(S \ {x}, v)
<1> DEFINE Holds(u) == \A y \in u : SumOver(u, v) = v[y] + SumOver(u \ {y}, v)
           B == {u \in FiniteSubsetsOf(S) : ~ Holds(u)}
<1>1. SUFFICES ASSUME ~ Holds(S) PROVE FALSE
  OBVIOUS
<1> HIDE DEF Holds
<1>2. S \in B /\ B \in SUBSET FiniteSubsetsOf(S)
  BY <1>1 DEF FiniteSubsetsOf
<1> HIDE DEF B
<1>3. PICK u \in B : \A t \in B : t \subseteq u => t = u
  BY <1>2, Smallest
<1>4. u \subseteq S /\ IsFiniteSet(u) /\ ~ Holds(u)
  BY DEF B, FiniteSubsetsOf
<1>5. PICK y \in u : SumOver(u, v) # v[y] + SumOver(u \ {y}, v)
  BY <1>4 DEF Holds
<1>6. ASSUME NEW z \in u
      PROVE  Holds(u \ {z}) /\ IsFiniteSet(u \ {z})
  <2>1. u \ {z} \in FiniteSubsetsOf(S) /\ IsFiniteSet(u \ {z})
    BY <1>4, FS_Subset DEF FiniteSubsetsOf
  <2>2. u \ {z} \notin B
    BY <1>3
  <2>3. QED
    BY <2>1, <2>2 DEF B
<1> DEFINE c == Some(u)
<1>7. c \in u
  BY SomeIs
<1>8. SumOver(u, v) = v[c] + SumOver(u \ {c}, v)
  BY <1>4, SumOfSome
<1>9. c # y
  BY <1>5, <1>8
<1> HIDE DEF c
<1>10. /\ SumOver(u \ {c}, v) = v[y] + SumOver((u \ {c}) \ {y}, v)
       /\ SumOver(u \ {y}, v) = v[c] + SumOver((u \ {y}) \ {c}, v)
  BY <1>6, <1>7, <1>9 DEF Holds
<1>11. (u \ {c}) \ {y} = (u \ {y}) \ {c}
  OBVIOUS
<1>12. SumOver((u \ {y}) \ {c}, v) \in Int /\ v[y] \in Int /\ v[c] \in Int
  <2>1. IsFiniteSet((u \ {y}) \ {c}) /\ \A z \in (u \ {y}) \ {c} : v[z] \in Int
    BY <1>4, FS_Subset
  <2>2. QED
    BY <1>4, <1>7, <2>1, SumTyped
<1> DEFINE rest == SumOver((u \ {y}) \ {c}, v)
           a == v[c]
           b == v[y]
<1>13. SumOver(u, v) = a + (b + rest) /\ SumOver(u \ {y}, v) = a + rest
  BY <1>8, <1>10, <1>11
<1>14. SumOver(u, v) = b + SumOver(u \ {y}, v)
  <2>1. a \in Int /\ b \in Int /\ rest \in Int
    BY <1>12
  <2> HIDE DEF a, b, rest
  <2>2. a + (b + rest) = b + (a + rest)
    BY <2>1
  <2>3. QED
    BY <1>13, <2>2
<1>15. QED
  BY <1>5, <1>14

LEMMA SumWith ==
  ASSUME NEW S, IsFiniteSet(S), NEW x, x \notin S, NEW v, \A y \in S \cup {x} : v[y] \in Int
  PROVE  SumOver(S \cup {x}, v) = v[x] + SumOver(S, v)
<1>1. IsFiniteSet(S \cup {x}) /\ (S \cup {x}) \ {x} = S
  BY FS_AddElement
<1>2. QED
  BY <1>1, SumWithout

(* Only the values of the members matter.                                  *)
LEMMA SumSame ==
  ASSUME NEW S, IsFiniteSet(S), NEW v, NEW w, \A x \in S : v[x] = w[x]
  PROVE  SumOver(S, v) = SumOver(S, w)
<1> DEFINE B == {u \in FiniteSubsetsOf(S) : SumOver(u, v) # SumOver(u, w)}
<1>1. SUFFICES ASSUME SumOver(S, v) # SumOver(S, w) PROVE FALSE
  OBVIOUS
<1>2. S \in B /\ B \in SUBSET FiniteSubsetsOf(S)
  BY <1>1 DEF FiniteSubsetsOf
<1> HIDE DEF B
<1>3. PICK u \in B : \A t \in B : t \subseteq u => t = u
  BY <1>2, Smallest
<1>4. u \subseteq S /\ IsFiniteSet(u) /\ SumOver(u, v) # SumOver(u, w)
  BY DEF B, FiniteSubsetsOf
<1>5. u # {}
  BY <1>4, SumOfNone
<1> DEFINE t == u \ {Some(u)}
<1>6. /\ SumOver(u, v) = v[Some(u)] + SumOver(t, v)
      /\ SumOver(u, w) = w[Some(u)] + SumOver(t, w)
      /\ v[Some(u)] = w[Some(u)]
  BY <1>4, <1>5, SumOfSome, SomeIs
<1>7. t \notin B
  BY <1>3, <1>5, SomeIs
<1>8. t \in FiniteSubsetsOf(S)
  BY <1>4, FS_Subset DEF FiniteSubsetsOf
<1>9. SumOver(t, v) = SumOver(t, w)
  BY <1>7, <1>8 DEF B
<1>10. QED
  BY <1>4, <1>6, <1>9

(* One value changes.                                                      *)
LEMMA SumChanges ==
  ASSUME NEW S, IsFiniteSet(S), NEW x \in S, NEW v, NEW w,
         \A y \in S : v[y] \in Int /\ w[y] \in Int,
         \A y \in S : y # x => w[y] = v[y]
  PROVE  SumOver(S, w) = SumOver(S, v) - v[x] + w[x]
<1> DEFINE T == S \ {x}
<1>1. IsFiniteSet(T) /\ \A y \in T : v[y] = w[y] /\ v[y] \in Int
  BY FS_Subset
<1>2. SumOver(S, v) = v[x] + SumOver(T, v) /\ SumOver(S, w) = w[x] + SumOver(T, w)
  BY SumWithout
<1> HIDE DEF T
<1>3. SumOver(T, v) = SumOver(T, w) /\ SumOver(T, v) \in Int
  BY <1>1, SumSame, SumTyped
<1>4. QED
  BY <1>2, <1>3

LEMMA SumOfZeros ==
  ASSUME NEW S, IsFiniteSet(S), NEW v, \A x \in S : v[x] = 0
  PROVE  SumOver(S, v) = 0
<1> DEFINE B == {u \in FiniteSubsetsOf(S) : SumOver(u, v) # 0}
<1>1. SUFFICES ASSUME SumOver(S, v) # 0 PROVE FALSE
  OBVIOUS
<1>2. S \in B /\ B \in SUBSET FiniteSubsetsOf(S)
  BY <1>1 DEF FiniteSubsetsOf
<1> HIDE DEF B
<1>3. PICK u \in B : \A t \in B : t \subseteq u => t = u
  BY <1>2, Smallest
<1>4. u \subseteq S /\ IsFiniteSet(u) /\ SumOver(u, v) # 0
  BY DEF B, FiniteSubsetsOf
<1>5. u # {}
  BY <1>4, SumOfNone
<1> DEFINE t == u \ {Some(u)}
<1>6. SumOver(u, v) = v[Some(u)] + SumOver(t, v) /\ v[Some(u)] = 0
  BY <1>4, <1>5, SumOfSome, SomeIs
<1>7. t \notin B
  BY <1>3, <1>5, SomeIs
<1>8. t \in FiniteSubsetsOf(S)
  BY <1>4, FS_Subset DEF FiniteSubsetsOf
<1>9. SumOver(t, v) = 0
  BY <1>7, <1>8 DEF B
<1>10. QED
  BY <1>4, <1>6, <1>9

-----------------------------------------------------------------------------
(* Credits                                                                 *)

Taken == {k \in Keys : spend[k].status \in {"pending", "settled"}}
Amount == [k \in Keys |-> spend[k].amount]
Credited == SumOver({f \in funded : session[f] = "paid"},
                    [f \in DOMAIN Fundings |-> Fundings[f].amount])

(* A checkout that has been credited is paid, for good.                    *)
FundedInv == \A f \in funded : session[f] = "paid"

Gains(b, d) ==
  /\ balance'[b] = balance[b] + d
  /\ \A c \in Buyers : c # b => balance'[c] = balance[c]

LEMMA StoreFinite ==
  ASSUME TypeOK
  PROVE  /\ IsFiniteSet(Buyers) /\ IsFiniteSet(Taken) /\ IsFiniteSet(funded)
         /\ \A b \in Buyers : balance[b] \in Int
         /\ \A k \in Keys : Amount[k] = spend[k].amount /\ Amount[k] \in Int
         /\ \A f \in DOMAIN Fundings : Fundings[f].buyer \in Buyers /\ Fundings[f].amount \in Int
         /\ SumOver(Buyers, balance) \in Int /\ SumOver(Taken, Amount) \in Int
<1>1. IsFiniteSet(Buyers) /\ IsFiniteSet(Keys) /\ IsFiniteSet(DOMAIN Fundings)
  BY StoreAssumption
<1>2. IsFiniteSet(Taken) /\ IsFiniteSet(funded)
  BY <1>1, FS_Subset DEF Taken, TypeOK
<1>3. \A b \in Buyers : balance[b] \in Int
  BY DEF TypeOK
<1>4. \A k \in Keys : Amount[k] = spend[k].amount /\ Amount[k] \in Int
  BY DEF Amount, TypeOK, Row
<1>5. \A f \in DOMAIN Fundings : Fundings[f].buyer \in Buyers /\ Fundings[f].amount \in Int
  BY StoreAssumption
<1>6. \A k \in Taken : Amount[k] \in Int
  BY <1>4 DEF Taken
<1>7. QED
  BY <1>1, <1>2, <1>3, <1>4, <1>5, <1>6, SumTyped

LEMMA ConservationIs ==
  Conservation <=> SumOver(Buyers, balance) + SumOver(Taken, Amount) = Credited
  BY DEF Conservation, Taken, Amount, Credited

(* A balance changes by an amount.                                         *)
LEMMA BalanceGains ==
  ASSUME TypeOK, NEW b \in Buyers, NEW d \in Int, Gains(b, d)
  PROVE  SumOver(Buyers, balance') = SumOver(Buyers, balance) + d
<1>1. IsFiniteSet(Buyers) /\ \A c \in Buyers : balance[c] \in Int
  BY StoreFinite
<1>2. /\ \A c \in Buyers : balance[c] \in Int /\ balance'[c] \in Int
      /\ \A c \in Buyers : c # b => balance'[c] = balance[c]
      /\ balance'[b] = balance[b] + d
  BY <1>1 DEF Gains
<1>3. SumOver(Buyers, balance') = SumOver(Buyers, balance) - balance[b] + balance'[b]
  BY <1>1, <1>2, SumChanges
<1>4. SumOver(Buyers, balance) \in Int /\ balance[b] \in Int
  BY <1>1, SumTyped
<1>5. QED
  BY <1>2, <1>3, <1>4

LEMMA Adds ==
  ASSUME TypeOK, NEW b \in Buyers, NEW d \in Int, balance' = [balance EXCEPT ![b] = @ + d]
  PROVE  Gains(b, d)
  BY DEF Gains, TypeOK

(* A hold takes from a balance what the row says.                          *)
LEMMA HoldConserves ==
  ASSUME TypeOK, NEW k \in Keys, spend[k].status \in {"absent", "failed"},
         NEW b \in Buyers, NEW amount \in Nat, Hold(k, b, amount)
  PROVE  SumOver(Buyers, balance') + SumOver(Taken', Amount')
           = SumOver(Buyers, balance) + SumOver(Taken, Amount)
<1>1. /\ \A i \in Keys : i # k => spend'[i] = spend[i]
      /\ spend'[k].status = "pending" /\ spend'[k].amount = amount
  BY DEF Hold, TypeOK
<1>2. SumOver(Buyers, balance') = SumOver(Buyers, balance) + (0 - amount)
  <2>1. balance[b] \in Int /\ balance[b] - amount = balance[b] + (0 - amount)
        /\ 0 - amount \in Int
    BY DEF TypeOK
  <2>2. balance' = [balance EXCEPT ![b] = balance[b] + (0 - amount)]
    BY <2>1 DEF Hold
  <2>3. QED
    BY <2>1, <2>2, Adds, BalanceGains
<1>3. /\ Taken' = Taken \cup {k} /\ k \notin Taken
      /\ Amount'[k] = amount
      /\ \A i \in Taken : Amount'[i] = Amount[i] /\ Amount'[i] \in Int
  <2>1. \A i \in Keys : Amount'[i] = spend'[i].amount /\ Amount[i] = spend[i].amount
    BY DEF Amount
  <2>2. Taken' = Taken \cup {k} /\ k \notin Taken
    BY <1>1 DEF Taken
  <2>3. \A i \in Taken : i \in Keys /\ i # k /\ Amount[i] \in Int
    BY <2>2, StoreFinite DEF Taken
  <2>4. QED
    BY <1>1, <2>1, <2>2, <2>3
<1>4. SumOver(Taken', Amount') = amount + SumOver(Taken, Amount')
  <2>1. IsFiniteSet(Taken) /\ \A i \in Taken \cup {k} : Amount'[i] \in Int
    BY <1>3, StoreFinite
  <2>2. QED
    BY <1>3, <2>1, SumWith
<1>5. SumOver(Taken, Amount') = SumOver(Taken, Amount)
  BY <1>3, StoreFinite, SumSame
<1>6. SumOver(Buyers, balance) \in Int /\ SumOver(Taken, Amount) \in Int
  BY StoreFinite
<1>7. QED
  BY <1>2, <1>4, <1>5, <1>6

(* A release gives it back.                                                *)
LEMMA ReleaseConserves ==
  ASSUME TypeOK, NEW k \in Keys, CompleteFailed(k), spend[k].status # "absent"
  PROVE  SumOver(Buyers, balance') + SumOver(Taken', Amount')
           = SumOver(Buyers, balance) + SumOver(Taken, Amount)
<1>1. CASE spend[k].status # "pending"
  <2>1. /\ balance' = balance
        /\ \A i \in Keys : /\ spend'[i].amount = spend[i].amount
                           /\ spend'[i].status = spend[i].status
    BY <1>1 DEF CompleteFailed, TypeOK, Row
  <2>2. Taken' = Taken /\ Amount' = Amount
    BY <2>1 DEF Taken, Amount
  <2>3. QED
    BY <2>1, <2>2
<1>2. CASE spend[k].status = "pending"
  <2> DEFINE amount == spend[k].amount
             b == spend[k].buyer
  <2>1. /\ balance' = [balance EXCEPT ![b] = @ + amount] /\ b \in Buyers /\ amount \in Int
        /\ \A i \in Keys : /\ spend'[i].amount = spend[i].amount
                           /\ i # k => spend'[i].status = spend[i].status
        /\ spend'[k].status = "failed"
    BY <1>2 DEF CompleteFailed, TypeOK, Row
  <2>2. SumOver(Buyers, balance') = SumOver(Buyers, balance) + amount
    BY <2>1, Adds, BalanceGains
  <2>3. Taken' = Taken \ {k} /\ k \in Taken /\ Amount' = Amount
    BY <1>2, <2>1 DEF Taken, Amount
  <2>4. \A i \in Taken : Amount[i] \in Int
    BY StoreFinite DEF Taken
  <2>5. SumOver(Taken, Amount) = Amount[k] + SumOver(Taken \ {k}, Amount)
    BY <2>3, <2>4, StoreFinite, SumWithout
  <2>6. IsFiniteSet(Taken \ {k}) /\ \A i \in Taken \ {k} : Amount[i] \in Int
    BY <2>4, StoreFinite, FS_Subset
  <2>7. SumOver(Taken \ {k}, Amount) \in Int /\ Amount[k] = amount
    BY <2>6, StoreFinite, SumTyped
  <2>8. SumOver(Buyers, balance) \in Int
    BY StoreFinite
  <2> HIDE DEF amount, b
  <2>9. QED
    BY <2>1, <2>2, <2>3, <2>5, <2>7, <2>8
<1>3. QED
  BY <1>1, <1>2

(* A credit is what the checkout paid.                                     *)
LEMMA CreditConserves ==
  ASSUME TypeOK, FundedInv, NEW f \in DOMAIN Fundings, StripeWebhook(f)
  PROVE  /\ SumOver(Buyers, balance') = SumOver(Buyers, balance) + Fundings[f].amount
         /\ Credited' = Credited + Fundings[f].amount
<1> DEFINE v == [g \in DOMAIN Fundings |-> Fundings[g].amount]
<1>1. /\ f \notin funded /\ funded' = funded \cup {f} /\ session' = session
      /\ session[f] = "paid"
      /\ balance' = [balance EXCEPT ![Fundings[f].buyer] = @ + Fundings[f].amount]
  BY DEF StripeWebhook, Creditable, CreditFromFunding
<1>2. SumOver(Buyers, balance') = SumOver(Buyers, balance) + Fundings[f].amount
  BY <1>1, StoreFinite, Adds, BalanceGains
<1>3. /\ {g \in funded : session[g] = "paid"} = funded
      /\ {g \in funded' : session'[g] = "paid"} = funded \cup {f}
  BY <1>1 DEF FundedInv
<1>4. \A g \in funded \cup {f} : v[g] \in Int /\ v[f] = Fundings[f].amount
  BY StoreFinite DEF TypeOK
<1>5. \A g \in funded : v[g] \in Int
  BY <1>4
<1> HIDE DEF v
<1>6. SumOver(funded \cup {f}, v) = v[f] + SumOver(funded, v)
  BY <1>1, <1>4, StoreFinite, SumWith
<1>7. SumOver(funded, v) \in Int
  BY <1>5, StoreFinite, SumTyped
<1>8. Credited = SumOver(funded, v) /\ Credited' = SumOver(funded \cup {f}, v)
  BY <1>3 DEF Credited, v
<1>9. Fundings[f].amount \in Int /\ v[f] = Fundings[f].amount
  BY <1>4, StoreFinite
<1>10. QED
  BY <1>2, <1>6, <1>7, <1>8, <1>9

(* What stays, when no spend, balance or credit is touched.                *)
LEMMA QuietConserves ==
  ASSUME UNCHANGED <<balance, spend, funded>>, FundedInv, FundedInv'
  PROVE  SumOver(Buyers, balance') + SumOver(Taken', Amount')
           = SumOver(Buyers, balance) + SumOver(Taken, Amount)
         /\ Credited' = Credited
<1>1. Taken' = Taken /\ Amount' = Amount
  BY DEF Taken, Amount
<1>2. {f \in funded' : session'[f] = "paid"} = {f \in funded : session[f] = "paid"}
  BY DEF FundedInv
<1>3. Credited' = Credited
  BY <1>2 DEF Credited
<1>4. QED
  BY <1>1, <1>3

LEMMA FundedStep ==
  ASSUME TypeOK, FundedInv, [Next]_vars
  PROVE  FundedInv'
<1>1. ASSUME NEW f \in DOMAIN Fundings,
             CreateCheckoutSession(f) \/ CompleteCheckout(f) \/ StripeWebhook(f)
      PROVE  FundedInv'
  BY <1>1 DEF CreateCheckoutSession, CompleteCheckout, StripeWebhook, Creditable,
       CreditFromFunding, FundedInv, TypeOK
<1>2. CASE UNCHANGED fundVars
  BY <1>2 DEF fundVars, FundedInv
<1>3. ASSUME NEW l \in Listings,
             \/ \E row \in Offers : CreateListing(l, row) \/ UpdateListing(l, row)
             \/ DeleteListing(l)
      PROVE  UNCHANGED fundVars
  BY <1>3 DEF CreateListing, UpdateListing, DeleteListing, Edit
<1>4. ASSUME NEW r \in Reqs, Invoke(r)
      PROVE  UNCHANGED fundVars
  BY <1>4 DEF Invoke, BeginSpend, Refuse, UrlThrows, UpstreamSucceeds, UpstreamFails,
       Enqueue, EnqueueFails, Transfer, MarkPaid, MarkFailed
<1>5. ASSUME NEW w \in Flushes, FlushPending(w)
      PROVE  UNCHANGED fundVars
  BY <1>5 DEF FlushPending, ListPending, FlushRow, FlushEnds, Transfer, MarkPaid, MarkFailed
<1>6. ASSUME NEW W \in SUBSET Workers, Crash(W)
      PROVE  UNCHANGED fundVars
  BY <1>6 DEF Crash
<1>7. CASE UNCHANGED vars
  BY <1>2, <1>7 DEF vars
<1>8. QED
  BY <1>1, <1>2, <1>3, <1>4, <1>5, <1>6, <1>7 DEF Next

LEMMA ConservationStep ==
  ASSUME TypeOK, StoreInv, FundedInv, Conservation, [Next]_vars
  PROVE  Conservation'
<1> DEFINE Before == SumOver(Buyers, balance) + SumOver(Taken, Amount)
           After  == SumOver(Buyers, balance') + SumOver(Taken', Amount')
<1>1. SUFFICES After = Credited'
  BY DEF Conservation, Taken, Amount, Credited
<1>2. Before = Credited /\ FundedInv'
  BY ConservationIs, FundedStep
<1>3. SumOver(Buyers, balance) \in Int /\ SumOver(Taken, Amount) \in Int
  BY StoreFinite
<1>4. Reqs \subseteq Workers /\ Flushes \subseteq Workers
  BY DEF Workers
<1>5. ASSUME NEW f \in DOMAIN Fundings, StripeWebhook(f)
      PROVE  After = Credited'
  <2>1. Taken' = Taken /\ Amount' = Amount
    BY <1>5 DEF StripeWebhook, CreditFromFunding, Taken, Amount
  <2>2. /\ SumOver(Buyers, balance') = SumOver(Buyers, balance) + Fundings[f].amount
        /\ Credited' = Credited + Fundings[f].amount /\ Fundings[f].amount \in Int
    BY <1>5, CreditConserves, StoreFinite
  <2>3. QED
    BY <1>2, <1>3, <2>1, <2>2
<1>6. ASSUME After = Before, UNCHANGED <<funded, session>>
      PROVE  After = Credited'
  <2>1. Credited' = Credited
    BY <1>6 DEF Credited
  <2>2. QED
    BY <1>2, <1>6, <2>1
<1>7. ASSUME UNCHANGED <<balance, spend, funded>>
      PROVE  After = Credited'
  <2>1. After = Before /\ Credited' = Credited
    BY <1>2, <1>7, QuietConserves
  <2>2. QED
    BY <1>2, <2>1
<1> HIDE DEF Before, After
<1>8. ASSUME NEW r \in Reqs, NEW k \in Keys, NEW b \in Buyers, NEW l \in Listings,
             BeginSpend(r, k, b, l)
      PROVE  After = Credited'
  <2>1. /\ spend[k].status \in {"absent", "failed"} /\ listing[l].price \in Nat
        /\ Hold(k, b, listing[l].price) /\ UNCHANGED fundVars
    BY <1>8, StoreAssumption DEF BeginSpend, TypeOK, Listing
  <2>2. After = Before
    BY <2>1, HoldConserves DEF After, Before
  <2>3. QED
    BY <1>6, <2>1, <2>2 DEF fundVars
<1>9. ASSUME NEW r \in Reqs, UpstreamFails(r) \/ EnqueueFails(r)
      PROVE  After = Credited'
  <2>1. key[r] \in Keys /\ spend[key[r]].status # "absent"
    BY <1>4, <1>9 DEF UpstreamFails, EnqueueFails, StoreInv, HoldInv, DebitInv, TypeOK
  <2>2. CompleteFailed(key[r]) /\ UNCHANGED fundVars
    BY <1>9 DEF UpstreamFails, EnqueueFails
  <2>3. After = Before
    BY <2>1, <2>2, ReleaseConserves DEF After, Before
  <2>4. QED
    BY <1>6, <2>2, <2>3 DEF fundVars
<1>10. ASSUME NEW r \in Reqs, UpstreamSucceeds(r)
       PROVE  After = Credited'
  <2>1. /\ key[r] \in Keys /\ spend[key[r]].status = "pending"
        /\ CompleteSettled(key[r]) /\ UNCHANGED fundVars
    BY <1>4, <1>10 DEF UpstreamSucceeds, StoreInv, HoldInv, TypeOK
  <2>2. /\ balance' = balance
        /\ \A i \in Keys : /\ spend'[i].amount = spend[i].amount
                           /\ i # key[r] => spend'[i].status = spend[i].status
        /\ spend'[key[r]].status = "settled"
    BY <2>1 DEF CompleteSettled, TypeOK, Row
  <2>3. Taken' = Taken /\ Amount' = Amount
    BY <2>1, <2>2 DEF Taken, Amount
  <2>4. After = Before
    BY <2>2, <2>3 DEF After, Before
  <2>5. QED
    BY <1>6, <2>1, <2>4 DEF fundVars
<1>11. ASSUME NEW r \in Reqs, Refuse(r) \/ UrlThrows(r) \/ Enqueue(r)
       PROVE  After = Credited'
  BY <1>7, <1>11 DEF Refuse, UrlThrows, Enqueue, fundVars
<1>12. ASSUME NEW w \in Workers, Transfer(w) \/ MarkPaid(w) \/ MarkFailed(w)
       PROVE  After = Credited'
  BY <1>7, <1>12 DEF Transfer, MarkPaid, MarkFailed, fundVars
<1>13. ASSUME NEW w \in Flushes,
              ListPending(w) \/ FlushEnds(w) \/ (\E row \in todo[w] : FlushRow(w, row))
       PROVE  After = Credited'
  BY <1>7, <1>13 DEF ListPending, FlushRow, FlushEnds, fundVars
<1>14. ASSUME NEW l \in Listings,
              \/ \E row \in Offers : CreateListing(l, row) \/ UpdateListing(l, row)
              \/ DeleteListing(l)
       PROVE  After = Credited'
  BY <1>7, <1>14 DEF CreateListing, UpdateListing, DeleteListing, Edit, fundVars
<1>15. ASSUME NEW f \in DOMAIN Fundings, CreateCheckoutSession(f) \/ CompleteCheckout(f)
       PROVE  After = Credited'
  BY <1>7, <1>15 DEF CreateCheckoutSession, CompleteCheckout
<1>16. ASSUME NEW W \in SUBSET Workers, Crash(W)
       PROVE  After = Credited'
  BY <1>7, <1>16 DEF Crash, fundVars
<1>17. CASE UNCHANGED vars
  BY <1>7, <1>17 DEF vars, fundVars
<1>18. QED
  BY <1>4, <1>5, <1>8, <1>9, <1>10, <1>11, <1>12, <1>13, <1>14, <1>15, <1>16, <1>17
     DEF Next, Invoke, FlushPending

LEMMA ConservationInit ==
  ASSUME Init
  PROVE  FundedInv /\ Conservation
<1>1. FundedInv /\ Taken = {} /\ {f \in funded : session[f] = "paid"} = {}
  BY DEF Init, FundedInv, Taken
<1>2. SumOver(Taken, Amount) = 0 /\ Credited = 0
  BY <1>1, SumOfNone DEF Credited
<1>3. SumOver(Buyers, balance) = 0
  <2>1. IsFiniteSet(Buyers) /\ \A b \in Buyers : balance[b] = 0
    BY InitTypeOK, StoreFinite DEF Init
  <2>2. QED
    BY <2>1, SumOfZeros
<1>4. QED
  BY <1>1, <1>2, <1>3, ConservationIs

(* What buyers have, what is held and what is settled add up to what the   *)
(* paid checkouts credited, for any number of buyers, keys, checkouts and  *)
(* workers: no interleaving of the store's transactions makes or loses a   *)
(* credit.                                                                 *)
THEOREM CreditsAreConserved == Spec => []Conservation
<1>1. Init => FundedInv /\ Conservation
  BY ConservationInit
<1>2. TypeOK /\ StoreInv /\ FundedInv /\ Conservation /\ [Next]_vars
        => (FundedInv /\ Conservation)'
  BY FundedStep, ConservationStep
<1>3. QED
  BY <1>1, <1>2, StoreInvariant, PTL DEF Spec
=============================================================================
