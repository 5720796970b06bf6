---------------------------- MODULE PaywallProofs ----------------------------
(***************************************************************************)
(* Theorems about Paywall, for every set of requests, keys and payments,   *)
(* every budget, any number of retries and restarts, and a settler that    *)
(* may lose answers.                                                       *)
(***************************************************************************)
EXTENDS Paywall, TLAPS

-----------------------------------------------------------------------------
(* The ledger's operators                                                  *)

(* beginPending leaves a well-typed row, and changes it only by claiming.  *)
LEMMA BeginPendingRow ==
  ASSUME NEW row \in RowOf(Tokens), NEW t \in Nat
  PROVE  /\ BeginPending(row, t) \in RowOf(Tokens)
         /\ ClaimKind(row) \in {"claimed", "already_settled", "in_flight"}
         /\ ClaimKind(row) = "claimed" =>
              /\ row.status \notin {"settled", "pending"}
              /\ BeginPending(row, t).status = "pending"
              /\ BeginPending(row, t).tx = NoTx
         /\ ClaimKind(row) = "already_settled" => row.status = "settled"
         /\ ClaimKind(row) = "in_flight" => row.status = "pending"
         /\ ClaimKind(row) # "claimed" => BeginPending(row, t) = row
  <1>1. CASE row.status = "settled"
    BY <1>1 DEF BeginPending, ClaimKind
  <1>2. CASE row.status = "pending"
    BY <1>2 DEF BeginPending, ClaimKind
  <1>3. CASE row.status \notin {"settled", "pending"}
    <2>1. ClaimKind(row) = "claimed"
      BY <1>3 DEF ClaimKind
    <2>2. row.created \in Nat
      BY DEF RowOf
    <2> QED
      BY <1>3, <2>1, <2>2 DEF BeginPending, RowOf, Status
  <1> QED
    BY <1>1, <1>2, <1>3

(* recordSettlement leaves a well-typed row, and a settled one as it is.   *)
LEMMA RecordSettlementRow ==
  ASSUME NEW row \in RowOf(Tokens), NEW t \in Nat,
         NEW status \in Status, NEW tx \in Tokens \cup {NoTx}
  PROVE  /\ RecordSettlement(row, status, tx, t) \in RowOf(Tokens)
         /\ row.status = "settled" => RecordSettlement(row, status, tx, t) = row
         /\ row.status # "settled" =>
              /\ RecordSettlement(row, status, tx, t).status = status
              /\ RecordSettlement(row, status, tx, t).tx = tx
  BY DEF RecordSettlement, RowOf

-----------------------------------------------------------------------------
(* Steps                                                                   *)

(* The lemmas below are about more steps than those of Spec: requests may  *)
(* also be cut off one by one, so that they hold of every system in which  *)
(* the requests follow the two hooks (PaidMcp is one).                     *)
Loss == \E P \in SUBSET {r \in Reqs : Active(r)} : Cut(P) /\ crashes' \in Nat

Step == [Next]_vars \/ Loss

LEMMA NextIsStep == [Next]_vars => Step
  BY DEF Step

LEMMA CrashIsLoss ==
  ASSUME TypeOK, NEW P \in SUBSET Reqs, Crash(P)
  PROVE  Loss
  BY DEF Crash, Loss, TypeOK

LEMMA StepCases ==
  ASSUME TypeOK, Step
  PROVE  \/ \E r \in Reqs, k \in Keys : \E o \in Offers[k] : Arrive(r, k, o)
         \/ \E r \in Reqs : Turn(r) /\ Serve(r)
         \/ \E c \in posted : SettlerExecutes(c)
         \/ \E r \in Reqs : BillingHears(r)
         \/ Loss
         \/ Tick
         \/ UNCHANGED vars
  <1>1. \A r \in Reqs : Process(r) \in SUBSET Reqs
    BY DEF Process
  <1> QED
    BY <1>1, CrashIsLoss DEF Step, Next

-----------------------------------------------------------------------------
(* Type correctness                                                        *)

(* What the lemmas about claims and outcomes use of the types: they do not *)
(* depend on the points a request goes through (PostgresPaywall has more). *)
Typed ==
  /\ pc = [r \in Reqs |-> pc[r]]
  /\ key \in [Reqs -> Keys]
  /\ offer \in [Reqs -> AllOffers]
  /\ receipt \in [Reqs -> Tokens \cup {NoTx}]
  /\ reply \in [Reqs -> Replies]
  /\ ledger \in [Keys -> RowOf(Tokens)]
  /\ charges \subseteq Calls
  /\ now \in Nat

LEMMA TypeIsTyped == TypeOK => Typed
  BY DEF TypeOK, Typed

LEMMA InitTypeOK == Init => TypeOK
  <1> SUFFICES ASSUME Init PROVE TypeOK
    OBVIOUS
  <1>1. (CHOOSE k \in Keys : TRUE) \in Keys
    BY ConstantsAssumption
  <1>2. (CHOOSE o \in AllOffers : TRUE) \in AllOffers
    BY ConstantsAssumption
  <1>3. NoRow \in RowOf(Tokens)
    BY DEF NoRow, RowOf, Status
  <1> QED
    BY <1>1, <1>2, <1>3 DEF Init, TypeOK, PCs, Replies

(* The settle call of a request is one the settler may be sent.            *)
LEMMA CallType ==
  ASSUME Typed, NEW r \in Reqs
  PROVE  Call(r) \in Calls /\ Call(r).token \in Tokens /\ Call(r).key = key[r]
  <1>1. key[r] \in Keys /\ offer[r] \in Payment
    BY ConstantsAssumption DEF Typed, AllOffers
  <1> QED
    BY <1>1 DEF Call, Calls, Token, Tokens, Payment

LEMMA TypeStep == TypeOK /\ Step => TypeOK'
  <1> SUFFICES ASSUME TypeOK, Step PROVE TypeOK'
    OBVIOUS
  <1> USE DEF TypeOK, PCs, Replies, reqVars, extVars, envVars, Goto, Finish
  <1>1. ASSUME NEW r \in Reqs, NEW k \in Keys, NEW o \in Offers[k], Arrive(r, k, o)
        PROVE  TypeOK'
    BY <1>1 DEF Arrive, AllOffers
  <1>2. ASSUME NEW r \in Reqs, Refuse(r)  PROVE TypeOK'
    BY <1>2 DEF Refuse
  <1>3. ASSUME NEW r \in Reqs, CheckBudget(r)  PROVE TypeOK'
    BY <1>3 DEF CheckBudget
  <1>4. ASSUME NEW r \in Reqs, Claim(r)  PROVE TypeOK'
    <2>1. ledger[key[r]] \in RowOf(Tokens)
      OBVIOUS
    <2>2. /\ ledger' = [ledger EXCEPT ![key[r]] = BeginPending(ledger[key[r]], now)]
          /\ ledger' \in [Keys -> RowOf(Tokens)]
      BY <1>4, <2>1, BeginPendingRow DEF Claim
    <2>3. ledger[key[r]].tx \in Tokens \cup {NoTx}
      BY <2>1 DEF RowOf
    <2> QED
      BY <1>4, <2>2, <2>3 DEF Claim
  <1>5. ASSUME NEW r \in Reqs, VerifyAccepts(r)  PROVE TypeOK'
    BY <1>5 DEF VerifyAccepts
  <1>6. ASSUME NEW r \in Reqs, NEW status \in {"failed", "settled"},
               NEW tx \in Tokens \cup {NoTx}, Record(r, status, tx)
        PROVE  ledger' \in [Keys -> RowOf(Tokens)]
    <2>1. ledger[key[r]] \in RowOf(Tokens)
      OBVIOUS
    <2> QED
      BY <1>6, <2>1, RecordSettlementRow DEF Record, Status
  <1>7. ASSUME NEW r \in Reqs, VerifyFails(r)  PROVE TypeOK'
    BY <1>6, <1>7 DEF VerifyFails
  <1>8. ASSUME NEW r \in Reqs, NEW s \in {"2xx", "error"}, HandlerReplies(r, s)
        PROVE  TypeOK'
    BY <1>8 DEF HandlerReplies
  <1>9. ASSUME NEW r \in Reqs, SendPrior(r)  PROVE TypeOK'
    BY <1>9 DEF SendPrior
  <1>10. ASSUME NEW r \in Reqs, ReleaseOnError(r)  PROVE TypeOK'
    BY <1>6, <1>10 DEF ReleaseOnError
  <1>11. ASSUME NEW r \in Reqs, PostSettle(r)  PROVE TypeOK'
    BY <1>11, TypeIsTyped, CallType DEF PostSettle
  <1>12. ASSUME NEW r \in Reqs, SettleSucceeds(r)  PROVE TypeOK'
    BY <1>6, <1>12, TypeIsTyped, CallType DEF SettleSucceeds
  <1>13. ASSUME NEW r \in Reqs, SettleRefused(r)  PROVE TypeOK'
    BY <1>6, <1>13, TypeIsTyped, CallType DEF SettleRefused, Withdrawn
  <1>14. ASSUME NEW r \in Reqs, SettleRetries(r)  PROVE TypeOK'
    BY <1>14 DEF SettleRetries, AttemptFails, Withdrawn
  <1>15. ASSUME NEW r \in Reqs, SettleThrows(r)  PROVE TypeOK'
    BY <1>6, <1>15 DEF SettleThrows, AttemptFails, Withdrawn
  <1>16. ASSUME NEW r \in Reqs, Notify(r)  PROVE TypeOK'
    BY <1>16 DEF Notify
  <1>22. ASSUME NEW r \in Reqs, SettleRethrows(r)  PROVE TypeOK'
    BY <1>6, <1>22 DEF SettleRethrows, AttemptFails, Withdrawn
  <1>23. ASSUME NEW r \in Reqs, Rerun(r)  PROVE TypeOK'
    BY <1>6, <1>23 DEF Rerun
  <1>17. ASSUME NEW c \in posted, SettlerExecutes(c)  PROVE TypeOK'
    BY <1>17 DEF SettlerExecutes, Withdrawn
  <1>18. CASE Loss
    BY <1>18 DEF Loss, Cut
  <1>21. ASSUME NEW r \in Reqs, BillingHears(r)  PROVE TypeOK'
    BY <1>21 DEF BillingHears
  <1>19. CASE Tick
    BY <1>19, ConstantsAssumption DEF Tick
  <1>20. CASE UNCHANGED vars
    BY <1>20 DEF vars
  <1> QED
    BY <1>1, <1>2, <1>3, <1>4, <1>5, <1>7, <1>8, <1>9, <1>10, <1>11, <1>12,
       <1>13, <1>14, <1>15, <1>16, <1>17, <1>18, <1>19, <1>20, <1>21, <1>22,
       <1>23, StepCases
    DEF Serve

(* Type correctness: every state of the paywall has the declared types.    *)
THEOREM TypeCorrect == Spec => []TypeOK
  BY InitTypeOK, TypeStep, NextIsStep, PTL DEF Spec

(* A request that was cut off stays where it was.                          *)
LEMMA CutOffKept ==
  ASSUME TypeOK, Step, NEW q \in Reqs, CutOff(q)
  PROVE  CutOff(q)' /\ key'[q] = key[q]
  <1> USE DEF Goto, Finish, reqVars, extVars, envVars, TypeOK, CutOff
  <1>1. ASSUME NEW r \in Reqs, NEW k \in Keys, NEW o \in Offers[k], Arrive(r, k, o)
        PROVE  CutOff(q)' /\ key'[q] = key[q]
    BY <1>1 DEF Arrive
  <1>2. ASSUME NEW r \in Reqs, Serve(r)
        PROVE  CutOff(q)' /\ key'[q] = key[q]
    BY <1>2 DEF Serve, Refuse, CheckBudget, Claim, VerifyAccepts, VerifyFails,
         HandlerReplies, SendPrior, ReleaseOnError, PostSettle, ReadyToSettle,
         SettleSucceeds, SettleRefused, SettleRetries, SettleThrows,
         SettleRethrows, AttemptFails, Rerun, Notify
  <1>3. CASE Loss
    BY <1>3 DEF Loss, Cut
  <1>4. CASE Tick \/ UNCHANGED vars \/ \E c \in posted : SettlerExecutes(c)
    BY <1>4 DEF Tick, vars, SettlerExecutes
  <1>5. ASSUME NEW r \in Reqs, BillingHears(r)
        PROVE  CutOff(q)' /\ key'[q] = key[q]
    BY <1>5 DEF BillingHears
  <1> HIDE DEF Goto, Finish, reqVars, extVars, envVars, CutOff
  <1> QED
    BY <1>1, <1>2, <1>3, <1>4, <1>5, StepCases

-----------------------------------------------------------------------------
(* Claims                                                                  *)

(* The invariant of the claims promises something of the keys that no      *)
(* rerun has freed.  The lemmas about one step are about any set K of      *)
(* keys, as the set of freed keys may grow in the step.                    *)

LEMMA InitClaimInv == Init => ClaimInv
  BY DEF Init, ClaimInv, ClaimInvOn, ExclusiveOn, PendingHasOwner, NoReceiptYet,
         ReceiptsAgreeOn, ReceiptsCharged, SettledIsCharged, Owning, NoRow

(* The transaction of a settled row is a real one.                         *)
LEMMA SettledTx ==
  ASSUME Typed, SettledIsCharged, NEW k \in Keys, ledger[k].status = "settled"
  PROVE  ledger[k].tx # NoTx
  BY ConstantsAssumption DEF Typed, SettledIsCharged, Spent, Calls

(* A step that leaves the ledger, the receipts and the owners alone keeps  *)
(* the invariant.                                                          *)
LEMMA QuietStep ==
  ASSUME NEW K, ClaimInvOn(K), UNCHANGED <<key, receipt, ledger>>,
         charges \subseteq charges',
         \A r \in Reqs : Owning(r)' <=> Owning(r),
         \A r \in Reqs : CutOff(r) => CutOff(r)',
         NoReceiptYet'
  PROVE  ClaimInvOn(K)'
  <1>1. ExclusiveOn(K)' /\ PendingHasOwner'
    BY DEF ClaimInvOn, ExclusiveOn, PendingHasOwner
  <1>2. ReceiptsAgreeOn(K)' /\ ReceiptsCharged' /\ SettledIsCharged'
    BY DEF ClaimInvOn, ReceiptsAgreeOn, ReceiptsCharged, SettledIsCharged, Spent
  <1> QED
    BY <1>1, <1>2 DEF ClaimInvOn

(* What recordSettlement leaves of the row of a request's key.             *)
LEMMA RecordedRow ==
  ASSUME Typed, NEW r \in Reqs, NEW status \in {"failed", "settled"},
         NEW tx \in Tokens \cup {NoTx}, Record(r, status, tx)
  PROVE  /\ key[r] \in Keys
         /\ ledger' \in [Keys -> RowOf(Tokens)]
         /\ \A k \in Keys \ {key[r]} : ledger'[k] = ledger[k]
         /\ ledger[key[r]].status = "settled" => ledger'[key[r]] = ledger[key[r]]
         /\ ledger[key[r]].status # "settled" =>
              ledger'[key[r]].status = status /\ ledger'[key[r]].tx = tx
  <1>1. /\ key[r] \in Keys /\ ledger[key[r]] \in RowOf(Tokens) /\ now \in Nat
        /\ status \in Status
    BY DEF Typed, Status
  <1>2. /\ ledger' = [ledger EXCEPT ![key[r]] =
                        RecordSettlement(ledger[key[r]], status, tx, now)]
        /\ ledger \in [Keys -> RowOf(Tokens)]
    BY DEF Record, Typed
  <1> QED
    BY <1>1, <1>2, RecordSettlementRow

(* The owner of a key records an outcome and gives up its claim: the row   *)
(* is pending until then, so that no receipt for the key is out, and no    *)
(* other request owns it.                                                  *)
LEMMA OutcomeStep ==
  ASSUME NEW K, Typed, ClaimInvOn(K), NEW r \in Reqs, Owning(r),
         NEW status \in {"failed", "settled"}, NEW tx \in Tokens \cup {NoTx},
         Record(r, status, tx),
         status = "settled" => Spent(tx),
         UNCHANGED key, charges' = charges,
         \A q \in Reqs : CutOff(q) => CutOff(q)',
         \A q \in Reqs : Owning(q)' <=> (Owning(q) /\ q # r),
         \A q \in Reqs \ {r} : receipt'[q] = receipt[q],
         receipt'[r] # NoTx => (status = "settled" /\ receipt'[r] = tx),
         NoReceiptYet'
  PROVE  ClaimInvOn(K)'
  <1> DEFINE k == key[r]
  <1>1. \A q \in Reqs : key[q] \in Keys
    BY DEF Typed
  <1>2. k \in K =>
          /\ ledger[k].status = "pending"
          /\ \A q \in Reqs : Owning(q) /\ key[q] = k => q = r
    BY DEF ClaimInvOn, ExclusiveOn
  <1>3. /\ k \in Keys
        /\ \A j \in Keys \ {k} : ledger'[j] = ledger[j]
        /\ ledger[k].status = "settled" => ledger'[k] = ledger[k]
        /\ ledger[k].status # "settled" =>
             ledger'[k].status = status /\ ledger'[k].tx = tx
    BY RecordedRow
  <1>6. ExclusiveOn(K)'
    BY <1>1, <1>2, <1>3 DEF ClaimInvOn, ExclusiveOn
  <1>7. PendingHasOwner'
    BY <1>1, <1>3 DEF ClaimInvOn, PendingHasOwner
  <1>8. ReceiptsAgreeOn(K)'
    BY <1>1, <1>2, <1>3 DEF ClaimInvOn, ReceiptsAgreeOn
  <1>9. ReceiptsCharged' /\ SettledIsCharged'
    BY <1>3 DEF ClaimInvOn, ReceiptsCharged, SettledIsCharged, Spent
  <1> QED
    BY <1>6, <1>7, <1>8, <1>9 DEF ClaimInvOn

(* The second run of the hook records a failure for a request that owns    *)
(* nothing any more: it meets no claim on the keys of K.                   *)
LEMMA RerunStep ==
  ASSUME NEW K, Typed, ClaimInvOn(K), NEW r \in Reqs,
         Record(r, "failed", NoTx),
         key[r] \in K => ledger[key[r]].status # "pending",
         UNCHANGED <<key, receipt, charges>>,
         \A q \in Reqs : Owning(q)' <=> Owning(q),
         \A q \in Reqs : CutOff(q) => CutOff(q)',
         NoReceiptYet'
  PROVE  ClaimInvOn(K)'
  <1> DEFINE k == key[r]
  <1>1. \A q \in Reqs : key[q] \in Keys
    BY DEF Typed
  <1>3. /\ k \in Keys
        /\ \A j \in Keys \ {k} : ledger'[j] = ledger[j]
        /\ ledger[k].status = "settled" => ledger'[k] = ledger[k]
        /\ ledger[k].status # "settled" => ledger'[k].status = "failed"
    BY RecordedRow
  <1>6. ExclusiveOn(K)'
    BY <1>1, <1>3 DEF ClaimInvOn, ExclusiveOn
  <1>7. PendingHasOwner'
    BY <1>1, <1>3 DEF ClaimInvOn, PendingHasOwner
  <1>8. ReceiptsAgreeOn(K)'
    BY <1>1, <1>3 DEF ClaimInvOn, ReceiptsAgreeOn
  <1>9. ReceiptsCharged' /\ SettledIsCharged'
    BY <1>3 DEF ClaimInvOn, ReceiptsCharged, SettledIsCharged, Spent
  <1> QED
    BY <1>6, <1>7, <1>8, <1>9 DEF ClaimInvOn

(* beginPending: a key is claimed only when its row is neither pending nor *)
(* settled, and the receipt of a settled key is the transaction in its row.*)
Claims(r) ==
  LET kind == ClaimKind(ledger[key[r]])
  IN  /\ receipt[r] = NoTx /\ ~ Owning(r) /\ ~ CutOff(r)
      /\ ledger' = [ledger EXCEPT ![key[r]] = BeginPending(@, now)]
      /\ UNCHANGED <<key, charges, freed>>
      /\ \/ /\ kind = "claimed"
            /\ pc' = [pc EXCEPT ![r] = "claimed"]
            /\ UNCHANGED <<receipt, reply>>
         \/ /\ kind = "already_settled"
            /\ pc' = [pc EXCEPT ![r] = "handling"]
            /\ receipt' = [receipt EXCEPT ![r] = ledger[key[r]].tx]
            /\ UNCHANGED reply
         \/ /\ kind = "in_flight"
            /\ pc' = [pc EXCEPT ![r] = "done"]
            /\ reply' = [reply EXCEPT ![r] = "409"]
            /\ UNCHANGED receipt

LEMMA ClaimIsClaims ==
  ASSUME NoReceiptYet, NEW r \in Reqs, Claim(r)
  PROVE  Claims(r)
  <1>1. receipt[r] = NoTx /\ ~ Owning(r) /\ ~ CutOff(r)
    BY DEF Claim, NoReceiptYet, Owning, CutOff
  <1> QED
    BY <1>1 DEF Claim, Claims, Goto, Finish, extVars, envVars

LEMMA ClaimStep ==
  ASSUME NEW K, Typed, ClaimInvOn(K), NEW r \in Reqs, Claims(r)
  PROVE  ClaimInvOn(K)'
  <1> DEFINE k == key[r]
  <1>1. /\ k \in Keys /\ ledger[k] \in RowOf(Tokens) /\ now \in Nat
        /\ \A q \in Reqs : key[q] \in Keys
    BY DEF Typed
  <1>2. /\ receipt[r] = NoTx /\ ~ Owning(r)
        /\ UNCHANGED <<key, charges>>
        /\ \A q \in Reqs : CutOff(q) => CutOff(q)'
    BY DEF Claims, CutOff, Typed
  <1>3. /\ ledger'[k] = BeginPending(ledger[k], now)
        /\ \A j \in Keys \ {k} : ledger'[j] = ledger[j]
    BY <1>1 DEF Claims, Typed
  <1>4. CASE ClaimKind(ledger[k]) = "claimed"
    <2>1. /\ ledger[k].status \notin {"settled", "pending"}
          /\ ledger'[k].status = "pending"
      BY <1>1, <1>3, <1>4, BeginPendingRow
    <2>2. pc' = [pc EXCEPT ![r] = "claimed"] /\ UNCHANGED receipt
      BY <1>4 DEF Claims
    <2>3. \A q \in Reqs : Owning(q)' <=> (Owning(q) \/ q = r)
      BY <1>2, <2>2 DEF Owning, Typed
    <2>4. \A q \in Reqs : key[q] = k => (k \in K => ~ Owning(q)) /\ receipt[q] = NoTx
      BY <2>1 DEF ClaimInvOn, ExclusiveOn, ReceiptsAgreeOn
    <2>5. ExclusiveOn(K)'
      BY <1>1, <1>2, <1>3, <2>1, <2>3, <2>4 DEF ClaimInvOn, ExclusiveOn
    <2>6. PendingHasOwner'
      BY <1>1, <1>2, <1>3, <2>3 DEF ClaimInvOn, PendingHasOwner
    <2>7. ReceiptsAgreeOn(K)'
      BY <1>1, <1>2, <1>3, <2>2, <2>4 DEF ClaimInvOn, ReceiptsAgreeOn
    <2>8. SettledIsCharged' /\ ReceiptsCharged'
      BY <1>2, <1>3, <2>1, <2>2 DEF ClaimInvOn, SettledIsCharged, ReceiptsCharged, Spent
    <2>9. NoReceiptYet'
      BY <1>2, <2>2 DEF ClaimInvOn, NoReceiptYet, Typed
    <2> QED
      BY <2>5, <2>6, <2>7, <2>8, <2>9 DEF ClaimInvOn
  <1>5. CASE ClaimKind(ledger[k]) = "already_settled"
    <2>1. ledger[k].status = "settled" /\ UNCHANGED ledger
      BY <1>1, <1>3, <1>5, BeginPendingRow DEF Claims, Typed
    <2>2. ledger[k].tx # NoTx
      BY <1>1, <2>1, SettledTx DEF ClaimInvOn
    <2>3. /\ pc' = [pc EXCEPT ![r] = "handling"]
          /\ receipt' = [receipt EXCEPT ![r] = ledger[k].tx]
      BY <1>5 DEF Claims
    <2>4. \A q \in Reqs : Owning(q)' <=> Owning(q)
      BY <1>2, <2>2, <2>3 DEF Owning, Typed
    <2>5. ExclusiveOn(K)' /\ PendingHasOwner'
      BY <1>2, <2>1, <2>4 DEF ClaimInvOn, ExclusiveOn, PendingHasOwner
    <2>6. ReceiptsAgreeOn(K)' /\ NoReceiptYet'
      BY <1>2, <2>1, <2>3 DEF ClaimInvOn, ReceiptsAgreeOn, NoReceiptYet, Typed
    <2>7. SettledIsCharged'
      BY <1>2, <2>1 DEF ClaimInvOn, SettledIsCharged, Spent
    <2>8. ReceiptsCharged'
      BY <1>1, <1>2, <2>1, <2>3 DEF ClaimInvOn, SettledIsCharged, ReceiptsCharged, Spent, Typed
    <2> QED
      BY <2>5, <2>6, <2>7, <2>8 DEF ClaimInvOn
  <1>6. CASE ClaimKind(ledger[k]) = "in_flight"
    <2>1. UNCHANGED <<ledger, receipt>>
      BY <1>1, <1>3, <1>6, BeginPendingRow DEF Claims, Typed
    <2>2. pc' = [pc EXCEPT ![r] = "done"]
      BY <1>6 DEF Claims
    <2>3. (\A q \in Reqs : Owning(q)' <=> Owning(q)) /\ NoReceiptYet'
      BY <1>2, <2>1, <2>2 DEF Owning, ClaimInvOn, NoReceiptYet, Typed
    <2> QED
      BY <1>2, <2>1, <2>3, QuietStep
  <1> QED
    BY <1>1, <1>4, <1>5, <1>6, BeginPendingRow

(* A request that arrives owns no key yet.                                 *)
LEMMA ArriveKeepsClaims ==
  ASSUME NEW K, Typed, ClaimInvOn(K),
         \A q \in Reqs : CutOff(q) => CutOff(q)' /\ key'[q] = key[q],
         NEW r \in Reqs, NEW k \in Keys, NEW o \in Offers[k], Arrive(r, k, o)
  PROVE  ClaimInvOn(K)'
  <1> USE DEF Goto, Finish, reqVars, extVars, envVars
  <1>1. /\ pc[r] = "idle" /\ receipt[r] = NoTx
        /\ pc' = [pc EXCEPT ![r] = "hook"]
        /\ key' = [key EXCEPT ![r] = k]
        /\ UNCHANGED <<receipt, ledger, charges>>
    BY DEF Arrive, ClaimInvOn, NoReceiptYet
  <1>2. \A q \in Reqs : (Owning(q)' <=> Owning(q)) /\ (Owning(q) => q # r)
    BY <1>1 DEF Owning, Typed
  <1>3. \A q \in Reqs \ {r} : key'[q] = key[q]
    BY <1>1 DEF Typed
  <1>4. ExclusiveOn(K)' /\ PendingHasOwner'
    BY <1>1, <1>2, <1>3 DEF ClaimInvOn, ExclusiveOn, PendingHasOwner
  <1>5. ReceiptsAgreeOn(K)' /\ NoReceiptYet'
    BY <1>1, <1>3 DEF ClaimInvOn, ReceiptsAgreeOn, NoReceiptYet, Typed
  <1>6. ReceiptsCharged' /\ SettledIsCharged'
    BY <1>1 DEF ClaimInvOn, ReceiptsCharged, SettledIsCharged, Spent
  <1> QED
    BY <1>4, <1>5, <1>6 DEF ClaimInvOn

(* The steps that neither claim a key nor record an outcome.               *)
Moves(r) ==
  \/ Refuse(r) \/ CheckBudget(r) \/ VerifyAccepts(r) \/ SendPrior(r)
  \/ PostSettle(r) \/ SettleRetries(r) \/ Notify(r)
  \/ \E s \in {"2xx", "error"} : HandlerReplies(r, s)

(* They leave the ledger, the receipts and the owners of the keys alone.   *)
LEMMA MoveIsQuiet ==
  ASSUME Typed, NoReceiptYet, NEW r \in Reqs, Moves(r)
  PROVE  /\ UNCHANGED <<key, receipt, ledger, charges, freed>>
         /\ \A q \in Reqs : Owning(q)' <=> Owning(q)
         /\ NoReceiptYet'
  <1> USE DEF Moves, Goto, Finish, reqVars, extVars, envVars
  <1>1. UNCHANGED <<key, receipt, ledger, charges, freed>>
    BY DEF Refuse, CheckBudget, VerifyAccepts, SendPrior, PostSettle,
           SettleRetries, Notify, HandlerReplies
  <1>2. \A q \in Reqs : Owning(q)' <=> Owning(q)
    BY <1>1 DEF Owning, Typed, NoReceiptYet, ReadyToSettle, AttemptFails,
         Refuse, CheckBudget, VerifyAccepts, SendPrior, PostSettle,
         SettleRetries, Notify, HandlerReplies
  <1>3. NoReceiptYet'
    BY <1>1 DEF Typed, NoReceiptYet, ReadyToSettle, AttemptFails, Refuse,
         CheckBudget, VerifyAccepts, SendPrior, PostSettle, SettleRetries,
         Notify, HandlerReplies
  <1> QED
    BY <1>1, <1>2, <1>3

(* Requests that are cut off leave their rows pending.                     *)
LEMMA CutKeepsClaims ==
  ASSUME NEW K, Typed, ClaimInvOn(K),
         \A q \in Reqs : CutOff(q) => CutOff(q)' /\ key'[q] = key[q],
         NEW P \in SUBSET {q \in Reqs : Active(q)}, Cut(P)
  PROVE  ClaimInvOn(K)'
  <1> USE DEF Goto, Finish, reqVars, extVars, envVars
  <1>1. /\ UNCHANGED <<key, receipt, ledger, charges>>
        /\ \A q \in Reqs : /\ q \in P => CutOff(q)' /\ ~ Owning(q)'
                           /\ q \notin P => pc'[q] = pc[q] /\ reply'[q] = reply[q]
    BY DEF Cut, CutOff, Owning
  <1>2. \A q \in Reqs : Owning(q)' <=> (Owning(q) /\ q \notin P)
    BY <1>1 DEF Owning
  <1>3. ExclusiveOn(K)' /\ ReceiptsAgreeOn(K)'
    BY <1>1, <1>2 DEF ClaimInvOn, ExclusiveOn, ReceiptsAgreeOn
  <1>6. ReceiptsCharged' /\ SettledIsCharged'
    BY <1>1 DEF ClaimInvOn, ReceiptsCharged, SettledIsCharged, Spent
  <1>4. PendingHasOwner'
    BY <1>1, <1>2 DEF ClaimInvOn, PendingHasOwner
  <1>5. NoReceiptYet'
    BY <1>1 DEF ClaimInvOn, NoReceiptYet, CutOff
  <1> QED
    BY <1>3, <1>4, <1>5, <1>6 DEF ClaimInvOn

(* A freed key stays freed.                                                *)
LEMMA FreedKept ==
  ASSUME TypeOK, Step
  PROVE  freed \subseteq freed'
  BY StepCases DEF Serve, Loss, vars, envVars, Arrive, Refuse, CheckBudget, Claim,
       VerifyAccepts, VerifyFails, HandlerReplies, SendPrior, ReleaseOnError,
       PostSettle, SettleSucceeds, SettleRefused, SettleRetries, SettleThrows,
       SettleRethrows, Rerun, Notify, SettlerExecutes, BillingHears, Cut, Tick

(* The invariant promises less of fewer keys.                              *)
LEMMA FewerClaims ==
  ASSUME NEW K, NEW L \in SUBSET K, ClaimInvOn(K)
  PROVE  ClaimInvOn(L)
  BY DEF ClaimInvOn, ExclusiveOn, ReceiptsAgreeOn

LEMMA ClaimInvStep == TypeOK /\ ClaimInv /\ Step => ClaimInv'
  <1> SUFFICES ASSUME TypeOK, ClaimInv, Step PROVE ClaimInv'
    OBVIOUS
  <1>9. PICK K : K = Keys \ freed'
    OBVIOUS
  <1>10. ClaimInvOn(K)
    BY <1>9, FreedKept, FewerClaims DEF ClaimInv
  <1>0. \A q \in Reqs : CutOff(q) => CutOff(q)' /\ key'[q] = key[q]
    BY CutOffKept
  <1> USE DEF Goto, Finish, reqVars, extVars, envVars
  <1>1. ASSUME NEW r \in Reqs, NEW k \in Keys, NEW o \in Offers[k], Arrive(r, k, o)
        PROVE  ClaimInvOn(K)'
    BY <1>0, <1>10, <1>1, TypeIsTyped, ArriveKeepsClaims
  <1>2. ASSUME NEW r \in Reqs, Moves(r)  PROVE ClaimInvOn(K)'
    BY <1>0, <1>10, <1>2, TypeIsTyped, MoveIsQuiet, QuietStep DEF ClaimInvOn
  <1>3. ASSUME NEW r \in Reqs, Claim(r)  PROVE ClaimInvOn(K)'
    BY <1>10, <1>3, TypeIsTyped, ClaimIsClaims, ClaimStep DEF ClaimInvOn
  <1>4. ASSUME NEW r \in Reqs,
               VerifyFails(r) \/ ReleaseOnError(r) \/ SettleRefused(r)
                 \/ SettleThrows(r) \/ SettleRethrows(r)
        PROVE  ClaimInvOn(K)'
    <2>1. Owning(r) /\ receipt[r] = NoTx
      BY <1>10, <1>4 DEF Owning, VerifyFails, ReleaseOnError, SettleRefused,
                  SettleThrows, SettleRethrows, AttemptFails, ClaimInvOn, NoReceiptYet
    <2>2. /\ UNCHANGED <<key, receipt, charges>>
          /\ pc' = [pc EXCEPT ![r] = "done"] \/ pc' = [pc EXCEPT ![r] = "rerun"]
      BY <1>4 DEF VerifyFails, ReleaseOnError, SettleRefused, SettleThrows,
                  SettleRethrows
    <2>5. PICK tx \in Tokens \cup {NoTx} : Record(r, "failed", tx)
      BY <1>4, TypeIsTyped, CallType DEF VerifyFails, ReleaseOnError, SettleRefused,
           SettleThrows, SettleRethrows
    <2>3. \A q \in Reqs : Owning(q)' <=> (Owning(q) /\ q # r)
      BY <2>2 DEF Owning, TypeOK
    <2>4. NoReceiptYet'
      BY <1>10, <2>1, <2>2 DEF ClaimInvOn, NoReceiptYet, TypeOK
    <2> QED
      BY <1>10, <2>1, <2>2, <2>3, <2>4, <2>5, <1>0, TypeIsTyped, OutcomeStep
  <1>5. ASSUME NEW r \in Reqs, SettleSucceeds(r)  PROVE ClaimInvOn(K)'
    <2> DEFINE t == Call(r).token
    <2>1. /\ Owning(r) /\ Spent(t) /\ t \in Tokens
          /\ Record(r, "settled", t)
          /\ UNCHANGED <<key, charges>>
          /\ pc' = [pc EXCEPT ![r] = "notifying"]
          /\ receipt' = [receipt EXCEPT ![r] = t]
      BY <1>5, TypeIsTyped, CallType DEF SettleSucceeds, Owning
    <2>2. \A q \in Reqs : Owning(q)' <=> (Owning(q) /\ q # r)
      BY <2>1 DEF Owning, TypeOK
    <2>3. /\ \A q \in Reqs \ {r} : receipt'[q] = receipt[q]
          /\ receipt'[r] = t
      BY <2>1 DEF TypeOK
    <2>4. NoReceiptYet'
      BY <1>10, <2>1 DEF ClaimInvOn, NoReceiptYet, TypeOK
    <2> HIDE DEF t
    <2> QED
      BY <1>0, <1>10, <2>1, <2>2, <2>3, <2>4, TypeIsTyped, OutcomeStep
  <1>11. ASSUME NEW r \in Reqs, Rerun(r)  PROVE ClaimInvOn(K)'
    <2>1. /\ pc[r] = "rerun" /\ Record(r, "failed", NoTx)
          /\ UNCHANGED <<key, receipt, charges>>
          /\ pc' = [pc EXCEPT ![r] = "done"]
          /\ freed' = freed \cup {k \in {key[r]} : ledger[k].status = "pending"}
      BY <1>11 DEF Rerun
    <2>2. key[r] \in K => ledger[key[r]].status # "pending"
      BY <1>9, <2>1
    <2>3. (\A q \in Reqs : Owning(q)' <=> Owning(q)) /\ NoReceiptYet'
      BY <1>10, <2>1 DEF Owning, ClaimInvOn, NoReceiptYet, TypeOK
    <2> QED
      BY <1>0, <1>10, <2>1, <2>2, <2>3, TypeIsTyped, RerunStep
  <1>6. ASSUME NEW c \in posted, SettlerExecutes(c)  PROVE ClaimInvOn(K)'
    <2>1. /\ UNCHANGED <<pc, key, receipt, ledger>>
          /\ charges \subseteq charges'
      BY <1>6 DEF SettlerExecutes
    <2>2. (\A q \in Reqs : Owning(q)' <=> Owning(q)) /\ NoReceiptYet'
      BY <1>10, <2>1 DEF Owning, ClaimInvOn, NoReceiptYet
    <2> QED
      BY <1>0, <1>10, <2>1, <2>2, QuietStep
  <1>7. ASSUME Loss  PROVE ClaimInvOn(K)'
    BY <1>0, <1>10, <1>7, TypeIsTyped, CutKeepsClaims DEF Loss
  <1>8. ASSUME Tick \/ UNCHANGED vars \/ \E r \in Reqs : BillingHears(r)
        PROVE  ClaimInvOn(K)'
    <2>1. UNCHANGED <<pc, key, receipt, reply, ledger, charges>>
      BY <1>8 DEF Tick, vars, BillingHears
    <2>2. (\A q \in Reqs : Owning(q)' <=> Owning(q)) /\ NoReceiptYet'
      BY <1>10, <2>1 DEF Owning, ClaimInvOn, NoReceiptYet
    <2> QED
      BY <1>0, <1>10, <2>1, <2>2, QuietStep
  <1>12. ClaimInvOn(K)'
    BY <1>1, <1>2, <1>3, <1>4, <1>5, <1>6, <1>7, <1>8, <1>11, StepCases
    DEF Serve, Moves
  <1> QED
    BY <1>9, <1>12 DEF ClaimInv, ClaimInvOn, ExclusiveOn, ReceiptsAgreeOn

LEMMA ClaimInvariant == Spec => [](TypeOK /\ ClaimInv)
  BY InitTypeOK, TypeStep, InitClaimInv, ClaimInvStep, NextIsStep, PTL DEF Spec

(* At most one request at a time is between the claim of a key and its     *)
(* outcome, and it finds the key's row pending, until a rerun frees the    *)
(* key.                                                                    *)
THEOREM ClaimsAreExclusive == Spec => []ExclusiveClaim
  BY ClaimInvariant, PTL DEF ClaimInv, ClaimInvOn, ExclusiveClaim

(* Only a request that is cut off leaves a pending row that no request     *)
(* will resolve.                                                           *)
THEOREM OnlyCrashesStrand == Spec => []PendingHasOwner
  BY ClaimInvariant, PTL DEF ClaimInv, ClaimInvOn

(* One key, one receipt, across replays and restarts, unless a rerun frees *)
(* the key.                                                                *)
THEOREM ReceiptsAreConsistent == Spec => []ReceiptsAgree
  BY ClaimInvariant, PTL DEF ClaimInv, ClaimInvOn, ReceiptsAgree

(* The ledger never reports a settlement that the settler did not execute. *)
THEOREM LedgerIsTruthful == Spec => []SettledIsCharged
  BY ClaimInvariant, PTL DEF ClaimInv, ClaimInvOn

-----------------------------------------------------------------------------
(* Rows                                                                    *)

(* Whatever a step does to the ledger, it leaves settled rows alone.       *)
LEMMA SettledRowsKept ==
  ASSUME TypeOK, Step, NEW k \in Keys, ledger[k].status = "settled"
  PROVE  ledger'[k] = ledger[k]
  <1>1. \A j \in Keys : ledger[j] \in RowOf(Tokens)
    BY DEF TypeOK
  <1>2. ASSUME NEW r \in Reqs, NEW status \in {"failed", "settled"},
               NEW tx \in Tokens \cup {NoTx}, Record(r, status, tx)
        PROVE  ledger'[k] = ledger[k]
    <2>1. /\ key[r] \in Keys /\ now \in Nat /\ status \in Status
          /\ ledger' = [ledger EXCEPT ![key[r]] =
                           RecordSettlement(ledger[key[r]], status, tx, now)]
      BY <1>2 DEF TypeOK, Record, Status
    <2>2. CASE key[r] = k
      BY <1>1, <2>1, <2>2, RecordSettlementRow DEF TypeOK
    <2>3. CASE key[r] # k
      BY <2>1, <2>3 DEF TypeOK
    <2> QED
      BY <2>2, <2>3
  <1>3. ASSUME NEW r \in Reqs, Claim(r)  PROVE ledger'[k] = ledger[k]
    <2>1. /\ key[r] \in Keys /\ now \in Nat
          /\ ledger' = [ledger EXCEPT ![key[r]] = BeginPending(ledger[key[r]], now)]
      BY <1>3 DEF TypeOK, Claim
    <2>2. BeginPending(ledger[k], now) = ledger[k]
      BY <1>1, <2>1, BeginPendingRow
    <2> QED
      BY <2>1, <2>2 DEF TypeOK
  <1>4. CASE \E r \in Reqs : SettleSucceeds(r)
    BY <1>2, <1>4, TypeIsTyped, CallType DEF SettleSucceeds
  <1>5. CASE \E r \in Reqs : VerifyFails(r) \/ ReleaseOnError(r)
                               \/ SettleRefused(r) \/ SettleThrows(r)
                               \/ SettleRethrows(r) \/ Rerun(r)
    BY <1>2, <1>5, TypeIsTyped, CallType DEF VerifyFails, ReleaseOnError, SettleRefused,
         SettleThrows, SettleRethrows, Rerun
  <1>6. CASE UNCHANGED ledger
    BY <1>6
  <1>7. \/ UNCHANGED ledger
        \/ \E r \in Reqs : Claim(r) \/ SettleSucceeds(r) \/ VerifyFails(r)
             \/ ReleaseOnError(r) \/ SettleRefused(r) \/ SettleThrows(r)
             \/ SettleRethrows(r) \/ Rerun(r)
    BY StepCases DEF Loss, Serve, vars, Arrive, Refuse, CheckBudget, VerifyAccepts,
           HandlerReplies, SendPrior, PostSettle, SettleRetries, Notify,
           SettlerExecutes, BillingHears, Cut, Tick
  <1> QED
    BY <1>3, <1>4, <1>5, <1>6, <1>7

(* A settled row never changes again, its transaction least of all.        *)
THEOREM SettledRowsAreFinal == Spec => SettledIsFinal
  <1>1. TypeOK /\ Step =>
          [\A k \in Keys : ledger[k].status = "settled" => ledger'[k] = ledger[k]]_vars
    BY SettledRowsKept
  <1> QED
    BY <1>1, TypeCorrect, NextIsStep, PTL DEF Spec, SettledIsFinal

LEMMA NoNewCalls ==
  ASSUME TypeOK, ClaimInv, Step, NEW k \in Keys \ freed,
         ledger[k].status = "settled", NEW c \in posted', c.key = k
  PROVE  c \in posted
  <1>1. CASE posted' \subseteq posted
    BY <1>1
  <1>2. ASSUME NEW r \in Reqs, PostSettle(r)  PROVE c \in posted
    <2>1. posted' = posted \cup {Call(r)} /\ Owning(r)
      BY <1>2 DEF PostSettle, ReadyToSettle, Owning
    <2>2. key[r] \in Keys /\ Call(r).key = key[r]
      BY TypeIsTyped, CallType DEF TypeOK
    <2>3. Call(r).key # k
      BY <2>1, <2>2 DEF ClaimInv, ClaimInvOn, ExclusiveOn
    <2> QED
      BY <2>1, <2>3
  <1>3. posted' \subseteq posted \/ \E r \in Reqs : PostSettle(r)
    BY StepCases DEF Loss, Serve, vars, reqVars, extVars, Arrive, Refuse, CheckBudget,
         Claim, VerifyAccepts, VerifyFails, HandlerReplies, SendPrior,
         ReleaseOnError, SettleSucceeds, SettleRefused, SettleRetries,
         SettleThrows, SettleRethrows, AttemptFails, Withdrawn, Rerun, Notify,
         SettlerExecutes, BillingHears, Cut, Tick
  <1> QED
    BY <1>1, <1>2, <1>3

(* No settle call is POSTed for a key that is settled, unless a rerun has  *)
(* freed it: the request that POSTs one owns its key, whose row is pending.*)
THEOREM NoSecondSettle == Spec => NoSettleAfterSettled
  <1> DEFINE A == \A k \in Keys \ freed : ledger[k].status = "settled" =>
                    \A c \in posted' : c.key = k => c \in posted
  <1>1. TypeOK /\ ClaimInv /\ Step => [A]_vars
    BY NoNewCalls
  <1> QED
    BY <1>1, ClaimInvariant, NextIsStep, PTL DEF Spec, NoSettleAfterSettled

-----------------------------------------------------------------------------
(* Calls                                                                   *)

LEMMA InitCallInv == Init => CallInv
  BY DEF Init, CallInv, RequestInv, SettleOnlyAfter2xx, WebhookOnlySettled

(* The requests: one step moves one request, except a crash.               *)
LEMMA RequestInvStep ==
  ASSUME TypeOK, ClaimInv, CallInv, Step, NEW q \in Reqs
  PROVE  RequestInv(q)'
  <1> USE DEF Goto, Finish, reqVars, extVars, envVars, RequestInv, TypeOK
  <1>0. RequestInv(q)
    BY DEF CallInv
  <1>1. ASSUME NEW r \in Reqs, NEW k \in Keys, NEW o \in Offers[k], Arrive(r, k, o)
        PROVE  RequestInv(q)'
    BY <1>0, <1>1 DEF Arrive, Call
  <1>2. ASSUME NEW r \in Reqs,
               Refuse(r) \/ CheckBudget(r) \/ VerifyAccepts(r) \/ VerifyFails(r)
                 \/ SendPrior(r) \/ ReleaseOnError(r)
        PROVE  RequestInv(q)'
    BY <1>0, <1>2 DEF Refuse, CheckBudget, VerifyAccepts, VerifyFails, SendPrior,
                      ReleaseOnError, Call
  <1>3. ASSUME NEW r \in Reqs, Claim(r)  PROVE RequestInv(q)'
    BY <1>0, <1>3 DEF Claim, Call
  <1>4. ASSUME NEW r \in Reqs, NEW s \in {"2xx", "error"}, HandlerReplies(r, s)
        PROVE  RequestInv(q)'
    BY <1>0, <1>4 DEF HandlerReplies, Call
  <1>5. ASSUME NEW r \in Reqs, PostSettle(r)  PROVE RequestInv(q)'
    BY <1>0, <1>5 DEF PostSettle, ReadyToSettle, Call
  <1>6. ASSUME NEW r \in Reqs, SettleSucceeds(r)  PROVE RequestInv(q)'
    BY <1>0, <1>6 DEF SettleSucceeds, Call
  <1>7. ASSUME NEW r \in Reqs, SettleRefused(r) \/ SettleRetries(r) \/ SettleThrows(r)
        PROVE  RequestInv(q)'
    BY <1>0, <1>7 DEF SettleRefused, SettleRetries, SettleThrows, AttemptFails, Call
  <1>12. ASSUME NEW r \in Reqs, SettleRethrows(r)  PROVE RequestInv(q)'
    BY <1>0, <1>12 DEF SettleRethrows, AttemptFails, Call
  <1>13. ASSUME NEW r \in Reqs, Rerun(r)  PROVE RequestInv(q)'
    BY <1>0, <1>13 DEF Rerun, Call
  <1>8. ASSUME NEW r \in Reqs, Notify(r)  PROVE RequestInv(q)'
    BY <1>0, <1>8 DEF Notify, Call
  <1>9. CASE Loss
    BY <1>0, <1>9 DEF Loss, Cut, Call, Active
  <1>10. CASE Tick \/ UNCHANGED vars \/ \E c \in posted : SettlerExecutes(c)
    BY <1>0, <1>10 DEF Tick, vars, SettlerExecutes, Call
  <1>11. ASSUME NEW r \in Reqs, BillingHears(r)  PROVE RequestInv(q)'
    BY <1>0, <1>11 DEF BillingHears, Call
  <1> HIDE DEF Goto, Finish, reqVars, extVars, envVars, RequestInv
  <1> QED
    BY <1>1, <1>2, <1>3, <1>4, <1>5, <1>6, <1>7, <1>8, <1>9, <1>10, <1>11,
       <1>12, <1>13, StepCases
    DEF Serve

(* A request that has called the settler keeps its key and payment, its    *)
(* handler's reply, and the fact that it called.                           *)
LEMMA CallerKept ==
  ASSUME TypeOK, CallInv, Step, NEW r \in Reqs, attempts[r] > 0
  PROVE  /\ Call(r)' = Call(r) /\ upstream'[r] = upstream[r] /\ attempts'[r] > 0
  <1> USE DEF Goto, Finish, reqVars, extVars, envVars, TypeOK
  <1>1. pc[r] \notin {"idle", "hook", "admitted", "claimed", "handling"}
    BY DEF CallInv, RequestInv
  <1>2. attempts'[r] > 0
    <2>1. CASE UNCHANGED attempts
      BY <2>1
    <2>2. ASSUME NEW q \in Reqs, PostSettle(q)  PROVE attempts'[r] > 0
      BY <2>2 DEF PostSettle
    <2>3. UNCHANGED attempts \/ \E q \in Reqs : PostSettle(q)
      BY StepCases DEF Loss, Serve, vars, Arrive, Refuse, CheckBudget, Claim, VerifyAccepts,
           VerifyFails, HandlerReplies, SendPrior, ReleaseOnError, SettleSucceeds,
           SettleRefused, SettleRetries, SettleThrows, SettleRethrows, Rerun, Notify,
           SettlerExecutes, BillingHears, Cut, Tick
    <2> QED
      BY <2>1, <2>2, <2>3
  <1>3. key'[r] = key[r] /\ offer'[r] = offer[r] /\ upstream'[r] = upstream[r]
    BY <1>1, StepCases DEF Loss, Serve, vars, Arrive, Refuse, CheckBudget, Claim, VerifyAccepts,
         VerifyFails, HandlerReplies, SendPrior, ReleaseOnError, PostSettle,
         SettleSucceeds, SettleRefused, SettleRetries, SettleThrows, SettleRethrows,
         Rerun, Notify, SettlerExecutes, BillingHears, Cut, Tick
  <1> QED
    BY <1>2, <1>3 DEF Call

(* What the settler holds or has executed is new only when it is POSTed.   *)
LEMMA CallsGrow ==
  ASSUME TypeOK, Step
  PROVE  \/ posted' \cup charges' \subseteq posted \cup charges
         \/ \E r \in Reqs : /\ PostSettle(r)
                            /\ posted' = posted \cup {Call(r)}
                            /\ charges' = charges
  BY StepCases DEF Loss, Serve, vars, reqVars, extVars, Arrive, Refuse, CheckBudget, Claim,
       VerifyAccepts, VerifyFails, HandlerReplies, SendPrior, ReleaseOnError,
       PostSettle, SettleSucceeds, SettleRefused, SettleRetries, SettleThrows,
       SettleRethrows, AttemptFails, Withdrawn, Rerun, Notify, SettlerExecutes,
       BillingHears, Cut, Tick

LEMMA CallInvStep == TypeOK /\ ClaimInv /\ CallInv /\ Step => CallInv'
  <1> SUFFICES ASSUME TypeOK, ClaimInv, CallInv, Step PROVE CallInv'
    OBVIOUS
  <1>1. (\A r \in Reqs : RequestInv(r))'
    BY RequestInvStep
  <1>2. ASSUME NEW c \in posted \cup charges
        PROVE  \E r \in Reqs : (Call(r) = c /\ upstream[r] = "2xx" /\ attempts[r] > 0)'
    <2>1. PICK r \in Reqs : Call(r) = c /\ upstream[r] = "2xx" /\ attempts[r] > 0
      BY DEF CallInv, SettleOnlyAfter2xx
    <2> QED
      BY <2>1, CallerKept
  <1>3. ASSUME NEW r \in Reqs, PostSettle(r)
        PROVE  (Call(r) = Call(r) /\ upstream[r] = "2xx" /\ attempts[r] > 0)'
               /\ Call(r)' = Call(r)
    BY <1>3 DEF PostSettle, ReadyToSettle, CallInv, RequestInv, TypeOK, Call
  <1>4. SettleOnlyAfter2xx'
    BY <1>2, <1>3, CallsGrow DEF SettleOnlyAfter2xx
  <1>5. WebhookOnlySettled'
    <2>1. \A k \in events' : k \in Keys /\ ledger[k].status = "settled"
      <3>1. \A k \in events : k \in Keys /\ ledger[k].status = "settled"
        BY DEF CallInv, WebhookOnlySettled, TypeOK
      <3>2. ASSUME NEW r \in Reqs, BillingHears(r)
            PROVE  /\ events' \subseteq events \cup {key[r]}
                   /\ key[r] \in Keys /\ ledger[key[r]].status = "settled"
        BY <3>2 DEF BillingHears, ClaimInv, ClaimInvOn, ReceiptsAgreeOn, TypeOK
      <3>3. UNCHANGED events \/ \E r \in Reqs : BillingHears(r)
        BY StepCases DEF Loss, Serve, vars, extVars, Arrive, Refuse, CheckBudget, Claim,
             VerifyAccepts, VerifyFails, HandlerReplies, SendPrior, ReleaseOnError,
             PostSettle, SettleSucceeds, SettleRefused, SettleRetries,
             SettleThrows, SettleRethrows, Rerun, Notify, SettlerExecutes, Cut, Tick
      <3> QED
        BY <3>1, <3>2, <3>3
    <2> QED
      BY <2>1, SettledRowsKept DEF WebhookOnlySettled
  <1> QED
    BY <1>1, <1>4, <1>5 DEF CallInv

LEMMA CallInvariant == Spec => [](TypeOK /\ ClaimInv /\ CallInv)
  BY InitTypeOK, TypeStep, InitClaimInv, ClaimInvStep, InitCallInv, CallInvStep,
     NextIsStep, PTL DEF Spec

(* Nothing is sent to the settler for a request whose handler failed.      *)
THEOREM SettlesOnlyAfter2xx == Spec => []SettleOnlyAfter2xx
  BY CallInvariant, PTL DEF CallInv

(* The billing webhook fires for settled keys only.                        *)
THEOREM WebhooksOnlySettled == Spec => []WebhookOnlySettled
  BY CallInvariant, PTL DEF CallInv

(* A client served as paid was charged the payment it presented.           *)
LEMMA PaidWasCharged == TypeOK /\ ClaimInv /\ CallInv => PaidMeansCharged
  <1> SUFFICES ASSUME TypeOK, ClaimInv, CallInv, NEW r \in Reqs, reply[r] = "paid"
               PROVE  receipt[r] = Call(r).token /\ Spent(receipt[r])
    BY DEF PaidMeansCharged
  <1>1. receipt[r] = Call(r).token /\ receipt[r] # NoTx
    BY TypeIsTyped, CallType, ConstantsAssumption DEF CallInv, RequestInv
  <1> QED
    BY <1>1 DEF ClaimInv, ClaimInvOn, ReceiptsCharged

(* `Settle failures never succeed the request', on either rail.            *)
THEOREM PaidIsCharged == Spec => []PaidMeansCharged
  BY PaidWasCharged, CallInvariant, PTL

-----------------------------------------------------------------------------
(* Reruns                                                                  *)

(* A request that has arrived keeps its key and does not become idle.      *)
LEMMA ArrivedKept ==
  ASSUME TypeOK, Step, NEW q \in Reqs, pc[q] # "idle"
  PROVE  pc'[q] # "idle" /\ key'[q] = key[q]
  <1> USE DEF Goto, Finish, reqVars, extVars, envVars, TypeOK
  <1>1. ASSUME NEW r \in Reqs, NEW k \in Keys, NEW o \in Offers[k], Arrive(r, k, o)
        PROVE  pc'[q] # "idle" /\ key'[q] = key[q]
    BY <1>1 DEF Arrive
  <1>2. ASSUME NEW r \in Reqs, Serve(r)
        PROVE  pc'[q] # "idle" /\ key'[q] = key[q]
    BY <1>2 DEF Serve, Refuse, CheckBudget, Claim, VerifyAccepts, VerifyFails,
         HandlerReplies, SendPrior, ReleaseOnError, PostSettle, SettleSucceeds,
         SettleRefused, SettleRetries, SettleThrows, SettleRethrows, Rerun, Notify
  <1>3. CASE Loss
    BY <1>3 DEF Loss, Cut
  <1>4. CASE Tick \/ UNCHANGED vars \/ \E c \in posted : SettlerExecutes(c)
    BY <1>4 DEF Tick, vars, SettlerExecutes
  <1>5. CASE \E r \in Reqs : BillingHears(r)
    BY <1>5 DEF BillingHears
  <1> HIDE DEF Goto, Finish, reqVars, extVars, envVars, TypeOK
  <1> QED
    BY <1>1, <1>2, <1>3, <1>4, <1>5, StepCases

LEMMA ContendsKept ==
  ASSUME TypeOK, Step, NEW q \in Reqs, NEW r \in Reqs, Contends(q, r), pc[r] # "idle"
  PROVE  Contends(q, r)'
  BY ArrivedKept DEF Contends

(* A row becomes pending by the claim of a request whose process does not  *)
(* stand still.                                                            *)
LEMMA PendingIsClaimed ==
  ASSUME TypeOK, Step, NEW k \in Keys,
         ledger'[k].status = "pending", ledger[k].status # "pending"
  PROVE  \E q \in Reqs : Turn(q) /\ pc[q] = "admitted" /\ key[q] = k
  <1>1. ASSUME NEW r \in Reqs, NEW status \in {"failed", "settled"},
               NEW tx \in Tokens \cup {NoTx}, Record(r, status, tx)
        PROVE  FALSE
    BY <1>1, TypeIsTyped, RecordedRow
  <1>2. ASSUME NEW r \in Reqs, Claim(r)
        PROVE  pc[r] = "admitted" /\ key[r] = k
    BY <1>2 DEF Claim, TypeOK
  <1>3. ASSUME NEW r \in Reqs, SettleSucceeds(r)  PROVE FALSE
    BY <1>1, <1>3, TypeIsTyped, CallType DEF SettleSucceeds
  <1>4. ASSUME NEW r \in Reqs,
               VerifyFails(r) \/ ReleaseOnError(r) \/ SettleRefused(r)
                 \/ SettleThrows(r) \/ SettleRethrows(r) \/ Rerun(r)
        PROVE  FALSE
    BY <1>1, <1>4, TypeIsTyped, CallType DEF VerifyFails, ReleaseOnError, SettleRefused,
         SettleThrows, SettleRethrows, Rerun
  <1>5. ~ UNCHANGED ledger
    OBVIOUS
  <1>6. \E r \in Reqs : Turn(r) /\ (Claim(r) \/ SettleSucceeds(r) \/ VerifyFails(r)
             \/ ReleaseOnError(r) \/ SettleRefused(r) \/ SettleThrows(r)
             \/ SettleRethrows(r) \/ Rerun(r))
    BY <1>5, StepCases DEF Loss, Serve, vars, Arrive, Refuse, CheckBudget, VerifyAccepts,
           HandlerReplies, SendPrior, PostSettle, SettleRetries, Notify,
           SettlerExecutes, BillingHears, Cut, Tick
  <1> QED
    BY <1>2, <1>3, <1>4, <1>6

(* A request comes to run its hook again when it has recorded a failure.   *)
LEMMA RerunEntered ==
  ASSUME TypeOK, Step, NEW r \in Reqs, pc'[r] = "rerun", pc[r] # "rerun"
  PROVE  ledger'[key[r]].status # "pending" /\ key'[r] = key[r]
  <1> USE DEF Goto, Finish, reqVars, extVars, envVars
  <1>1. SettleRethrows(r)
    <2> USE DEF TypeOK
    <2>1. ASSUME NEW q \in Reqs, NEW k \in Keys, NEW o \in Offers[k], Arrive(q, k, o)
          PROVE  FALSE
      BY <2>1 DEF Arrive
    <2>2. ASSUME NEW q \in Reqs, Serve(q), ~ SettleRethrows(r)
          PROVE  FALSE
      BY <2>2 DEF Serve, Refuse, CheckBudget, Claim, VerifyAccepts, VerifyFails,
           HandlerReplies, SendPrior, ReleaseOnError, PostSettle, SettleSucceeds,
           SettleRefused, SettleRetries, SettleThrows, SettleRethrows, Rerun, Notify
    <2>3. CASE Loss
      BY <2>3 DEF Loss, Cut
    <2>4. CASE Tick \/ UNCHANGED vars \/ \E c \in posted : SettlerExecutes(c)
      BY <2>4 DEF Tick, vars, SettlerExecutes
    <2>5. CASE \E q \in Reqs : BillingHears(q)
      BY <2>5 DEF BillingHears
    <2> HIDE DEF Goto, Finish, reqVars, extVars, envVars, TypeOK
    <2> QED
      BY <2>1, <2>2, <2>3, <2>4, <2>5, StepCases
  <1>2. Record(r, "failed", NoTx) /\ key'[r] = key[r]
    BY <1>1 DEF SettleRethrows
  <1> QED
    BY <1>2, TypeIsTyped, RecordedRow

LEMMA InitRerunInv == Init => RerunInv
  BY DEF Init, RerunInv

(* Between a request's failure and its rerun, and ever after, a claim of   *)
(* its key comes from another process: its own stands still.               *)
LEMMA RerunInvStep == TypeOK /\ RerunInv /\ Step => RerunInv'
  <1> SUFFICES ASSUME TypeOK, RerunInv, Step PROVE RerunInv'
    OBVIOUS
  <1>1. ASSUME NEW r \in Reqs, pc'[r] = "rerun", ledger'[key'[r]].status = "pending"
        PROVE  \E q \in Reqs : Contends(q, r)'
    <2>1. pc[r] = "rerun"
      BY <1>1, RerunEntered
    <2>2. key'[r] = key[r] /\ key[r] \in Keys
      BY <2>1, ArrivedKept DEF TypeOK
    <2>3. CASE ledger[key[r]].status = "pending"
      BY <2>1, <2>3, ContendsKept DEF RerunInv
    <2>4. CASE ledger[key[r]].status # "pending"
      <3>1. PICK q \in Reqs : Turn(q) /\ pc[q] = "admitted" /\ key[q] = key[r]
        BY <1>1, <2>2, <2>4, PendingIsClaimed
      <3>2. Contends(q, r)
        BY <2>1, <3>1 DEF Contends, Turn, Process
      <3> QED
        BY <2>1, <3>2, ContendsKept
    <2> QED
      BY <2>3, <2>4
  <1>2. ASSUME NEW k \in freed'
        PROVE  \E q, r \in Reqs : key'[r] = k /\ pc'[r] # "idle" /\ Contends(q, r)'
    <2>1. \E q, r \in Reqs : key[r] = k /\ pc[r] # "idle" /\ Contends(q, r)
      <3>1. CASE k \in freed
        BY <3>1 DEF RerunInv
      <3>2. ASSUME NEW r \in Reqs, Rerun(r), k \notin freed
            PROVE  key[r] = k /\ pc[r] = "rerun" /\ ledger[k].status = "pending"
        BY <1>2, <3>2 DEF Rerun
      <3>3. k \notin freed => \E r \in Reqs : Rerun(r)
        BY <1>2, StepCases DEF Serve, Loss, vars, envVars, Arrive, Refuse, CheckBudget, Claim,
             VerifyAccepts, VerifyFails, HandlerReplies, SendPrior, ReleaseOnError,
             PostSettle, SettleSucceeds, SettleRefused, SettleRetries, SettleThrows,
             SettleRethrows, Notify, SettlerExecutes, BillingHears, Cut, Tick
      <3> QED
        BY <3>1, <3>2, <3>3 DEF RerunInv
    <2> QED
      BY <2>1, ArrivedKept, ContendsKept
  <1> QED
    BY <1>1, <1>2 DEF RerunInv

LEMMA RerunInvariant == Spec => [](TypeOK /\ RerunInv)
  BY InitTypeOK, TypeStep, InitRerunInv, RerunInvStep, NextIsStep, PTL DEF Spec

(* One server alone frees no key, so that all that is said above of the    *)
(* other keys it keeps for every key: the exemptions are for systems of    *)
(* several processes.                                                      *)
THEOREM OneServerFreesNone ==
  ASSUME \A q, r \in Reqs : Proc[q] = Proc[r]
  PROVE  Spec => [](freed = {})
  <1>1. RerunInv => freed = {}
    BY DEF RerunInv, Contends
  <1> QED
    BY <1>1, RerunInvariant, PTL

-----------------------------------------------------------------------------
(* One charge per key                                                      *)

LEMMA InitSettleInv == Init => SettleInv
  BY DEF Init, SettleInv, SettleInvOn, OneChargeOn

(* A step that changes neither rows nor calls, and the owner of no key     *)
(* that is awaiting an answer, keeps the invariant.                        *)
LEMMA SettleQuiet ==
  ASSUME NEW K, TypeOK, SettleInvOn(K), UNCHANGED <<ledger, posted, charges>>,
         \A r \in Reqs : Owning(r)' =>
           /\ Owning(r) /\ key'[r] = key[r]
           /\ pc[r] = "awaiting" => pc'[r] = "awaiting" /\ Call(r)' = Call(r)
  PROVE  SettleInvOn(K)'
  <1>1. \A c \in Calls : InHand(c) => InHand(c)'
    BY DEF InHand
  <1> QED
    BY <1>1 DEF SettleInvOn, OneChargeOn, TypeOK

(* The owner of key k records an outcome after its last call is gone: no   *)
(* call with the key is left with the settler, and those it has executed   *)
(* are what the row is settled with.                                       *)
LEMMA SettleOutcome ==
  ASSUME NEW K, TypeOK, ExclusiveOn(K), SettleInvOn(K), NEW r \in Reqs, Owning(r),
         NEW status \in {"failed", "settled"}, NEW tx \in Tokens \cup {NoTx},
         Record(r, status, tx),
         charges' = charges, posted' \subseteq posted,
         key[r] \in K => \A c \in posted' : c.key # key[r],
         key[r] \in K =>
           \A c \in charges : c.key = key[r] => status = "settled" /\ tx = c.token,
         UNCHANGED key,
         \A q \in Reqs : Owning(q)' <=> (Owning(q) /\ q # r),
         \A q \in Reqs \ {r} : pc'[q] = pc[q] /\ Call(q)' = Call(q)
  PROVE  SettleInvOn(K)'
  <1> DEFINE k == key[r]
  <1>1. /\ k \in Keys
        /\ \A j \in Keys \ {k} : ledger'[j] = ledger[j]
        /\ ledger[k].status # "settled" => ledger'[k].status = status /\ ledger'[k].tx = tx
    BY TypeIsTyped, RecordedRow
  <1>2. k \in K => ledger'[k].status = status /\ ledger'[k].tx = tx
    BY <1>1 DEF ExclusiveOn
  <1>3. \A c \in Calls : c.key \in Keys
    BY DEF Calls
  <1>4. \A c \in Calls : c.key # k /\ InHand(c) => InHand(c)'
    BY <1>1, <1>3 DEF InHand
  <1>5. \A c \in posted' : c.key \in K => InHand(c)'
    BY <1>4 DEF SettleInvOn, TypeOK
  <1>6. \A c \in charges' : c.key \in K =>
          (ledger[c.key].status = "settled" /\ ledger[c.key].tx = c.token)' \/ InHand(c)'
    <2> SUFFICES ASSUME NEW c \in charges, c.key \in K
                 PROVE  (ledger'[c.key].status = "settled" /\ ledger'[c.key].tx = c.token)
                          \/ InHand(c)'
      OBVIOUS
    <2>1. CASE c.key = k
      BY <1>2, <2>1
    <2>2. CASE c.key # k
      BY <1>1, <1>3, <1>4, <2>2 DEF SettleInvOn, TypeOK
    <2> QED
      BY <2>1, <2>2
  <1> QED
    BY <1>5, <1>6 DEF SettleInvOn, OneChargeOn

(* The second run of a hook finds no call for a key of K to change: its    *)
(* row is not pending.                                                     *)
LEMMA SettleRerun ==
  ASSUME NEW K, TypeOK, SettleInvOn(K), NEW r \in Reqs, Record(r, "failed", NoTx),
         key[r] \in K => ledger[key[r]].status # "pending",
         UNCHANGED <<key, posted, charges>>,
         \A q \in Reqs : Owning(q)' <=> Owning(q),
         \A q \in Reqs : Owning(q) => pc'[q] = pc[q] /\ Call(q)' = Call(q)
  PROVE  SettleInvOn(K)'
  <1> DEFINE k == key[r]
  <1>1. /\ k \in Keys
        /\ \A j \in Keys \ {k} : ledger'[j] = ledger[j]
        /\ ledger[k].status = "settled" => ledger'[k] = ledger[k]
    BY TypeIsTyped, RecordedRow
  <1>2. \A c \in Calls : c.key \in Keys
    BY DEF Calls
  <1>3. \A c \in Calls : c.key \in K /\ InHand(c) => InHand(c)'
    BY <1>1, <1>2 DEF InHand
  <1>4. \A c \in Calls : c.key \in K /\ ledger[c.key].status = "settled" =>
                           ledger'[c.key] = ledger[c.key]
    BY <1>1, <1>2
  <1> QED
    BY <1>3, <1>4 DEF SettleInvOn, OneChargeOn, TypeOK

LEMMA FewerSettles ==
  ASSUME NEW K, NEW L \in SUBSET K, SettleInvOn(K)
  PROVE  SettleInvOn(L)
  BY DEF SettleInvOn, OneChargeOn

LEMMA SettleInvStep ==
  TypeOK /\ ClaimInv /\ SettleInv /\ Step => SettleInv'
  <1> SUFFICES ASSUME TypeOK, ClaimInv, SettleInv, Step PROVE SettleInv'
    OBVIOUS
  <1>0. PICK K : K = Keys \ (Lossy \cup freed')
    OBVIOUS
  <1>12. SettleInvOn(K)
    BY <1>0, FreedKept, FewerSettles DEF SettleInv
  <1>13. ExclusiveOn(K)
    <2>1. K \in SUBSET (Keys \ freed)
      BY <1>0, FreedKept
    <2> QED
      BY <2>1, FewerClaims DEF ClaimInv, ClaimInvOn
  <1>14. \A k \in K : k \notin Lossy
    BY <1>0
  <1> USE DEF Goto, Finish, reqVars, extVars, envVars
  <1>1. ASSUME NEW r \in Reqs, NEW k \in Keys, NEW o \in Offers[k], Arrive(r, k, o)
        PROVE  SettleInvOn(K)'
    BY <1>1, <1>12, SettleQuiet DEF Arrive, Owning, TypeOK, Call
  <1>2. ASSUME NEW r \in Reqs,
               Refuse(r) \/ CheckBudget(r) \/ VerifyAccepts(r) \/ SendPrior(r)
                 \/ Notify(r) \/ \E s \in {"2xx", "error"} : HandlerReplies(r, s)
        PROVE  SettleInvOn(K)'
    <2>1. UNCHANGED <<key, offer, receipt, ledger, posted, charges>>
      BY <1>2 DEF Refuse, CheckBudget, VerifyAccepts, SendPrior, Notify,
                  HandlerReplies
    <2>2. \A q \in Reqs : /\ Owning(q)' => Owning(q)
                          /\ pc[q] = "awaiting" => pc'[q] = "awaiting"
      BY <1>2, <2>1 DEF Owning, TypeOK, Refuse, CheckBudget, VerifyAccepts,
           SendPrior, Notify, HandlerReplies
    <2>3. \A q \in Reqs : Call(q)' = Call(q) /\ key'[q] = key[q]
      BY <2>1 DEF Call
    <2>4. UNCHANGED <<ledger, posted, charges>>
      BY <2>1
    <2>5. \A q \in Reqs : Owning(q)' =>
            /\ Owning(q) /\ key'[q] = key[q]
            /\ pc[q] = "awaiting" => pc'[q] = "awaiting" /\ Call(q)' = Call(q)
      BY <2>2, <2>3
    <2> QED
      BY <1>12, <2>4, <2>5, SettleQuiet
  <1>3. ASSUME NEW r \in Reqs, Claim(r)  PROVE SettleInvOn(K)'
    <2> DEFINE k == key[r]
    <2>1. /\ k \in Keys /\ ledger[k] \in RowOf(Tokens) /\ now \in Nat
          /\ pc[r] = "admitted" /\ UNCHANGED <<key, offer, posted, charges>>
          /\ ledger' = [ledger EXCEPT ![k] = BeginPending(ledger[k], now)]
      BY <1>3 DEF Claim, TypeOK
    <2>2. CASE ClaimKind(ledger[k]) = "claimed"
      <3>1. /\ ledger[k].status \notin {"settled", "pending"}
            /\ pc' = [pc EXCEPT ![r] = "claimed"] /\ UNCHANGED receipt
        BY <1>3, <2>1, <2>2, BeginPendingRow DEF Claim
      <3>2. \A c \in posted \cup charges :
              c \in Calls /\ c.key \in Keys /\ (c.key \in K => c.key # k)
        BY <1>12, <3>1 DEF SettleInvOn, InHand, TypeOK, Calls
      <3>3. \A c \in posted \cup charges :
              c.key \in K => ledger'[c.key] = ledger[c.key]
        BY <2>1, <3>2 DEF TypeOK
      <3>4. \A c \in posted \cup charges : c.key \in K /\ InHand(c) => InHand(c)'
        BY <2>1, <3>1, <3>2, <3>3 DEF InHand, Owning, TypeOK, Call
      <3> QED
        BY <1>12, <2>1, <3>3, <3>4 DEF SettleInvOn, OneChargeOn
    <2>3. CASE ClaimKind(ledger[k]) # "claimed"
      <3>1. UNCHANGED ledger
        BY <2>1, <2>3, BeginPendingRow DEF TypeOK
      <3>2. \A q \in Reqs : Owning(q)' => Owning(q)
        <4>1. CASE ClaimKind(ledger[k]) = "already_settled"
          <5>1. ledger[k].tx # NoTx
            BY <2>1, <4>1, BeginPendingRow, TypeIsTyped, SettledTx DEF ClaimInv, ClaimInvOn
          <5> QED
            BY <1>3, <2>1, <4>1, <5>1 DEF Claim, Owning, TypeOK
        <4>2. CASE ClaimKind(ledger[k]) = "in_flight"
          BY <1>3, <2>1, <4>2 DEF Claim, Owning, TypeOK
        <4> QED
          BY <2>1, <2>3, <4>1, <4>2, BeginPendingRow
      <3>3. \A q \in Reqs : pc[q] = "awaiting" => pc'[q] = "awaiting"
        BY <1>3, <2>1 DEF Claim, TypeOK
      <3>4. \A q \in Reqs : Call(q)' = Call(q) /\ key'[q] = key[q]
        BY <2>1 DEF Call
      <3> QED
        BY <1>12, <2>1, <3>1, <3>2, <3>3, <3>4, SettleQuiet
    <2> QED
      BY <2>2, <2>3
  <1>4. ASSUME NEW r \in Reqs, VerifyFails(r) \/ ReleaseOnError(r)
        PROVE  SettleInvOn(K)'
    <2>1. /\ Owning(r) /\ pc[r] # "awaiting" /\ Record(r, "failed", NoTx)
          /\ UNCHANGED <<key, offer, receipt, posted, charges>>
          /\ pc' = [pc EXCEPT ![r] = "done"]
      BY <1>4 DEF VerifyFails, ReleaseOnError, Owning
    <2>2. key[r] \in Keys /\ (key[r] \in K => ledger[key[r]].status = "pending")
      BY <1>13, <2>1 DEF ExclusiveOn, TypeOK
    <2>3. key[r] \in K => \A c \in posted \cup charges : c.key # key[r]
      BY <1>12, <2>1, <2>2 DEF SettleInvOn, InHand
    <2>4. \A q \in Reqs : Owning(q)' <=> (Owning(q) /\ q # r)
      BY <2>1 DEF Owning, TypeOK
    <2>5. \A q \in Reqs \ {r} : pc'[q] = pc[q] /\ Call(q)' = Call(q)
      BY <2>1 DEF TypeOK, Call
    <2> QED
      BY <1>12, <1>13, <2>1, <2>3, <2>4, <2>5, SettleOutcome
  <1>5. ASSUME NEW r \in Reqs, PostSettle(r)  PROVE SettleInvOn(K)'
    <2>1. /\ Owning(r) /\ pc[r] # "awaiting"
          /\ posted' = posted \cup {Call(r)}
          /\ UNCHANGED <<key, offer, receipt, ledger, charges>>
          /\ pc' = [pc EXCEPT ![r] = "awaiting"]
      BY <1>5 DEF PostSettle, ReadyToSettle, Owning
    <2>2. /\ key[r] \in Keys
          /\ key[r] \in K =>
               /\ ledger[key[r]].status = "pending"
               /\ \A q \in Reqs : Owning(q) /\ key[q] = key[r] => q = r
      BY <1>13, <2>1 DEF ExclusiveOn, TypeOK
    <2>3. Call(r) \in Calls /\ Call(r).key = key[r]
      BY TypeIsTyped, CallType
    <2>4. \A c \in posted \cup charges : c.key \in K => c.key # key[r]
      BY <1>12, <2>1, <2>2 DEF SettleInvOn, InHand
    <2>5. \A q \in Reqs : (Owning(q)' <=> Owning(q)) /\ Call(q)' = Call(q)
      BY <2>1 DEF Owning, TypeOK, Call
    <2>6. \A c \in Calls : c = Call(r) /\ c.key \in K => InHand(c)'
      BY <2>1, <2>2, <2>3, <2>5 DEF InHand, TypeOK
    <2>7. \A c \in posted \cup charges : c.key \in K /\ InHand(c) => InHand(c)'
      BY <2>1, <2>4, <2>5 DEF InHand, TypeOK
    <2> QED
      BY <1>12, <2>1, <2>3, <2>4, <2>6, <2>7 DEF SettleInvOn, OneChargeOn
  <1>6. ASSUME NEW r \in Reqs, SettleSucceeds(r)  PROVE SettleInvOn(K)'
    <2> DEFINE t == Call(r).token
    <2>1. /\ Owning(r) /\ pc[r] = "awaiting" /\ t \in Tokens
          /\ Record(r, "settled", t)
          /\ posted' = posted \ {Call(r)}
          /\ UNCHANGED <<key, offer, charges>>
          /\ pc' = [pc EXCEPT ![r] = "notifying"]
          /\ \A q \in Reqs \ {r} : receipt'[q] = receipt[q]
      BY <1>6, TypeIsTyped, CallType DEF SettleSucceeds, Owning, TypeOK
    <2>2. key[r] \in Keys /\ (key[r] \in K => ledger[key[r]].status = "pending")
      BY <1>13, <2>1 DEF ExclusiveOn, TypeOK
    <2>3. key[r] \in K =>
            \A c \in posted \cup charges : c.key = key[r] => c = Call(r)
      BY <1>12, <2>1, <2>2 DEF SettleInvOn, InHand
    <2>4. \A q \in Reqs : Owning(q)' <=> (Owning(q) /\ q # r)
      BY <2>1 DEF Owning, TypeOK
    <2>5. \A q \in Reqs \ {r} : pc'[q] = pc[q] /\ Call(q)' = Call(q)
      BY <2>1 DEF TypeOK, Call
    <2>6. /\ posted' \subseteq posted
          /\ key[r] \in K => /\ \A c \in posted' : c.key # key[r]
                             /\ \A c \in charges : c.key = key[r] => t = c.token
      BY <2>1, <2>3
    <2> HIDE DEF t
    <2> QED
      BY <1>12, <1>13, <2>1, <2>4, <2>5, <2>6, SettleOutcome
  <1>7. ASSUME NEW r \in Reqs, SettleRefused(r) \/ SettleThrows(r) \/ SettleRethrows(r)
        PROVE  SettleInvOn(K)'
    <2>1. /\ Owning(r) /\ pc[r] = "awaiting" /\ Withdrawn(Call(r))
          /\ Call(r) \in posted \/ key[r] \in Lossy
          /\ UNCHANGED <<key, offer, receipt, charges>>
          /\ pc' = [pc EXCEPT ![r] = "done"] \/ pc' = [pc EXCEPT ![r] = "rerun"]
      BY <1>7 DEF SettleRefused, SettleThrows, SettleRethrows, AttemptFails, Owning
    <2>7. PICK tx \in Tokens \cup {NoTx} : Record(r, "failed", tx)
      BY <1>7, TypeIsTyped, CallType DEF SettleRefused, SettleThrows, SettleRethrows
    <2>2. Call(r).key = key[r]
      BY TypeIsTyped, CallType
    <2>8. /\ posted' \subseteq posted
          /\ key[r] \in K => Call(r) \in posted /\ posted' = posted \ {Call(r)}
      BY <1>14, <2>1, <2>2 DEF Withdrawn
    <2>3. key[r] \in K => /\ \A c \in charges : c.key # key[r]
                          /\ \A c \in posted' : c.key # key[r]
      BY <1>12, <2>2, <2>8 DEF SettleInvOn
    <2>4. \A q \in Reqs : Owning(q)' <=> (Owning(q) /\ q # r)
      BY <2>1 DEF Owning, TypeOK
    <2>5. \A q \in Reqs \ {r} : pc'[q] = pc[q] /\ Call(q)' = Call(q)
      BY <2>1 DEF TypeOK, Call
    <2>6. posted' \subseteq posted
      BY <2>8
    <2> QED
      BY <1>12, <1>13, <2>1, <2>3, <2>4, <2>5, <2>6, <2>7, SettleOutcome
  <1>15. ASSUME NEW r \in Reqs, Rerun(r)  PROVE SettleInvOn(K)'
    <2>1. /\ pc[r] = "rerun" /\ Record(r, "failed", NoTx)
          /\ UNCHANGED <<key, offer, receipt, posted, charges>>
          /\ pc' = [pc EXCEPT ![r] = "done"]
          /\ freed' = freed \cup {k \in {key[r]} : ledger[k].status = "pending"}
      BY <1>15 DEF Rerun
    <2>2. key[r] \in K => ledger[key[r]].status # "pending"
      BY <1>0, <2>1
    <2>3. \A q \in Reqs : Owning(q)' <=> Owning(q)
      BY <2>1 DEF Owning, TypeOK
    <2>4. \A q \in Reqs : Owning(q) => pc'[q] = pc[q] /\ Call(q)' = Call(q)
      BY <2>1 DEF Owning, TypeOK, Call
    <2> QED
      BY <1>12, <2>1, <2>2, <2>3, <2>4, SettleRerun
  <1>8. ASSUME NEW r \in Reqs, SettleRetries(r)  PROVE SettleInvOn(K)'
    <2>1. /\ pc[r] = "awaiting" /\ Owning(r) /\ posted' \subseteq posted
          /\ Withdrawn(Call(r)) /\ (Call(r) \in posted \/ key[r] \in Lossy)
          /\ UNCHANGED <<key, offer, receipt, ledger, charges>>
          /\ pc' = [pc EXCEPT ![r] = "retrying"]
      BY <1>8 DEF SettleRetries, AttemptFails, Withdrawn, Owning
    <2>2. Call(r).key = key[r] /\ key[r] \in Keys
      BY TypeIsTyped, CallType DEF TypeOK
    <2>6. key[r] \in K => Call(r) \in posted /\ posted' = posted \ {Call(r)}
      BY <1>14, <2>1, <2>2 DEF Withdrawn
    <2>3. \A c \in posted' \cup charges : c.key \in K => c.key # key[r]
      BY <1>12, <2>2, <2>6 DEF SettleInvOn
    <2>4. \A q \in Reqs : (Owning(q)' <=> Owning(q)) /\ Call(q)' = Call(q)
      BY <2>1 DEF Owning, TypeOK, Call
    <2>5. \A c \in posted' \cup charges : c.key \in K /\ InHand(c) => InHand(c)'
      BY <2>1, <2>3, <2>4 DEF InHand, TypeOK
    <2> QED
      BY <1>12, <2>1, <2>5 DEF SettleInvOn, OneChargeOn
  <1>9. ASSUME NEW c \in posted, SettlerExecutes(c)  PROVE SettleInvOn(K)'
    <2>1. /\ UNCHANGED <<pc, key, offer, receipt, ledger>>
          /\ posted' = posted \ {c} \/ (c.key \in Lossy /\ posted' = posted)
          /\ charges' = charges \cup {c}
      BY <1>9 DEF SettlerExecutes, Withdrawn
    <2>2. \A d \in posted \cup charges : InHand(d) => InHand(d)'
      BY <2>1 DEF InHand, Owning, Call
    <2> QED
      BY <1>12, <1>14, <2>1, <2>2 DEF SettleInvOn, OneChargeOn
  <1>10. ASSUME Loss  PROVE SettleInvOn(K)'
    <2>1. PICK P \in SUBSET {q \in Reqs : Active(q)} : Cut(P)
      BY <1>10 DEF Loss
    <2>2. UNCHANGED <<key, offer, receipt, ledger, posted, charges>>
      BY <2>1 DEF Cut
    <2>3. \A q \in Reqs : Owning(q)' => pc'[q] = pc[q] /\ Owning(q)
      BY <2>1, <2>2 DEF Cut, Owning
    <2>4. \A q \in Reqs : Call(q)' = Call(q)
      BY <2>2 DEF Call
    <2> QED
      BY <1>12, <2>2, <2>3, <2>4, SettleQuiet
  <1>11. ASSUME Tick \/ UNCHANGED vars \/ \E r \in Reqs : BillingHears(r)
         PROVE  SettleInvOn(K)'
    BY <1>11, <1>12, SettleQuiet DEF Tick, vars, BillingHears, Owning, Call
  <1> HIDE DEF Goto, Finish, reqVars, extVars, envVars
  <1>16. SettleInvOn(K)'
    BY <1>1, <1>2, <1>3, <1>4, <1>5, <1>6, <1>7, <1>8, <1>9, <1>10, <1>11, <1>15,
       StepCases DEF Serve
  <1> QED
    BY <1>0, <1>16 DEF SettleInv, SettleInvOn, OneChargeOn

(* The inductive invariant holds of the paywall.                           *)
THEOREM Invariant == Spec => [](TypeOK /\ IndInv)
  <1>1. Init => TypeOK /\ IndInv
    BY InitTypeOK, InitClaimInv, InitRerunInv, InitCallInv, InitSettleInv DEF IndInv
  <1>2. TypeOK /\ IndInv /\ Step => (TypeOK /\ IndInv)'
    BY TypeStep, ClaimInvStep, RerunInvStep, CallInvStep, SettleInvStep DEF IndInv
  <1> QED
    BY <1>1, <1>2, NextIsStep, PTL DEF Spec

(* One key is charged at most once when the settler's answers are not lost *)
(* and no rerun frees the key, whatever the clients sign and however often *)
(* they retry.                                                             *)
THEOREM OneCharge == Spec => []OneChargeUnlessLost
  <1>1. TypeOK /\ IndInv => OneChargeUnlessLost
    BY DEF IndInv, SettleInv, SettleInvOn, OneChargeUnlessLost
  <1> QED
    BY <1>1, Invariant, PTL

-----------------------------------------------------------------------------
(* The paywall implements the lease of a key                               *)

(* What a step does to the rows: it leaves them, claims the key of one     *)
(* request, records the outcome of the owner of one, or runs a hook again. *)
Outcome(r, status, tx) ==
  /\ Owning(r)
  /\ Record(r, status, tx)
  /\ UNCHANGED <<key, freed>>
  /\ \A q \in Reqs : Owning(q)' <=> (Owning(q) /\ q # r)

Reruns(r) ==
  /\ Record(r, "failed", NoTx)
  /\ freed' = freed \cup {k \in {key[r]} : ledger[k].status = "pending"}
  /\ UNCHANGED key
  /\ \A q \in Reqs : Owning(q)' <=> Owning(q)

Quiet ==
  /\ UNCHANGED <<ledger, freed>>
  /\ \A r \in Reqs : Owning(r)' <=> Owning(r)
  /\ \A r \in Reqs : Owning(r) => key'[r] = key[r]

LosesOwners(P) ==
  /\ UNCHANGED <<ledger, key, freed>>
  /\ \A r \in Reqs : Owning(r)' <=> (Owning(r) /\ r \notin P)

Kinds ==
  \/ Quiet
  \/ \E P \in SUBSET Reqs : LosesOwners(P)
  \/ \E r \in Reqs : Claims(r)
  \/ \E r \in Reqs : \E tx \in Tokens \cup {NoTx} : Outcome(r, "failed", tx)
  \/ \E r \in Reqs : \E tx \in Tokens : Outcome(r, "settled", tx)
  \/ \E r \in Reqs : Reruns(r)

LEMMA StepKinds ==
  ASSUME TypeOK, ClaimInv, Step
  PROVE  Kinds
  <1> USE DEF Goto, Finish, reqVars, extVars, envVars
  <1>0. NoReceiptYet
    BY DEF ClaimInv, ClaimInvOn
  <1>1. ASSUME NEW r \in Reqs, NEW k \in Keys, NEW o \in Offers[k], Arrive(r, k, o)
        PROVE  Quiet
    BY <1>1 DEF Arrive, Owning, Quiet, TypeOK
  <1>2. ASSUME NEW r \in Reqs, Moves(r)  PROVE Quiet
    BY <1>0, <1>2, TypeIsTyped, MoveIsQuiet DEF Quiet
  <1>3. ASSUME NEW r \in Reqs,
               VerifyFails(r) \/ ReleaseOnError(r) \/ SettleRefused(r)
                 \/ SettleThrows(r) \/ SettleRethrows(r)
        PROVE  \E tx \in Tokens \cup {NoTx} : Outcome(r, "failed", tx)
    <2>1. Owning(r)
      BY <1>3 DEF Owning, VerifyFails, ReleaseOnError, SettleRefused,
                  SettleThrows, SettleRethrows, AttemptFails
    <2>2. /\ UNCHANGED <<key, receipt, freed>>
          /\ pc' = [pc EXCEPT ![r] = "done"] \/ pc' = [pc EXCEPT ![r] = "rerun"]
      BY <1>3 DEF VerifyFails, ReleaseOnError, SettleRefused, SettleThrows,
                  SettleRethrows
    <2>3. PICK tx \in Tokens \cup {NoTx} : Record(r, "failed", tx)
      BY <1>3, TypeIsTyped, CallType DEF VerifyFails, ReleaseOnError, SettleRefused,
           SettleThrows, SettleRethrows
    <2>4. \A q \in Reqs : Owning(q)' <=> (Owning(q) /\ q # r)
      BY <2>1, <2>2 DEF Owning, TypeOK
    <2> QED
      BY <2>1, <2>2, <2>3, <2>4 DEF Outcome
  <1>4. ASSUME NEW r \in Reqs, SettleSucceeds(r)
        PROVE  Outcome(r, "settled", Call(r).token) /\ Call(r).token \in Tokens
    <2>1. Call(r).token \in Tokens
      BY TypeIsTyped, CallType
    <2>2. Owning(r)
      BY <1>4 DEF Owning, SettleSucceeds
    <2>3. \A q \in Reqs : Owning(q)' <=> (Owning(q) /\ q # r)
      BY <1>4 DEF Owning, SettleSucceeds, TypeOK
    <2> QED
      BY <1>4, <2>1, <2>2, <2>3 DEF Outcome, SettleSucceeds
  <1>9. ASSUME NEW r \in Reqs, Rerun(r)  PROVE Reruns(r)
    <2>1. \A q \in Reqs : Owning(q)' <=> Owning(q)
      BY <1>9 DEF Owning, Rerun, TypeOK
    <2> QED
      BY <1>9, <2>1 DEF Rerun, Reruns
  <1>5. ASSUME NEW c \in posted, SettlerExecutes(c)  PROVE Quiet
    BY <1>5 DEF SettlerExecutes, Quiet, Owning
  <1>6. ASSUME NEW P \in SUBSET {q \in Reqs : Active(q)}, Cut(P)
        PROVE  LosesOwners(P)
    BY <1>6 DEF Cut, LosesOwners, Owning
  <1>7. ASSUME Tick \/ UNCHANGED vars \/ \E r \in Reqs : BillingHears(r)
        PROVE  Quiet
    BY <1>7 DEF Tick, vars, BillingHears, Quiet, Owning
  <1>8. ASSUME NEW r \in Reqs, Claim(r)  PROVE Claims(r)
    BY <1>0, <1>8, ClaimIsClaims
  <1> HIDE DEF Goto, Finish, reqVars, extVars, envVars
  <1> QED
    BY <1>1, <1>2, <1>3, <1>4, <1>5, <1>6, <1>7, <1>8, <1>9, StepCases
    DEF Loss, Serve, Moves, Kinds

(* beginPending gives a free key to the request, or changes no row.        *)
LEMMA ClaimRow ==
  ASSUME Typed, SettledIsCharged, NEW r \in Reqs, Claims(r)
  PROVE  \/ Quiet
         \/ /\ key[r] \in Keys
            /\ ledger[key[r]].status \notin {"settled", "pending"}
            /\ ledger'[key[r]].status = "pending"
            /\ ledger'[key[r]].tx = NoTx
            /\ ledger' \in [Keys -> RowOf(Tokens)]
            /\ \A k \in Keys \ {key[r]} : ledger'[k] = ledger[k]
            /\ UNCHANGED <<key, freed>>
            /\ \A q \in Reqs : Owning(q)' <=> (Owning(q) \/ q = r)
  <1> DEFINE k == key[r]
  <1>1. /\ k \in Keys /\ ledger[k] \in RowOf(Tokens) /\ now \in Nat
        /\ ~ Owning(r) /\ UNCHANGED <<key, freed>> /\ ledger \in [Keys -> RowOf(Tokens)]
        /\ ledger' = [ledger EXCEPT ![k] = BeginPending(ledger[k], now)]
    BY DEF Claims, Typed
  <1>2. BeginPending(ledger[k], now) \in RowOf(Tokens)
    BY <1>1, BeginPendingRow
  <1>3. CASE ClaimKind(ledger[k]) = "claimed"
    <2>1. pc' = [pc EXCEPT ![r] = "claimed"] /\ UNCHANGED receipt
      BY <1>3 DEF Claims
    <2>2. \A q \in Reqs : Owning(q)' <=> (Owning(q) \/ q = r)
      BY <1>1, <2>1 DEF Owning, Typed
    <2> QED
      BY <1>1, <1>2, <1>3, <2>2, BeginPendingRow
  <1>4. CASE ClaimKind(ledger[k]) # "claimed"
    <2>1. UNCHANGED ledger
      BY <1>1, <1>4, BeginPendingRow
    <2>2. CASE ClaimKind(ledger[k]) = "already_settled"
      <3>1. ledger[k].tx # NoTx
        BY <1>1, <2>2, BeginPendingRow, SettledTx
      <3>2. \A q \in Reqs : Owning(q)' <=> Owning(q)
        BY <1>1, <2>2, <3>1 DEF Claims, Owning, Typed
      <3> QED
        BY <1>1, <2>1, <3>2 DEF Quiet
    <2>3. CASE ClaimKind(ledger[k]) = "in_flight"
      <3>1. \A q \in Reqs : Owning(q)' <=> Owning(q)
        BY <1>1, <2>3 DEF Claims, Owning, Typed
      <3> QED
        BY <1>1, <2>1, <3>1 DEF Quiet
    <2> QED
      BY <1>1, <1>4, <2>2, <2>3, BeginPendingRow
  <1> QED
    BY <1>3, <1>4

LEMMA LeaseInit == Init => Lease!Init
  BY DEF Init, Lease!Init, KeyPhase, KeyHolders, KeyTx, LeasePhase, Owning,
         NoRow

LEMMA LeaseQuiet == Quiet => UNCHANGED Lease!vars
  <1> SUFFICES ASSUME Quiet PROVE UNCHANGED Lease!vars
    OBVIOUS
  <1>1. UNCHANGED <<KeyPhase, KeyTx>>
    BY DEF Quiet, KeyPhase, KeyTx
  <1>2. \A k \in Keys : {r \in Reqs : Owning(r) /\ key[r] = k /\ k \notin freed}'
                          = {r \in Reqs : Owning(r) /\ key[r] = k /\ k \notin freed}
    BY DEF Quiet
  <1>3. UNCHANGED KeyHolders
    BY <1>2 DEF KeyHolders
  <1> QED
    BY <1>1, <1>3 DEF Lease!vars

(* Whatever happens to a key that is freed, its lease is broken.           *)
LEMMA LeaseFreed ==
  ASSUME NEW k \in freed, UNCHANGED <<key, freed>>,
         \A j \in Keys \ {k} : ledger'[j] = ledger[j],
         \A q \in Reqs : key[q] # k => (Owning(q)' <=> Owning(q))
  PROVE  UNCHANGED Lease!vars
  <1>1. UNCHANGED <<KeyPhase, KeyTx>>
    BY DEF KeyPhase, KeyTx, LeasePhase
  <1>2. \A j \in Keys : {r \in Reqs : Owning(r) /\ key[r] = j /\ j \notin freed}'
                          = {r \in Reqs : Owning(r) /\ key[r] = j /\ j \notin freed}
    OBVIOUS
  <1>3. UNCHANGED KeyHolders
    BY <1>2 DEF KeyHolders
  <1> QED
    BY <1>1, <1>3 DEF Lease!vars

(* Each kind of step is a step of the lease or leaves it alone.            *)
LEMMA LeaseKinds ==
  ASSUME Typed, ClaimInv, Kinds
  PROVE  Lease!Next \/ UNCHANGED Lease!vars
  <1> USE DEF KeyPhase, KeyTx, LeasePhase
  <1>0. /\ \A r \in Reqs : key[r] \in Keys
        /\ \A r \in Reqs : Owning(r) /\ key[r] \notin freed =>
             /\ ledger[key[r]].status = "pending"
             /\ \A q \in Reqs : Owning(q) /\ key[q] = key[r] => q = r
        /\ SettledIsCharged
    BY DEF Typed, ClaimInv, ClaimInvOn, ExclusiveOn
  <1>1. CASE Quiet
    BY <1>1, LeaseQuiet
  <1>2. ASSUME NEW P \in SUBSET Reqs, LosesOwners(P)  PROVE Lease!Next
    <2> DEFINE Owners(k) == {r \in Reqs : Owning(r) /\ key[r] = k /\ k \notin freed}
               K == {k \in Keys : Owners(k) \subseteq P}
    <2>1. \A k \in Keys : \A q, r \in Owners(k) : q = r
      BY <1>0
    <2>2. \A k \in Keys : {r \in Reqs : Owning(r) /\ key[r] = k /\ k \notin freed}'
                           = IF k \in K THEN {} ELSE Owners(k)
      BY <1>2, <2>1 DEF LosesOwners
    <2>3. KeyHolders' = [k \in Keys |-> IF k \in K THEN {} ELSE KeyHolders[k]]
      BY <2>2 DEF KeyHolders
    <2>4. UNCHANGED <<KeyPhase, KeyTx>>
      BY <1>2 DEF LosesOwners
    <2>5. K \in SUBSET Keys
      OBVIOUS
    <2> HIDE DEF K
    <2>6. Lease!Lose(K)
      BY <2>3, <2>4 DEF Lease!Lose
    <2> QED
      BY <2>5, <2>6 DEF Lease!Next
  <1>3. ASSUME NEW r \in Reqs, Claims(r), ~ Quiet
        PROVE  Lease!Next \/ UNCHANGED Lease!vars
    <2> DEFINE k == key[r]
    <2>1. /\ k \in Keys
          /\ ledger[k].status \notin {"settled", "pending"}
          /\ ledger'[k].status = "pending"
          /\ ledger'[k].tx = NoTx
          /\ \A j \in Keys \ {k} : ledger'[j] = ledger[j]
          /\ UNCHANGED <<key, freed>>
          /\ \A q \in Reqs : Owning(q)' <=> (Owning(q) \/ q = r)
      BY <1>0, <1>3, ClaimRow
    <2>6. CASE k \in freed
      BY <2>1, <2>6, LeaseFreed
    <2>7. CASE k \notin freed
      <3>2. \A q \in Reqs : key[q] = k => ~ Owning(q)
        BY <1>0, <2>1, <2>7
      <3>3. KeyHolders' = [KeyHolders EXCEPT ![k] = {r}]
        BY <2>1, <2>7, <3>2 DEF KeyHolders
      <3>4. KeyPhase[k] = "free" /\ KeyPhase' = [KeyPhase EXCEPT ![k] = "held"]
        BY <2>1, <2>7
      <3>5. UNCHANGED KeyTx
        BY <2>1, <2>7
      <3> QED
        BY <2>1, <3>3, <3>4, <3>5 DEF Lease!Next, Lease!Acquire
    <2> QED
      BY <2>6, <2>7
  <1>4. ASSUME NEW r \in Reqs, NEW status \in {"failed", "settled"},
               NEW tx \in Tokens \cup {NoTx}, Outcome(r, status, tx)
        PROVE  \/ UNCHANGED Lease!vars
               \/ /\ key[r] \in Keys
                  /\ KeyPhase[key[r]] = "held"
                  /\ KeyHolders[key[r]] = {r}
                  /\ KeyHolders' = [KeyHolders EXCEPT ![key[r]] = {}]
                  /\ KeyPhase' = [KeyPhase EXCEPT ![key[r]] =
                                    IF status = "settled" THEN "settled" ELSE "free"]
                  /\ KeyTx[key[r]] = NoTx
                  /\ KeyTx' = [KeyTx EXCEPT ![key[r]] =
                                 IF status = "settled" THEN tx ELSE NoTx]
    <2> DEFINE k == key[r]
    <2>2. /\ Owning(r) /\ UNCHANGED <<key, freed>>
          /\ \A q \in Reqs : Owning(q)' <=> (Owning(q) /\ q # r)
          /\ Record(r, status, tx)
      BY <1>4 DEF Outcome
    <2>1. /\ k \in Keys
          /\ ledger[k].status # "settled" => ledger'[k].status = status /\ ledger'[k].tx = tx
          /\ \A j \in Keys \ {k} : ledger'[j] = ledger[j]
      BY <2>2, RecordedRow
    <2>7. CASE k \in freed
      BY <2>1, <2>2, <2>7, LeaseFreed
    <2>8. CASE k \notin freed
      <3>1. /\ ledger[k].status = "pending"
            /\ ledger'[k].status = status /\ ledger'[k].tx = tx
            /\ \A q \in Reqs : key[q] = k /\ Owning(q) => q = r
        BY <1>0, <2>1, <2>2, <2>8
      <3>4. KeyHolders[k] = {r} /\ KeyHolders' = [KeyHolders EXCEPT ![k] = {}]
        BY <2>1, <2>2, <2>8, <3>1 DEF KeyHolders
      <3>5. /\ KeyPhase[k] = "held"
            /\ KeyPhase' = [KeyPhase EXCEPT ![k] =
                              IF status = "settled" THEN "settled" ELSE "free"]
        BY <2>1, <2>2, <2>8, <3>1
      <3>6. /\ KeyTx[k] = NoTx
            /\ KeyTx' = [KeyTx EXCEPT ![k] = IF status = "settled" THEN tx ELSE NoTx]
        BY <2>1, <2>2, <2>8, <3>1
      <3> QED
        BY <2>1, <3>4, <3>5, <3>6
    <2> QED
      BY <2>7, <2>8
  <1>7. ASSUME NEW r \in Reqs, Reruns(r)
        PROVE  Lease!Next \/ UNCHANGED Lease!vars
    <2> DEFINE k == key[r]
    <2>1. /\ UNCHANGED key
          /\ freed' = freed \cup {j \in {k} : ledger[j].status = "pending"}
          /\ \A q \in Reqs : Owning(q)' <=> Owning(q)
          /\ Record(r, "failed", NoTx)
      BY <1>7 DEF Reruns
    <2>2. /\ k \in Keys
          /\ ledger[k].status = "settled" => ledger'[k] = ledger[k]
          /\ ledger[k].status # "settled" => ledger'[k].status = "failed"
          /\ \A j \in Keys \ {k} : ledger'[j] = ledger[j]
      BY <2>1, RecordedRow
    <2>3. CASE k \in freed
      <3>1. UNCHANGED freed
        BY <2>1, <2>3
      <3> QED
        BY <2>1, <2>2, <2>3, <3>1, LeaseFreed
    <2>4. CASE k \notin freed /\ ledger[k].status = "pending"
      <3>1. freed' = freed \cup {k}
        BY <2>1, <2>4
      <3>2. KeyPhase[k] # "broken" /\ KeyPhase' = [KeyPhase EXCEPT ![k] = "broken"]
        BY <2>2, <2>4, <3>1
      <3>3. KeyTx' = [KeyTx EXCEPT ![k] = NoTx]
        BY <2>2, <2>4, <3>1
      <3>4. \A j \in Keys : {q \in Reqs : Owning(q) /\ key[q] = j /\ j \notin freed}'
              = IF j = k THEN {} ELSE {q \in Reqs : Owning(q) /\ key[q] = j /\ j \notin freed}
        BY <2>1, <3>1
      <3>5. KeyHolders' = [KeyHolders EXCEPT ![k] = {}]
        BY <3>4 DEF KeyHolders
      <3> QED
        BY <2>2, <3>2, <3>3, <3>5 DEF Lease!Next, Lease!Break
    <2>5. CASE k \notin freed /\ ledger[k].status # "pending"
      <3>1. UNCHANGED freed
        BY <2>1, <2>5
      <3>2. UNCHANGED <<KeyPhase, KeyTx>>
        BY <2>2, <2>5, <3>1
      <3>3. \A j \in Keys : {q \in Reqs : Owning(q) /\ key[q] = j /\ j \notin freed}'
                             = {q \in Reqs : Owning(q) /\ key[q] = j /\ j \notin freed}
        BY <2>1, <3>1
      <3>4. UNCHANGED KeyHolders
        BY <3>3 DEF KeyHolders
      <3> QED
        BY <3>2, <3>4 DEF Lease!vars
    <2> QED
      BY <2>3, <2>4, <2>5
  <1> HIDE DEF KeyPhase, KeyTx
  <1>5. ASSUME NEW r \in Reqs, NEW tx \in Tokens \cup {NoTx}, Outcome(r, "failed", tx)
        PROVE  Lease!Next \/ UNCHANGED Lease!vars
    <2>1. \/ UNCHANGED Lease!vars
          \/ /\ key[r] \in Keys
             /\ KeyPhase[key[r]] = "held"
             /\ KeyHolders[key[r]] = {r}
             /\ KeyHolders' = [KeyHolders EXCEPT ![key[r]] = {}]
             /\ KeyPhase' = [KeyPhase EXCEPT ![key[r]] = "free"]
             /\ KeyTx[key[r]] = NoTx
             /\ KeyTx' = [KeyTx EXCEPT ![key[r]] = NoTx]
      BY <1>4, <1>5
    <2>2. CASE UNCHANGED Lease!vars
      BY <2>2
    <2>3. CASE ~ UNCHANGED Lease!vars
      <3>1. UNCHANGED KeyTx
        BY <2>1, <2>3 DEF KeyTx
      <3> QED
        BY <2>1, <2>3, <3>1 DEF Lease!Next, Lease!Release
    <2> QED
      BY <2>2, <2>3
  <1>6. ASSUME NEW r \in Reqs, NEW tx \in Tokens, Outcome(r, "settled", tx)
        PROVE  Lease!Next \/ UNCHANGED Lease!vars
    <2>1. \/ UNCHANGED Lease!vars
          \/ /\ key[r] \in Keys
             /\ KeyPhase[key[r]] = "held"
             /\ KeyHolders[key[r]] = {r}
             /\ KeyHolders' = [KeyHolders EXCEPT ![key[r]] = {}]
             /\ KeyPhase' = [KeyPhase EXCEPT ![key[r]] = "settled"]
             /\ KeyTx' = [KeyTx EXCEPT ![key[r]] = tx]
      BY <1>4, <1>6
    <2> QED
      BY <2>1 DEF Lease!Next, Lease!Settle
  <1> QED
    BY <1>1, <1>2, <1>3, <1>5, <1>6, <1>7 DEF Kinds

LEMMA LeaseStep ==
  TypeOK /\ ClaimInv /\ Step => [Lease!Next]_(Lease!vars)
  BY StepKinds, LeaseKinds, TypeIsTyped

(* The paywall implements KeyLease: on every route through the two hooks,  *)
(* with any number of requests and restarts, a key is claimed while it is  *)
(* free, given back or settled by its only holder, and never left again    *)
(* once it is settled; only the rerun of a hook breaks a lease.            *)
THEOREM Refinement == Spec => ImplementsLease
  BY LeaseInit, LeaseStep, ClaimInvariant, NextIsStep, PTL DEF Spec, ImplementsLease, Lease!Spec
=============================================================================
