---------------------------- MODULE PostgresProofs ----------------------------
(***************************************************************************)
(* Theorems about PostgresPaywall: what a key is worth when its claim is   *)
(* two queries and its outcome two more, with other requests in between.   *)
(***************************************************************************)
EXTENDS PostgresPaywall, PaywallProofs

-----------------------------------------------------------------------------
(* Type correctness                                                        *)

(* The history of keys freed is not kept here.                             *)
PgTyped == PgTypeOK /\ Typed /\ freed = {}

LEMMA PgInitTyped == PgInit => PgTyped
  <1> SUFFICES ASSUME PgInit PROVE PgTyped
    OBVIOUS
  <1>1. TypeOK /\ Typed /\ freed = {}
    BY InitTypeOK, TypeIsTyped DEF PgInit, Init
  <1> QED
    BY <1>1 DEF PgInit, PgTyped, PgTypeOK, TypeOK

LEMMA NothingFreed ==
  ASSUME PgTyped
  PROVE  ClaimInv <=> ClaimInvOn(Keys)
  <1>1. Keys \ freed = Keys
    BY DEF PgTyped
  <1> QED
    BY <1>1 DEF ClaimInv

LEMMA GoOnType ==
  ASSUME PgTyped, NEW r \in Reqs, NEW w \in Writes, GoOn(r, w)
  PROVE  /\ pc' \in [Reqs -> PCs \cup {"inserting"}]
         /\ receipt' \in [Reqs -> Tokens \cup {NoTx}]
         /\ reply' \in [Reqs -> Replies]
  <1> USE DEF PgTyped, PgTypeOK, Typed, GoOn, Goto, Finish
  <1>1. CASE w.reply = "none"
    BY <1>1 DEF Writes, PCs
  <1>2. CASE w.reply = "error" /\ pc[r] = "awaiting"
    BY <1>2 DEF PCs
  <1>3. CASE w.reply # "none" /\ ~ (w.reply = "error" /\ pc[r] = "awaiting")
    BY <1>3 DEF Writes, PCs
  <1> QED
    BY <1>1, <1>2, <1>3

LEMMA SelectType ==
  ASSUME PgTyped, NEW r \in Reqs, NEW w \in Writes, Select(r, w),
         posted' \subseteq Calls
  PROVE  PgTyped'
  <1> USE DEF PgTyped, PgTypeOK, Typed, envVars
  <1>1. CASE ledger[key[r]].status = "settled"
    BY <1>1, GoOnType DEF Select
  <1>2. CASE ledger[key[r]].status # "settled"
    BY <1>2 DEF Select
  <1> QED
    BY <1>1, <1>2

(* The update changes three columns of one row.                            *)
LEMMA UpdateRow ==
  ASSUME PgTyped, NEW r \in Reqs, Update(r)
  PROVE  /\ writing[r] \in Writes /\ key[r] \in Keys
         /\ ledger' = [ledger EXCEPT ![key[r]] =
              [status |-> writing[r].status, tx |-> writing[r].tx,
               created |-> ledger[key[r]].created, updated |-> now]]
         /\ ledger' \in [Keys -> RowOf(Tokens)]
  <1>1. /\ writing[r] \in Writes /\ key[r] \in Keys
        /\ ledger[key[r]] \in RowOf(Tokens) /\ now \in Nat
        /\ ledger \in [Keys -> RowOf(Tokens)]
    BY DEF PgTyped, PgTypeOK, Typed, Update, Idle
  <1>2. ledger' = [ledger EXCEPT ![key[r]] =
              [status |-> writing[r].status, tx |-> writing[r].tx,
               created |-> ledger[key[r]].created, updated |-> now]]
    <2> DEFINE k == key[r]
               status == writing[r].status
               tx == writing[r].tx
               a == [ledger EXCEPT ![k].status = status]
               b == [a EXCEPT ![k].tx = tx]
               c == [b EXCEPT ![k].updated = now]
    <2>1. /\ ledger[k] = [status |-> ledger[k].status, tx |-> ledger[k].tx,
                     created |-> ledger[k].created, updated |-> ledger[k].updated]
          /\ ledger = [j \in Keys |-> ledger[j]]
          /\ k \in Keys
      BY <1>1 DEF RowOf
    <2> HIDE DEF k, status, tx
    <2>2. /\ a[k] = [status |-> status, tx |-> ledger[k].tx,
                     created |-> ledger[k].created, updated |-> ledger[k].updated]
          /\ a = [j \in Keys |-> IF j = k THEN a[k] ELSE ledger[j]]
      BY <2>1
    <2>3. /\ b[k] = [status |-> status, tx |-> tx,
                     created |-> ledger[k].created, updated |-> ledger[k].updated]
          /\ b = [j \in Keys |-> IF j = k THEN b[k] ELSE ledger[j]]
      <3> HIDE DEF a
      <3> QED
        BY <2>1, <2>2
    <2>4. /\ c[k] = [status |-> status, tx |-> tx,
                     created |-> ledger[k].created, updated |-> now]
          /\ c = [j \in Keys |-> IF j = k THEN c[k] ELSE ledger[j]]
      <3> HIDE DEF b
      <3> QED
        BY <2>1, <2>3
    <2>5. c = [ledger EXCEPT ![k] = [status |-> status, tx |-> tx,
                                created |-> ledger[k].created, updated |-> now]]
      <3> HIDE DEF c
      <3> QED
        BY <2>1, <2>4
    <2>6. ledger' = c
      BY DEF Update, k, status, tx
    <2> QED
      BY <2>5, <2>6 DEF k, status, tx
  <1>3. [status |-> writing[r].status, tx |-> writing[r].tx,
         created |-> ledger[key[r]].created, updated |-> now] \in RowOf(Tokens)
    BY <1>1 DEF Writes, RowOf, Status
  <1> QED
    BY <1>1, <1>2, <1>3

(* The record that a request sets out to write: a settlement's only for a  *)
(* transaction that the settler has executed, ...                          *)
WriteFor(r, w) ==
  /\ pc[r] \in {"claimed", "onSend", "awaiting", "rerun"}
  /\ pc[r] = "onSend" => receipt[r] = NoTx
  /\ w.status = "settled" =>
       pc[r] = "awaiting" /\ w.reply = "none" /\ w.tx # NoTx /\ Spent(w.tx)
  /\ w.status = "failed" => w.reply # "none"

(* ... and no failure that the hook runs again for, unless settle can      *)
(* throw what it throws again.                                             *)
NoRerun(r, w) == ~ (w.reply = "error" /\ pc[r] = "awaiting")

(* The outcomes of the hooks, up to their select.                          *)
Outcomes(r) ==
  \/ PgVerifyFails(r)
  \/ PgReleaseOnError(r)
  \/ PgSettleSucceeds(r)
  \/ PgSettleRefused(r)
  \/ PgSettleThrows(r)

LEMMA OutcomesSelect ==
  ASSUME PgTyped, NEW r \in Reqs, Outcomes(r)
  PROVE  /\ posted' \subseteq posted
         /\ \E w \in Writes : Select(r, w) /\ WriteFor(r, w)
                                /\ (~ Rethrows => NoRerun(r, w))
  <1>0. Call(r).token \in Tokens /\ Call(r).token # NoTx
    BY CallType, ConstantsAssumption DEF PgTyped
  <1>1. ASSUME NEW tx \in Tokens \cup {NoTx}, NEW rep \in {"402", "502", "error"}
        PROVE  /\ Failed(tx, rep) \in Writes
               /\ Failed(tx, rep).status = "failed" /\ Failed(tx, rep).reply = rep
    BY DEF Failed, Writes, Replies
  <1>2. CASE PgVerifyFails(r)
    BY <1>1, <1>2 DEF PgVerifyFails, WriteFor, NoRerun
  <1>3. CASE PgReleaseOnError(r)
    BY <1>1, <1>3 DEF PgReleaseOnError, WriteFor, NoRerun
  <1>4. CASE PgSettleSucceeds(r)
    <2> DEFINE w == [status |-> "settled", tx |-> Call(r).token, reply |-> "none"]
    <2>1. w \in Writes
      BY <1>0 DEF Writes, Replies
    <2> QED
      BY <1>0, <1>4, <2>1 DEF PgSettleSucceeds, WriteFor, NoRerun
  <1>5. CASE PgSettleRefused(r)
    BY <1>0, <1>1, <1>5 DEF PgSettleRefused, WriteFor, NoRerun, Withdrawn
  <1>6. CASE PgSettleThrows(r)
    <2>1. PICK rep \in {"502"} \cup (IF Rethrows THEN {"error"} ELSE {}) :
            Select(r, Failed(NoTx, rep))
      BY <1>6 DEF PgSettleThrows
    <2>2. rep \in {"502", "error"} /\ (~ Rethrows => rep # "error")
      BY <2>1
    <2>3. pc[r] = "awaiting" /\ posted' \subseteq posted
      BY <1>6 DEF PgSettleThrows, AttemptFails, Withdrawn
    <2>4. /\ Failed(NoTx, rep) \in Writes
          /\ Failed(NoTx, rep).status = "failed" /\ Failed(NoTx, rep).reply = rep
      BY <1>1, <2>2
    <2> QED
      BY <2>1, <2>2, <2>3, <2>4 DEF WriteFor, NoRerun
  <1> QED
    BY <1>2, <1>3, <1>4, <1>5, <1>6 DEF Outcomes

LEMMA PgTypeStep == PgTyped /\ [PgNext]_pgVars => PgTyped'
  <1> SUFFICES ASSUME PgTyped, [PgNext]_pgVars PROVE PgTyped'
    OBVIOUS
  <1> USE DEF PgTyped, PgTypeOK, Typed, PCs, Replies, reqVars, extVars, envVars,
              Goto, Finish
  <1>1. ASSUME NEW r \in Reqs, NEW k \in Keys, NEW o \in Offers[k],
               Arrive(r, k, o), UNCHANGED writing
        PROVE  PgTyped'
    BY <1>1 DEF Arrive, AllOffers
  <1>2. ASSUME NEW r \in Reqs, Moves(r), UNCHANGED writing  PROVE PgTyped'
    <2>1. /\ pc' \in [Reqs -> PCs \cup {"inserting"}]
          /\ reply' \in [Reqs -> Replies]
      BY <1>2 DEF Moves, Refuse, CheckBudget, VerifyAccepts, SendPrior, PostSettle,
                  SettleRetries, Notify, HandlerReplies
    <2>2. UNCHANGED <<key, offer, receipt, ledger, charges, now, freed>>
      BY <1>2 DEF Moves, Refuse, CheckBudget, VerifyAccepts, SendPrior, PostSettle,
                  SettleRetries, Notify, HandlerReplies
    <2>3. posted' \subseteq Calls
      BY <1>2, CallType DEF Moves, Refuse, CheckBudget, VerifyAccepts, SendPrior, PostSettle,
                  SettleRetries, Notify, HandlerReplies, AttemptFails, Withdrawn
    <2> QED
      BY <1>2, <2>1, <2>2, <2>3
  <1>3. ASSUME NEW r \in Reqs, ClaimExisting(r)  PROVE PgTyped'
    <2>1. ledger[key[r]] \in RowOf(Tokens) /\ ledger[key[r]].tx \in Tokens \cup {NoTx}
      BY DEF RowOf
    <2>2. ledger' \in [Keys -> RowOf(Tokens)]
      BY <1>3, <2>1, BeginPendingRow DEF ClaimExisting, Claim
    <2> QED
      BY <1>3, <2>1, <2>2 DEF ClaimExisting, Claim
  <1>4. ASSUME NEW r \in Reqs, SelectNoRow(r)  PROVE PgTyped'
    BY <1>4 DEF SelectNoRow
  <1>5. ASSUME NEW r \in Reqs, Insert(r)  PROVE PgTyped'
    <2>1. ledger[key[r]] \in RowOf(Tokens) /\ ledger[key[r]].tx \in Tokens \cup {NoTx}
      BY DEF RowOf
    <2>2. ledger' \in [Keys -> RowOf(Tokens)]
      BY <1>5, <2>1, BeginPendingRow DEF Insert
    <2> QED
      BY <1>5, <2>1, <2>2 DEF Insert
  <1>6. ASSUME NEW r \in Reqs, Outcomes(r)  PROVE PgTyped'
    BY <1>6, OutcomesSelect, SelectType
  <1>7. ASSUME NEW r \in Reqs, Update(r)  PROVE PgTyped'
    <2>1. writing[r] \in Writes /\ ledger' \in [Keys -> RowOf(Tokens)]
      BY <1>7, UpdateRow
    <2>2. /\ pc' \in [Reqs -> PCs \cup {"inserting"}]
          /\ receipt' \in [Reqs -> Tokens \cup {NoTx}]
          /\ reply' \in [Reqs -> Replies]
      BY <1>7, <2>1, GoOnType DEF Update
    <2> QED
      BY <1>7, <2>1, <2>2 DEF Update
  <1>8. ASSUME NEW c \in posted, SettlerExecutes(c), UNCHANGED writing
        PROVE  PgTyped'
    BY <1>8 DEF SettlerExecutes, Withdrawn
  <1>9. ASSUME NEW r \in Reqs, BillingHears(r), UNCHANGED writing
        PROVE  PgTyped'
    BY <1>9 DEF BillingHears
  <1>10. ASSUME NEW P, Crash(P),
                writing' = [q \in Reqs |-> IF q \in P THEN Nothing ELSE writing[q]]
         PROVE  PgTyped'
    BY <1>10 DEF Crash, Cut
  <1>11. CASE Tick /\ UNCHANGED writing
    BY <1>11, ConstantsAssumption DEF Tick
  <1>12. CASE UNCHANGED pgVars
    BY <1>12 DEF pgVars, vars
  <1> HIDE DEF PgTyped, PgTypeOK, Typed, PCs, Replies, reqVars, extVars, envVars,
              Goto, Finish
  <1> QED
    BY <1>1, <1>2, <1>3, <1>4, <1>5, <1>6, <1>7, <1>8, <1>9, <1>10, <1>11, <1>12
    DEF PgNext, PgServe, Moves, Outcomes

(* Every state over the Postgres ledger has the declared types.            *)
THEOREM PgTypeCorrect == PgSpec => []PgTypeOK
  <1>1. PgTyped => PgTypeOK
    BY DEF PgTyped
  <1> QED
    BY <1>1, PgInitTyped, PgTypeStep, PTL DEF PgSpec

-----------------------------------------------------------------------------
(* The ledger is truthful, whatever settle may throw                       *)

RecordInv == \A r \in Reqs : ~ Idle(r) => WriteFor(r, writing[r])

(* A step that leaves the writing requests where they are.                 *)
LEMMA RecordQuiet ==
  ASSUME RecordInv, charges \subseteq charges',
         \A r \in Reqs : ~ Idle(r)' => /\ writing'[r] = writing[r]
                                       /\ pc'[r] = pc[r] /\ receipt'[r] = receipt[r]
  PROVE  RecordInv'
  BY DEF RecordInv, WriteFor, Spent, Idle

LEMMA RecordInvStep ==
  ASSUME PgTyped, RecordInv, [PgNext]_pgVars
  PROVE  RecordInv' /\ charges \subseteq charges'
  <1> USE DEF reqVars, extVars, envVars
  <1>0. \A r \in Reqs : pc[r] \notin {"claimed", "onSend", "awaiting", "rerun"} => Idle(r)
    BY DEF RecordInv, WriteFor
  <1>1. ASSUME NEW r \in Reqs, Idle(r), UNCHANGED <<writing, charges>>,
               \A q \in Reqs \ {r} : pc'[q] = pc[q] /\ receipt'[q] = receipt[q]
        PROVE  RecordInv'
    BY <1>1, RecordQuiet DEF Idle
  <1>2. ASSUME NEW r \in Reqs, NEW k \in Keys, NEW o \in Offers[k],
               Arrive(r, k, o), UNCHANGED writing
        PROVE  RecordInv' /\ charges' = charges
    BY <1>0, <1>1, <1>2 DEF Arrive, Goto, PgTyped, Typed
  <1>3. ASSUME NEW r \in Reqs, Idle(r), Moves(r), UNCHANGED writing
        PROVE  RecordInv' /\ charges' = charges
    BY <1>1, <1>3 DEF Moves, Refuse, CheckBudget, VerifyAccepts, SendPrior, PostSettle,
                  SettleRetries, Notify, HandlerReplies, Goto, Finish, PgTyped, Typed
  <1>4. ASSUME NEW r \in Reqs, ClaimExisting(r) \/ SelectNoRow(r) \/ Insert(r)
        PROVE  RecordInv' /\ charges' = charges
    <2>1. Idle(r) /\ UNCHANGED <<writing, charges>>
      BY <1>0, <1>4 DEF ClaimExisting, Claim, SelectNoRow, Insert
    <2>2. \A q \in Reqs \ {r} : pc'[q] = pc[q] /\ receipt'[q] = receipt[q]
      BY <1>4 DEF ClaimExisting, Claim, SelectNoRow, Insert, Goto, Finish, PgTyped, Typed
    <2> QED
      BY <1>1, <2>1, <2>2
  <1>5. ASSUME NEW r \in Reqs, Outcomes(r)
        PROVE  RecordInv' /\ charges' = charges
    <2>1. PICK w \in Writes : Select(r, w) /\ WriteFor(r, w)
      BY <1>5, OutcomesSelect
    <2>2. Idle(r) /\ charges' = charges
      BY <2>1 DEF Select
    <2>3. CASE ledger[key[r]].status = "settled"
      <3>1. GoOn(r, w) /\ UNCHANGED writing
        BY <2>1, <2>3 DEF Select
      <3>2. \A q \in Reqs \ {r} : pc'[q] = pc[q] /\ receipt'[q] = receipt[q]
        BY <3>1 DEF GoOn, Goto, Finish, PgTyped, Typed
      <3> QED
        BY <1>1, <2>2, <3>1, <3>2
    <2>4. CASE ledger[key[r]].status # "settled"
      <3>1. writing' = [writing EXCEPT ![r] = w] /\ UNCHANGED <<pc, receipt, charges>>
        BY <2>1, <2>4 DEF Select
      <3> QED
        BY <2>1, <3>1 DEF RecordInv, WriteFor, Spent, Idle, PgTyped, PgTypeOK
    <2> QED
      BY <2>2, <2>3, <2>4
  <1>6. ASSUME NEW r \in Reqs, Update(r)
        PROVE  RecordInv' /\ charges' = charges
    <2>1. /\ GoOn(r, writing[r]) /\ charges' = charges
          /\ writing' = [writing EXCEPT ![r] = Nothing]
      BY <1>6 DEF Update
    <2>2. \A q \in Reqs \ {r} : pc'[q] = pc[q] /\ receipt'[q] = receipt[q]
      BY <2>1 DEF GoOn, Goto, Finish, PgTyped, Typed
    <2>3. Idle(r)' /\ \A q \in Reqs \ {r} : writing'[q] = writing[q]
      BY <2>1 DEF Idle, PgTyped, PgTypeOK
    <2> QED
      BY <2>1, <2>2, <2>3, RecordQuiet
  <1>7. ASSUME NEW c \in posted, SettlerExecutes(c), UNCHANGED writing
        PROVE  RecordInv' /\ charges \subseteq charges'
    BY <1>7, RecordQuiet DEF SettlerExecutes
  <1>8. ASSUME NEW P, Crash(P),
               writing' = [q \in Reqs |-> IF q \in P THEN Nothing ELSE writing[q]]
        PROVE  RecordInv' /\ charges' = charges
    <2>1. /\ charges' = charges /\ receipt' = receipt
          /\ pc' = [q \in Reqs |-> IF q \in {p \in P : Active(p)} THEN "done" ELSE pc[q]]
      BY <1>8 DEF Crash, Cut
    <2>2. \A q \in Reqs : ~ Idle(q)' =>
            q \notin P /\ writing'[q] = writing[q] /\ pc'[q] = pc[q]
      BY <1>8, <2>1 DEF Idle
    <2> QED
      BY <2>1, <2>2, RecordQuiet
  <1>9. ASSUME \/ Tick /\ UNCHANGED writing
               \/ UNCHANGED pgVars
               \/ \E r \in Reqs : BillingHears(r) /\ UNCHANGED writing
        PROVE  RecordInv' /\ charges' = charges
    BY <1>9, RecordQuiet DEF Tick, pgVars, vars, BillingHears
  <1> QED
    BY <1>2, <1>3, <1>4, <1>5, <1>6, <1>7, <1>8, <1>9
    DEF PgNext, PgServe, Moves, Outcomes

(* The ledger changes by a claim or by an update.                          *)
LEMMA PgLedgerStep ==
  ASSUME [PgNext]_pgVars
  PROVE  \/ UNCHANGED ledger
         \/ \E r \in Reqs : ledger' = [ledger EXCEPT ![key[r]] = BeginPending(@, now)]
         \/ \E r \in Reqs : Update(r)
  BY DEF PgNext, PgServe, pgVars, vars, Arrive, Refuse, CheckBudget, VerifyAccepts,
         HandlerReplies, SendPrior, PostSettle, SettleRetries, Notify,
         ClaimExisting, Claim, SelectNoRow, Insert, Select, PgVerifyFails,
         PgReleaseOnError, PgSettleSucceeds, PgSettleRefused, PgSettleThrows,
         SettlerExecutes, BillingHears, Crash, Cut, Tick

LEMMA PgChargedStep ==
  ASSUME PgTyped, RecordInv, SettledIsCharged, [PgNext]_pgVars
  PROVE  SettledIsCharged'
  <1>1. charges \subseteq charges'
    BY RecordInvStep
  <1>2. ASSUME NEW r \in Reqs,
               ledger' = [ledger EXCEPT ![key[r]] = BeginPending(@, now)]
        PROVE  SettledIsCharged'
    <2>1. key[r] \in Keys /\ ledger[key[r]] \in RowOf(Tokens) /\ now \in Nat
      BY DEF PgTyped, Typed
    <2>2. \A k \in Keys : ledger'[k].status = "settled" => ledger'[k] = ledger[k]
      BY <1>2, <2>1, BeginPendingRow DEF PgTyped, Typed
    <2> QED
      BY <1>1, <2>2 DEF SettledIsCharged, Spent
  <1>3. ASSUME NEW r \in Reqs, Update(r)
        PROVE  SettledIsCharged'
    <2>1. /\ ledger \in [Keys -> RowOf(Tokens)] /\ key[r] \in Keys
          /\ ledger' = [ledger EXCEPT ![key[r]] =
              [status |-> writing[r].status, tx |-> writing[r].tx,
               created |-> ledger[key[r]].created, updated |-> now]]
      BY <1>3, UpdateRow DEF PgTyped, Typed
    <2>2. writing[r].status = "settled" => Spent(writing[r].tx)
      BY <1>3 DEF Update, RecordInv, WriteFor
    <2> QED
      BY <1>1, <2>1, <2>2 DEF SettledIsCharged, Spent
  <1>4. CASE UNCHANGED ledger
    BY <1>1, <1>4 DEF SettledIsCharged, Spent
  <1> QED
    BY <1>2, <1>3, <1>4, PgLedgerStep

LEMMA PgRecords == PgSpec => [](PgTyped /\ RecordInv /\ SettledIsCharged)
  <1>1. PgInit => RecordInv /\ SettledIsCharged
    BY InitClaimInv DEF PgInit, RecordInv, Idle, ClaimInv, ClaimInvOn
  <1> QED
    BY <1>1, PgInitTyped, PgTypeStep, RecordInvStep, PgChargedStep, PTL DEF PgSpec

(* A settled row names a transaction that the settler has executed, also   *)
(* when the hook runs twice and one of its records overwrites another.     *)
THEOREM PgLedgerIsTruthful == PgSpec => []SettledIsCharged
  BY PgRecords, PTL

-----------------------------------------------------------------------------
(* A settle that throws nothing but the client's own errors                *)

(* Then the hook runs once, and who writes owns the key.                   *)
OwnInv ==
  \A r \in Reqs :
    /\ pc[r] # "rerun"
    /\ pc[r] = "inserting" => receipt[r] = NoTx
    /\ ~ Idle(r) => NoRerun(r, writing[r])

LEMMA WriterOwns ==
  ASSUME OwnInv, NEW r \in Reqs, NEW w, WriteFor(r, w)
  PROVE  Owning(r)
  BY DEF OwnInv, WriteFor, Owning

LEMMA PgCutOffKept ==
  ASSUME PgTyped, RecordInv, [PgNext]_pgVars, NEW q \in Reqs, CutOff(q)
  PROVE  CutOff(q)' /\ key'[q] = key[q]
  <1> USE DEF Goto, Finish, reqVars, extVars, envVars, PgTyped, Typed, CutOff
  <1>1. ASSUME NEW r \in Reqs, NEW k \in Keys, NEW o \in Offers[k], Arrive(r, k, o)
        PROVE  CutOff(q)' /\ key'[q] = key[q]
    BY <1>1 DEF Arrive
  <1>2. ASSUME NEW r \in Reqs, Moves(r) PROVE CutOff(q)' /\ key'[q] = key[q]
    BY <1>2 DEF Moves, Refuse, CheckBudget, VerifyAccepts, SendPrior, PostSettle,
         ReadyToSettle, SettleRetries, AttemptFails, Notify, HandlerReplies
  <1>3. ASSUME NEW r \in Reqs, ClaimExisting(r) \/ SelectNoRow(r) \/ Insert(r)
        PROVE  CutOff(q)' /\ key'[q] = key[q]
    BY <1>3 DEF ClaimExisting, Claim, SelectNoRow, Insert
  <1>4. ASSUME NEW r \in Reqs, NEW w \in Writes, pc[r] # "done",
               UNCHANGED <<pc, receipt, reply>> \/ GoOn(r, w)
        PROVE  CutOff(q)'
    BY <1>4 DEF GoOn
  <1>5. ASSUME NEW r \in Reqs, Outcomes(r)
        PROVE  CutOff(q)' /\ key'[q] = key[q]
    <2>1. PICK w \in Writes : Select(r, w) /\ WriteFor(r, w)
      BY <1>5, OutcomesSelect
    <2>2. pc[r] # "done" /\ UNCHANGED key /\ (UNCHANGED <<pc, receipt, reply>> \/ GoOn(r, w))
      BY <2>1 DEF Select, WriteFor
    <2> QED
      BY <1>4, <2>2
  <1>6. ASSUME NEW r \in Reqs, Update(r)
        PROVE  CutOff(q)' /\ key'[q] = key[q]
    <2>1. pc[r] # "done" /\ UNCHANGED key /\ GoOn(r, writing[r])
      BY <1>6 DEF Update, RecordInv, WriteFor
    <2>2. writing[r] \in Writes
      BY <1>6, UpdateRow
    <2> QED
      BY <1>4, <2>1, <2>2
  <1>7. ASSUME NEW P, Crash(P)
        PROVE  CutOff(q)' /\ key'[q] = key[q]
    BY <1>7 DEF Crash, Cut
  <1>8. ASSUME \/ Tick
               \/ UNCHANGED pgVars
               \/ \E c \in posted : SettlerExecutes(c)
               \/ \E r \in Reqs : BillingHears(r)
        PROVE  CutOff(q)' /\ key'[q] = key[q]
    BY <1>8 DEF Tick, pgVars, vars, SettlerExecutes, BillingHears
  <1> HIDE DEF Goto, Finish, reqVars, extVars, envVars, PgTyped, Typed, CutOff
  <1> QED
    BY <1>1, <1>2, <1>3, <1>5, <1>6, <1>7, <1>8
    DEF PgNext, PgServe, Moves, Outcomes

LEMMA OwnInvStep ==
  ASSUME ~ Rethrows, PgTyped, RecordInv, NoReceiptYet, OwnInv, [PgNext]_pgVars
  PROVE  OwnInv'
  <1> USE DEF Goto, Finish, reqVars, extVars, envVars, PgTyped, PgTypeOK, Typed,
              OwnInv, Idle, NoRerun
  <1>1. ASSUME NEW r \in Reqs, NEW k \in Keys, NEW o \in Offers[k], Arrive(r, k, o),
               UNCHANGED writing
        PROVE  OwnInv'
    BY <1>1 DEF Arrive, RecordInv, WriteFor
  <1>2. ASSUME NEW r \in Reqs, Moves(r), Idle(r), UNCHANGED writing  PROVE OwnInv'
    BY <1>2 DEF Moves, Refuse, CheckBudget, VerifyAccepts, SendPrior, PostSettle,
         ReadyToSettle, SettleRetries, AttemptFails, Notify, HandlerReplies
  <1>3. ASSUME NEW r \in Reqs, ClaimExisting(r) \/ SelectNoRow(r) \/ Insert(r)
        PROVE  OwnInv'
    <2>1. Idle(r) /\ UNCHANGED writing
      BY <1>3 DEF ClaimExisting, Claim, SelectNoRow, Insert, RecordInv, WriteFor
    <2> QED
      BY <1>3, <2>1 DEF ClaimExisting, Claim, SelectNoRow, Insert, NoReceiptYet
  <1>4. ASSUME NEW r \in Reqs, NEW w \in Writes, GoOn(r, w), NoRerun(r, w),
               Idle(r)', \A q \in Reqs \ {r} : writing'[q] = writing[q]
        PROVE  OwnInv'
    BY <1>4 DEF GoOn
  <1>5. ASSUME NEW r \in Reqs, Outcomes(r)  PROVE OwnInv'
    <2>1. PICK w \in Writes : Select(r, w) /\ NoRerun(r, w)
      BY <1>5, OutcomesSelect
    <2>2. CASE ledger[key[r]].status = "settled"
      BY <1>4, <2>1, <2>2 DEF Select
    <2>3. CASE ledger[key[r]].status # "settled"
      BY <2>1, <2>3 DEF Select
    <2> QED
      BY <2>2, <2>3
  <1>6. ASSUME NEW r \in Reqs, Update(r)  PROVE OwnInv'
    <2>1. writing[r] \in Writes
      BY <1>6, UpdateRow
    <2> QED
      BY <1>4, <1>6, <2>1 DEF Update
  <1>7. ASSUME NEW P, Crash(P),
               writing' = [q \in Reqs |-> IF q \in P THEN Nothing ELSE writing[q]]
        PROVE  OwnInv'
    BY <1>7 DEF Crash, Cut
  <1>8. ASSUME \/ Tick /\ UNCHANGED writing
               \/ UNCHANGED pgVars
               \/ \E c \in posted : SettlerExecutes(c) /\ UNCHANGED writing
               \/ \E r \in Reqs : BillingHears(r) /\ UNCHANGED writing
        PROVE  OwnInv'
    BY <1>8 DEF Tick, pgVars, vars, SettlerExecutes, BillingHears
  <1> HIDE DEF Goto, Finish, reqVars, extVars, envVars, PgTyped, PgTypeOK, Typed,
              OwnInv, Idle, NoRerun
  <1> QED
    BY <1>1, <1>2, <1>3, <1>5, <1>6, <1>7, <1>8
    DEF PgNext, PgServe, Moves, Outcomes

(* The insert claims the key as beginPending does in one step, or finds    *)
(* that another request's row has failed meanwhile and answers 409.        *)
LEMMA InsertKinds ==
  ASSUME PgTyped, ClaimInvOn(Keys), OwnInv, NEW r \in Reqs, Insert(r)
  PROVE  \/ Claims(r)
         \/ /\ Quiet
            /\ UNCHANGED <<key, receipt, ledger, charges>>
            /\ NoReceiptYet'
  <1> DEFINE k == key[r]
  <1>1. /\ k \in Keys /\ ledger[k] \in RowOf(Tokens) /\ now \in Nat
        /\ ledger \in [Keys -> RowOf(Tokens)]
        /\ pc[r] = "inserting" /\ UNCHANGED <<key, charges, freed>>
    BY DEF Insert, PgTyped, Typed, extVars, envVars
  <1>2. receipt[r] = NoTx /\ ~ Owning(r) /\ ~ CutOff(r)
    BY <1>1 DEF OwnInv, Owning, CutOff
  <1>3. CASE ledger[k].status = "absent"
    <2>1. ClaimKind(ledger[k]) = "claimed"
      BY <1>3 DEF ClaimKind
    <2> QED
      BY <1>1, <1>2, <1>3, <2>1 DEF Insert, Claims, Goto
  <1>4. CASE ledger[k].status = "settled"
    <2>1. ClaimKind(ledger[k]) = "already_settled" /\ BeginPending(ledger[k], now) = ledger[k]
      BY <1>4 DEF ClaimKind, BeginPending
    <2>2. ledger = [ledger EXCEPT ![k] = BeginPending(ledger[k], now)]
      BY <1>1, <2>1
    <2> QED
      BY <1>1, <1>2, <1>4, <2>1, <2>2 DEF Insert, Claims, Goto
  <1>5. CASE ledger[k].status = "pending"
    <2>1. ClaimKind(ledger[k]) = "in_flight" /\ BeginPending(ledger[k], now) = ledger[k]
      BY <1>5 DEF ClaimKind, BeginPending
    <2>2. ledger = [ledger EXCEPT ![k] = BeginPending(ledger[k], now)]
      BY <1>1, <2>1
    <2> QED
      BY <1>1, <1>2, <1>5, <2>1, <2>2 DEF Insert, Claims, Goto, Finish
  <1>6. CASE ledger[k].status \notin {"absent", "settled", "pending"}
    <2>1. pc' = [pc EXCEPT ![r] = "done"] /\ UNCHANGED <<receipt, ledger>>
      BY <1>6 DEF Insert, Finish, Goto
    <2>2. \A q \in Reqs : Owning(q)' <=> Owning(q)
      BY <1>1, <1>2, <2>1 DEF Owning, PgTyped, Typed
    <2>3. NoReceiptYet'
      BY <2>1 DEF ClaimInvOn, NoReceiptYet, PgTyped, Typed
    <2> QED
      BY <1>1, <2>1, <2>2, <2>3 DEF Quiet
  <1> QED
    BY <1>3, <1>4, <1>5, <1>6

(* An owner's row is pending: the select only prepares the update, ...     *)
LEMMA SelectPrepares ==
  ASSUME PgTyped, ClaimInvOn(Keys), RecordInv, OwnInv, NEW r \in Reqs, Outcomes(r)
  PROVE  UNCHANGED <<pc, key, receipt, reply, ledger, charges, freed>>
  <1>1. PICK w \in Writes : Select(r, w) /\ WriteFor(r, w)
    BY OutcomesSelect
  <1>2. ledger[key[r]].status = "pending"
    BY <1>1, WriterOwns DEF PgTyped, Typed, ClaimInvOn, ExclusiveOn
  <1> QED
    BY <1>1, <1>2 DEF Select, envVars

(* ... which then records the outcome and ends the request's claim.        *)
LEMMA UpdateIsOutcome ==
  ASSUME PgTyped, ClaimInvOn(Keys), RecordInv, OwnInv, NEW r \in Reqs, Update(r)
  PROVE  \E status \in {"failed", "settled"} : \E tx \in Tokens \cup {NoTx} :
           /\ Outcome(r, status, tx)
           /\ status = "settled" => tx \in Tokens /\ Spent(tx)
           /\ receipt'[r] # NoTx => status = "settled" /\ receipt'[r] = tx
           /\ \A q \in Reqs \ {r} : receipt'[q] = receipt[q]
           /\ UNCHANGED charges
           /\ NoReceiptYet'
  <1> DEFINE w == writing[r]
             k == key[r]
  <1>1. /\ w \in Writes /\ k \in Keys /\ ledger[k] \in RowOf(Tokens)
        /\ ledger' = [ledger EXCEPT ![k] =
             [status |-> w.status, tx |-> w.tx,
              created |-> ledger[k].created, updated |-> now]]
    BY UpdateRow DEF PgTyped, Typed
  <1>2. /\ w.status \in {"failed", "settled"} /\ w.tx \in Tokens \cup {NoTx}
        /\ w.reply \in Replies
    BY <1>1 DEF Writes
  <1>3. WriteFor(r, w) /\ NoRerun(r, w) /\ GoOn(r, w)
    BY DEF Update, RecordInv, OwnInv
  <1>4. Owning(r)
    BY <1>3, WriterOwns
  <1>5. ledger[k].status = "pending" /\ receipt[r] = NoTx
    BY <1>1, <1>3, <1>4 DEF ClaimInvOn, ExclusiveOn, NoReceiptYet, WriteFor, OwnInv
  <1>6. Record(r, w.status, w.tx) /\ UNCHANGED <<key, charges, freed>>
    <2>1. RecordSettlement(ledger[k], w.status, w.tx, now)
            = [status |-> w.status, tx |-> w.tx,
               created |-> ledger[k].created, updated |-> now]
      BY <1>5 DEF RecordSettlement
    <2> QED
      BY <1>1, <2>1 DEF Record, Update, extVars, envVars
  <1>7. \/ /\ pc' = [pc EXCEPT ![r] = "notifying"]
           /\ receipt' = [receipt EXCEPT ![r] = w.tx]
           /\ w.status = "settled"
        \/ pc' = [pc EXCEPT ![r] = "done"] /\ UNCHANGED receipt
    BY <1>2, <1>3 DEF GoOn, Goto, Finish, WriteFor, NoRerun
  <1> HIDE DEF w
  <1>8. \A q \in Reqs : Owning(q)' <=> (Owning(q) /\ q # r)
    BY <1>7 DEF Owning, PgTyped, Typed
  <1>9. NoReceiptYet'
    BY <1>7 DEF ClaimInvOn, NoReceiptYet, PgTyped, Typed
  <1>10. /\ receipt'[r] # NoTx => w.status = "settled" /\ receipt'[r] = w.tx
         /\ \A q \in Reqs \ {r} : receipt'[q] = receipt[q]
    BY <1>5, <1>7 DEF PgTyped, Typed
  <1>11. w.status = "settled" => w.tx \in Tokens /\ Spent(w.tx)
    BY <1>2, <1>3 DEF WriteFor
  <1> QED
    BY <1>2, <1>4, <1>6, <1>8, <1>9, <1>10, <1>11 DEF Outcome

LEMMA PgStepKinds ==
  ASSUME PgTyped, ClaimInvOn(Keys), RecordInv, OwnInv, [PgNext]_pgVars
  PROVE  Kinds /\ ClaimInvOn(Keys)'
  <1> USE DEF reqVars, extVars, envVars
  <1>0. /\ \A q \in Reqs : CutOff(q) => CutOff(q)' /\ key'[q] = key[q]
        /\ Typed
    BY PgCutOffKept DEF PgTyped
  <1>1. ASSUME Quiet, UNCHANGED <<key, receipt, ledger>>, charges \subseteq charges',
               NoReceiptYet'
        PROVE  Kinds /\ ClaimInvOn(Keys)'
    BY <1>0, <1>1, QuietStep DEF Kinds, Quiet
  <1>2. ASSUME UNCHANGED <<pc, key, receipt, ledger, freed>>, charges \subseteq charges'
        PROVE  Kinds /\ ClaimInvOn(Keys)'
    <2>1. Quiet /\ NoReceiptYet'
      BY <1>2 DEF Quiet, Owning, ClaimInvOn, NoReceiptYet
    <2> QED
      BY <1>1, <1>2, <2>1
  <1>3. ASSUME NEW r \in Reqs, Claims(r)  PROVE Kinds /\ ClaimInvOn(Keys)'
    BY <1>0, <1>3, ClaimStep DEF Kinds
  <1>4. ASSUME NEW r \in Reqs, NEW k \in Keys, NEW o \in Offers[k], Arrive(r, k, o)
        PROVE  Kinds /\ ClaimInvOn(Keys)'
    <2>1. Quiet
      BY <1>0, <1>4 DEF Arrive, Goto, Owning, Quiet, Typed
    <2> QED
      BY <1>0, <1>4, <2>1, ArriveKeepsClaims DEF Kinds
  <1>5. ASSUME NEW r \in Reqs, Moves(r)  PROVE Kinds /\ ClaimInvOn(Keys)'
    <2>1. NoReceiptYet
      BY DEF ClaimInvOn
    <2>2. /\ UNCHANGED <<key, receipt, ledger, charges, freed>>
          /\ \A q \in Reqs : Owning(q)' <=> Owning(q)
          /\ NoReceiptYet'
      BY <1>0, <1>5, <2>1, MoveIsQuiet
    <2> QED
      BY <1>1, <2>2 DEF Quiet
  <1>6. ASSUME NEW r \in Reqs, ClaimExisting(r)  PROVE Kinds /\ ClaimInvOn(Keys)'
    BY <1>3, <1>6, ClaimIsClaims DEF ClaimExisting, ClaimInvOn
  <1>7. ASSUME NEW r \in Reqs, SelectNoRow(r)  PROVE Kinds /\ ClaimInvOn(Keys)'
    <2>1. /\ pc[r] = "admitted" /\ pc' = [pc EXCEPT ![r] = "inserting"]
          /\ UNCHANGED <<key, receipt, ledger, charges, freed>>
      BY <1>7 DEF SelectNoRow, Goto
    <2>2. Quiet /\ NoReceiptYet'
      BY <1>0, <2>1 DEF Quiet, Owning, Typed, ClaimInvOn, NoReceiptYet
    <2> QED
      BY <1>1, <2>1, <2>2
  <1>8. ASSUME NEW r \in Reqs, Insert(r)  PROVE Kinds /\ ClaimInvOn(Keys)'
    BY <1>1, <1>3, <1>8, InsertKinds
  <1>9. ASSUME NEW r \in Reqs, Outcomes(r)  PROVE Kinds /\ ClaimInvOn(Keys)'
    BY <1>2, <1>9, SelectPrepares
  <1>10. ASSUME NEW r \in Reqs, Update(r)  PROVE Kinds /\ ClaimInvOn(Keys)'
    <2>1. PICK status \in {"failed", "settled"}, tx \in Tokens \cup {NoTx} :
            /\ Outcome(r, status, tx)
            /\ status = "settled" => tx \in Tokens /\ Spent(tx)
            /\ receipt'[r] # NoTx => status = "settled" /\ receipt'[r] = tx
            /\ \A q \in Reqs \ {r} : receipt'[q] = receipt[q]
            /\ UNCHANGED charges
            /\ NoReceiptYet'
      BY <1>10, UpdateIsOutcome
    <2>2. ClaimInvOn(Keys)'
      BY <1>0, <2>1, OutcomeStep DEF Outcome
    <2>3. Kinds
      BY <2>1 DEF Kinds
    <2> QED
      BY <2>2, <2>3
  <1>11. ASSUME NEW R \in SUBSET Reqs, Crash(R)  PROVE Kinds /\ ClaimInvOn(Keys)'
    <2> DEFINE P == {q \in R : Active(q)}
    <2>0. P \in SUBSET {q \in Reqs : Active(q)}
      OBVIOUS
    <2>1. Cut(P)
      BY <1>11 DEF Crash
    <2>2. LosesOwners(P)
      BY <2>1 DEF Cut, LosesOwners, Owning
    <2>3. ClaimInvOn(Keys)'
      BY <1>0, <2>1, CutKeepsClaims
    <2> QED
      BY <2>2, <2>3 DEF Kinds
  <1>12. ASSUME \/ Tick
                \/ UNCHANGED pgVars
                \/ \E c \in posted : SettlerExecutes(c)
                \/ \E r \in Reqs : BillingHears(r)
         PROVE  Kinds /\ ClaimInvOn(Keys)'
    BY <1>2, <1>12 DEF Tick, pgVars, vars, SettlerExecutes, BillingHears
  <1> HIDE DEF reqVars, extVars, envVars
  <1>13. ASSUME NEW r \in Reqs, Crash(Process(r))  PROVE Kinds /\ ClaimInvOn(Keys)'
    BY <1>11, <1>13 DEF Process
  <1> QED
    BY <1>4, <1>5, <1>6, <1>7, <1>8, <1>9, <1>10, <1>12, <1>13
    DEF PgNext, PgServe, Moves, Outcomes

(* The inductive invariant over Postgres.                                  *)
PgInv == PgTyped /\ RecordInv /\ ClaimInvOn(Keys) /\ OwnInv

LEMMA PgInvariant ==
  ASSUME ~ Rethrows
  PROVE  PgSpec => []PgInv
  <1>1. PgInit => PgInv
    <2>1. PgInit => ClaimInvOn(Keys) /\ OwnInv
      BY InitClaimInv, PgInitTyped, NothingFreed DEF PgInit, Init, OwnInv, Idle
    <2> QED
      BY <2>1, PgInitTyped DEF PgInv, PgInit, RecordInv, Idle
  <1>2. PgInv /\ [PgNext]_pgVars => PgInv'
    BY PgTypeStep, RecordInvStep, PgStepKinds, OwnInvStep DEF PgInv, ClaimInvOn
  <1> QED
    BY <1>1, <1>2, PTL DEF PgSpec

(* Of any number of requests, in any number of processes on one database,  *)
(* one at a time is between the claim of a key and its outcome.            *)
THEOREM PgClaimsAreExclusive ==
  ASSUME ~ Rethrows
  PROVE  PgSpec => []ExclusiveClaim
  <1>1. PgInv => ExclusiveClaim
    BY NothingFreed DEF PgInv, ClaimInv, ClaimInvOn, ExclusiveClaim
  <1> QED
    BY <1>1, PgInvariant, PTL

(* Every receipt of a key names the transaction of its settled row, with   *)
(* requests in any number of processes on one database.                    *)
THEOREM PgReceiptsAreConsistent ==
  ASSUME ~ Rethrows
  PROVE  PgSpec => []ReceiptsAgree
  <1>1. PgInv => ReceiptsAgree
    BY NothingFreed DEF PgInv, ClaimInv, ClaimInvOn, ReceiptsAgree
  <1> QED
    BY <1>1, PgInvariant, PTL

(* A settled row is never changed: the update without a lock or condition  *)
(* is safe, since only the owner of a key ever writes its row, and owns it *)
(* until it has written.                                                   *)
THEOREM PgSettledRowsAreFinal ==
  ASSUME ~ Rethrows
  PROVE  PgSpec => SettledIsFinal
  <1>1. ASSUME PgTyped, ClaimInvOn(Keys), Kinds, NEW k \in Keys, ledger[k].status = "settled"
        PROVE  ledger'[k] = ledger[k]
    <2>0. Typed
      BY <1>1 DEF PgTyped
    <2>1. CASE UNCHANGED ledger
      BY <2>1
    <2>2. ASSUME NEW r \in Reqs, Claims(r)  PROVE ledger'[k] = ledger[k]
      BY <1>1, <2>0, <2>2, ClaimRow DEF Quiet, ClaimInvOn
    <2>3. ASSUME NEW r \in Reqs, NEW status \in {"failed", "settled"},
                 NEW tx \in Tokens \cup {NoTx}, Outcome(r, status, tx)
          PROVE  ledger'[k] = ledger[k]
      BY <2>0, <2>3, <1>1, RecordedRow DEF Outcome
    <2>4. ASSUME NEW r \in Reqs, Reruns(r)  PROVE ledger'[k] = ledger[k]
      BY <2>0, <2>4, <1>1, RecordedRow DEF Reruns
    <2> QED
      BY <1>1, <2>1, <2>2, <2>3, <2>4 DEF Kinds, Quiet, LosesOwners
  <1>2. PgInv /\ [PgNext]_pgVars =>
          [\A k \in Keys : ledger[k].status = "settled" => ledger'[k] = ledger[k]]_vars
    BY <1>1, PgStepKinds DEF PgInv
  <1> QED
    BY <1>2, PgInvariant, PTL DEF PgSpec, SettledIsFinal

(* The paywall over Postgres implements the lease of a key as the one over *)
(* SQLite does: a claim that loses the race of two inserts takes nothing,  *)
(* and an outcome takes effect at its update.                              *)
THEOREM PgRefinement ==
  ASSUME ~ Rethrows
  PROVE  PgSpec => ImplementsLease
  <1>1. PgInit => Lease!Init
    BY LeaseInit DEF PgInit
  <1>2. PgInv /\ [PgNext]_pgVars => [Lease!Next]_(Lease!vars)
    BY PgStepKinds, LeaseKinds, NothingFreed DEF PgInv, PgTyped
  <1> QED
    BY <1>1, <1>2, PgInvariant, PTL DEF PgSpec, ImplementsLease, Lease!Spec
=============================================================================
