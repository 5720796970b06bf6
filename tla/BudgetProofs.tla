---------------------------- MODULE BudgetProofs ----------------------------
(***************************************************************************)
(* By how much settled spend exceeds a budget, for every budget, price and *)
(* number of requests: over SQLite, with and without an MCP server next to *)
(* the HTTP paywall, and over Postgres.                                    *)
(***************************************************************************)
EXTENDS PaidMcpProofs, PostgresProofs, FiniteSetTheorems

-----------------------------------------------------------------------------
(* Arithmetic                                                              *)

LEMMA TimesMonotone ==
  ASSUME NEW p \in Nat, NEW x \in Nat, NEW y \in Nat, x <= y
  PROVE  p * x \in Nat /\ p * y \in Nat /\ p * x <= p * y
  <1>1. PICK d \in Nat : y = x + d
    <2>1. y - x \in Nat /\ y = x + (y - x)
      OBVIOUS
    <2> QED
      BY <2>1
  <1>2. p * x \in Nat /\ p * d \in Nat
    OBVIOUS
  <1>3. p * y = p * x + p * d
    BY <1>1
  <1> QED
    BY <1>2, <1>3

LEMMA BoundKept ==
  ASSUME NEW p \in Nat, NEW m \in Int, NEW x \in Nat, NEW y \in Nat,
         x <= y, p * y <= m
  PROVE  p * x <= m
  <1>1. p * x \in Nat /\ p * y \in Nat /\ p * x <= p * y
    BY TimesMonotone
  <1> QED
    BY <1>1

(* The window never starts earlier than it did.                            *)
LEMMA WindowMoves ==
  ASSUME NEW t \in Nat
  PROVE  /\ WindowStart(t) \in Nat /\ WindowStart(t + 1) \in Nat
         /\ WindowStart(t) <= WindowStart(t + 1)
  <1>1. CASE Rolling
    BY <1>1, ConstantsAssumption DEF WindowStart
  <1>2. CASE ~ Rolling
    <2> DEFINE a == t \div Window
               b == (t + 1) \div Window
    <2>1. Window \in Nat /\ Window > 0
      BY ConstantsAssumption
    <2>2. /\ a \in Nat /\ b \in Nat
          /\ Window * a <= t
          /\ t + 1 < Window * (b + 1)
      BY <2>1
    <2> HIDE DEF a, b
    <2>3. a <= b
      <3> SUFFICES ASSUME b + 1 <= a PROVE FALSE
        BY <2>2
      <3>1. Window * (b + 1) <= Window * a
        BY <2>1, <2>2, TimesMonotone
      <3> QED
        BY <2>1, <2>2, <3>1
    <2>4. Window * a \in Nat /\ Window * b \in Nat /\ Window * a <= Window * b
      BY <2>1, <2>2, <2>3, TimesMonotone
    <2>5. a * Window = Window * a /\ b * Window = Window * b
      BY <2>1, <2>2
    <2> QED
      BY <1>2, <2>4, <2>5 DEF WindowStart, a, b
  <1> QED
    BY <1>1, <1>2

-----------------------------------------------------------------------------
(* The inductive invariant                                                 *)

(* The requests that have passed the check of the budget and may settle.   *)
Paying == {"admitted", "inserting", "claimed", "handling", "onSend",
           "retrying", "awaiting", "rerun"}

Spending == {r \in Reqs : pc[r] \in Paying}
InFlight == {r \in Reqs : Active(r)}
Counted  == CountedKeys(ledger, WindowStart(now))

(* Each of them is good for one more key: what is counted and what may     *)
(* still be settled stay within the bound together.                        *)
BudgetInv ==
  /\ IsFiniteSet(InFlight) /\ Cardinality(InFlight) <= MaxInFlight
  /\ IsFiniteSet(Counted)
  /\ Price * (Cardinality(Counted) + Cardinality(Spending))
       <= MaxDaily + Price * (MaxInFlight - 1)

LEMMA SpendingInFlight == Spending \subseteq InFlight
  BY DEF Spending, InFlight, Active, Paying

LEMMA BudgetFacts ==
  ASSUME BudgetInv
  PROVE  /\ IsFiniteSet(Spending)
         /\ Cardinality(Spending) \in Nat
         /\ Cardinality(Counted) \in Nat
         /\ Cardinality(InFlight) \in Nat
         /\ Cardinality(Spending) <= Cardinality(InFlight)
  BY SpendingInFlight, FS_Subset, FS_CardinalityType DEF BudgetInv

(* The invariant bounds the spend.                                         *)
LEMMA BudgetBounds == BudgetInv => OvershootBounded
  <1> SUFFICES ASSUME BudgetInv PROVE OvershootBounded
    OBVIOUS
  <1>1. Price \in Nat /\ MaxDaily + Price * (MaxInFlight - 1) \in Int
    BY ConstantsAssumption
  <1>2. /\ Cardinality(Counted) \in Nat
        /\ Cardinality(Counted) + Cardinality(Spending) \in Nat
        /\ Cardinality(Counted) <= Cardinality(Counted) + Cardinality(Spending)
    BY BudgetFacts
  <1>3. Price * Cardinality(Counted) <= MaxDaily + Price * (MaxInFlight - 1)
    BY <1>1, <1>2, BoundKept DEF BudgetInv
  <1> QED
    BY <1>3 DEF OvershootBounded, CountedSpend, Counted

(* No more is counted and may be settled together than before.             *)
LEMMA BudgetKept ==
  ASSUME BudgetInv,
         IsFiniteSet(InFlight)', Cardinality(InFlight)' <= MaxInFlight,
         IsFiniteSet(Counted)',
         Cardinality(Counted)' + Cardinality(Spending)' \in Nat,
         Cardinality(Counted)' + Cardinality(Spending)'
           <= Cardinality(Counted) + Cardinality(Spending)
  PROVE  BudgetInv'
  <1>1. Price \in Nat /\ MaxDaily + Price * (MaxInFlight - 1) \in Int
    BY ConstantsAssumption
  <1>2. Cardinality(Counted) + Cardinality(Spending) \in Nat
    BY BudgetFacts
  <1>3. Price * (Cardinality(Counted)' + Cardinality(Spending)')
          <= MaxDaily + Price * (MaxInFlight - 1)
    BY <1>1, <1>2, BoundKept DEF BudgetInv
  <1> QED
    BY <1>3 DEF BudgetInv

(* Nothing new is counted, and nobody new may settle.                      *)
LEMMA BudgetQuiet ==
  ASSUME BudgetInv, Counted' \subseteq Counted, Spending' \subseteq Spending,
         IsFiniteSet(InFlight)', Cardinality(InFlight)' <= MaxInFlight
  PROVE  BudgetInv'
  <1>1. /\ Cardinality(Counted)' \in Nat /\ IsFiniteSet(Counted)'
        /\ Cardinality(Counted)' <= Cardinality(Counted)
    BY FS_Subset, FS_CardinalityType DEF BudgetInv
  <1>2. /\ Cardinality(Spending)' \in Nat
        /\ Cardinality(Spending)' <= Cardinality(Spending)
    BY BudgetFacts, FS_Subset, FS_CardinalityType
  <1> QED
    BY <1>1, <1>2, BudgetFacts, BudgetKept

(* The requests in flight are no more than before.                         *)
LEMMA FewerInFlight ==
  ASSUME BudgetInv, InFlight' \subseteq InFlight
  PROVE  IsFiniteSet(InFlight)' /\ Cardinality(InFlight)' <= MaxInFlight
  <1>1. /\ Cardinality(InFlight) \in Nat /\ MaxInFlight \in Nat
        /\ Cardinality(InFlight) <= MaxInFlight
    BY BudgetFacts, ConstantsAssumption DEF BudgetInv
  <1>2. /\ IsFiniteSet(InFlight)' /\ Cardinality(InFlight)' \in Nat
        /\ Cardinality(InFlight)' <= Cardinality(InFlight)
    BY FS_Subset, FS_CardinalityType DEF BudgetInv
  <1> QED
    BY <1>1, <1>2

(* A request that settles has one key counted, and settles no more.        *)
LEMMA BudgetSettles ==
  ASSUME BudgetInv, NEW r \in Spending, NEW k,
         Counted' \subseteq Counted \cup {k},
         Spending' \subseteq Spending \ {r},
         InFlight' \subseteq InFlight
  PROVE  BudgetInv'
  <1>1. /\ IsFiniteSet(Counted \cup {k})
        /\ Cardinality(Counted \cup {k}) \in Nat
        /\ Cardinality(Counted \cup {k}) <= Cardinality(Counted) + 1
    <2>1. IsFiniteSet(Counted) /\ Cardinality(Counted) \in Nat
      BY BudgetFacts DEF BudgetInv
    <2> HIDE DEF Counted
    <2>2. /\ IsFiniteSet(Counted \cup {k})
          /\ Cardinality(Counted \cup {k}) =
               IF k \in Counted THEN Cardinality(Counted) ELSE Cardinality(Counted) + 1
      BY <2>1, FS_AddElement
    <2> QED
      BY <2>1, <2>2
  <1>2. /\ IsFiniteSet(Spending \ {r})
        /\ Cardinality(Spending \ {r}) = Cardinality(Spending) - 1
        /\ Cardinality(Spending \ {r}) \in Nat
    BY BudgetFacts, FS_RemoveElement, FS_CardinalityType
  <1>3. /\ Cardinality(Counted)' \in Nat /\ IsFiniteSet(Counted)'
        /\ Cardinality(Counted)' <= Cardinality(Counted \cup {k})
    BY <1>1, FS_Subset, FS_CardinalityType
  <1>4. /\ Cardinality(Spending)' \in Nat
        /\ Cardinality(Spending)' <= Cardinality(Spending \ {r})
    BY <1>2, FS_Subset, FS_CardinalityType
  <1> QED
    BY <1>1, <1>2, <1>3, <1>4, BudgetFacts, FewerInFlight, BudgetKept

(* A request that passes the check: the settled spend leaves room for one  *)
(* price, and the others that may settle are in flight with it.            *)
LEMMA BudgetAdmits ==
  ASSUME BudgetInv, NEW r \in InFlight, CountedSpend + Price <= MaxDaily,
         Counted' = Counted, InFlight' = InFlight,
         Spending' \subseteq InFlight
  PROVE  BudgetInv'
  <1> DEFINE c == Cardinality(Counted)
             i == Cardinality(InFlight)
  <1>1. /\ c \in Nat /\ i \in Nat /\ i <= MaxInFlight
        /\ Price \in Nat /\ MaxDaily \in Nat /\ MaxInFlight \in Nat \ {0}
        /\ Price * c + Price <= MaxDaily
    BY BudgetFacts, ConstantsAssumption DEF BudgetInv, CountedSpend, Counted
  <1>2. Cardinality(Spending)' \in Nat /\ Cardinality(Spending)' <= i
    BY FS_Subset, FS_CardinalityType DEF BudgetInv
  <1>3. Price * (c + MaxInFlight) <= MaxDaily + Price * (MaxInFlight - 1)
    <2> HIDE DEF c, i
    <2>1. Price * c \in Nat /\ Price * MaxInFlight \in Nat
      BY <1>1
    <2>2. Price * (c + MaxInFlight) = Price * c + Price * MaxInFlight
      BY <1>1
    <2>3. Price * (MaxInFlight - 1) = Price * MaxInFlight - Price
      BY <1>1
    <2> QED
      BY <1>1, <2>1, <2>2, <2>3
  <1>4. /\ Cardinality(Counted)' = c
        /\ Price \in Nat /\ MaxDaily + Price * (MaxInFlight - 1) \in Int
        /\ c + MaxInFlight \in Nat
    BY <1>1
  <1>5. /\ c + Cardinality(Spending)' \in Nat
        /\ c + Cardinality(Spending)' <= c + MaxInFlight
    BY <1>1, <1>2
  <1>6. Price * (c + Cardinality(Spending)') <= MaxDaily + Price * (MaxInFlight - 1)
    BY <1>3, <1>4, <1>5, BoundKept
  <1> QED
    BY <1>4, <1>6 DEF BudgetInv

-----------------------------------------------------------------------------
(* Steps                                                                   *)

LEMMA BudgetInit ==
  ASSUME Init
  PROVE  BudgetInv
  <1>1. InFlight = {} /\ Spending = {}
    BY DEF Init, InFlight, Active, Spending, Paying
  <1>2. Counted = {}
    BY DEF Init, Counted, CountedKeys, NoRow
  <1>3. /\ Price \in Nat /\ MaxDaily \in Nat /\ MaxInFlight \in Nat
        /\ Price * (MaxInFlight - 1) \in Nat
    BY ConstantsAssumption
  <1> QED
    BY <1>1, <1>2, <1>3, FS_EmptySet DEF BudgetInv

(* What is counted after a change of one row.                              *)
LEMMA CountedRow ==
  ASSUME Typed, NEW k \in Keys, NEW row,
         ledger' = [ledger EXCEPT ![k] = row], UNCHANGED now
  PROVE  /\ Counted' \subseteq Counted \cup {k}
         /\ row.status # "settled" \/ row = ledger[k] => Counted' \subseteq Counted
  BY DEF Typed, Counted, CountedKeys

(* One request moves on, and takes part in a payment as before, or in none.*)
LEMMA BudgetMoves ==
  ASSUME Typed, BudgetInv, NEW r \in Reqs, NEW label,
         pc' = [pc EXCEPT ![r] = label],
         Active(r), pc[r] \in Paying \/ label \notin Paying,
         Counted' \subseteq Counted
  PROVE  BudgetInv'
  <1>1. Spending' \subseteq Spending /\ InFlight' \subseteq InFlight
    BY DEF Spending, InFlight, Active, Typed
  <1> QED
    BY <1>1, FewerInFlight, BudgetQuiet

LEMMA BudgetStays ==
  ASSUME BudgetInv, UNCHANGED pc, Counted' \subseteq Counted
  PROVE  BudgetInv'
  <1>1. Spending' = Spending /\ InFlight' = InFlight
    BY DEF Spending, InFlight, Active
  <1> QED
    BY <1>1, FewerInFlight, BudgetQuiet

LEMMA BudgetArrive ==
  ASSUME Typed, BudgetInv, NEW r \in Reqs, NEW k \in Keys, NEW o \in Offers[k],
         Arrive(r, k, o)
  PROVE  BudgetInv'
  <1>1. /\ pc[r] = "idle" /\ pc' = [pc EXCEPT ![r] = "hook"]
        /\ Cardinality(InFlight) < MaxInFlight
        /\ UNCHANGED <<ledger, now>>
    BY DEF Arrive, Goto, InFlight, envVars
  <1>2. Spending' \subseteq Spending /\ InFlight' = InFlight \cup {r}
    BY <1>1 DEF Spending, Paying, InFlight, Active, Typed
  <1>3. r \notin InFlight
    BY <1>1 DEF InFlight, Active
  <1>4. Counted' = Counted
    BY <1>1 DEF Counted, CountedKeys
  <1>5. /\ IsFiniteSet(InFlight \cup {r})
        /\ Cardinality(InFlight \cup {r}) = Cardinality(InFlight) + 1
    BY <1>3, FS_AddElement DEF BudgetInv
  <1>6. IsFiniteSet(InFlight)' /\ Cardinality(InFlight)' <= MaxInFlight
    BY <1>1, <1>2, <1>5, BudgetFacts, ConstantsAssumption
  <1> QED
    BY <1>2, <1>4, <1>6, BudgetQuiet

LEMMA BudgetMove ==
  ASSUME Typed, BudgetInv, NEW r \in Reqs, Moves(r)
  PROVE  BudgetInv'
  <1>1. UNCHANGED <<ledger, now>>
    BY DEF Moves, Refuse, CheckBudget, VerifyAccepts, SendPrior, PostSettle,
           SettleRetries, Notify, HandlerReplies, envVars
  <1>2. Counted' = Counted
    BY <1>1 DEF Counted, CountedKeys
  <1>3. CASE CheckBudget(r) /\ CountedSpend + Price <= MaxDaily
    <2>1. /\ pc[r] = "hook" /\ pc' = [pc EXCEPT ![r] = "admitted"]
          /\ Cardinality(Counted) \in Nat /\ Price \in Nat /\ MaxDaily \in Nat
      BY <1>3, BudgetFacts, ConstantsAssumption
         DEF CheckBudget, Goto, Finish, CountedSpend, Counted
    <2>2. InFlight' = InFlight /\ Spending' \subseteq InFlight /\ r \in InFlight
      BY <2>1 DEF Spending, Paying, InFlight, Active, Typed
    <2> QED
      BY <1>2, <1>3, <2>2, BudgetAdmits
  <1>4. CASE CheckBudget(r) /\ ~ (CountedSpend + Price <= MaxDaily)
    <2>1. pc[r] = "hook" /\ pc' = [pc EXCEPT ![r] = "done"]
      <3>1. CountedSpend \in Nat /\ Price \in Nat /\ MaxDaily \in Nat
        BY BudgetFacts, ConstantsAssumption DEF CountedSpend, Counted
      <3>2. CountedSpend + Price > MaxDaily
        BY <1>4, <3>1
      <3> QED
        BY <1>4, <3>2 DEF CheckBudget, Goto, Finish
    <2> QED
      BY <1>2, <2>1, BudgetMoves DEF Active, Paying
  <1>5. CASE ~ CheckBudget(r)
    <2>1. PICK label \in {"done", "handling", "onSend", "awaiting", "retrying"} :
            /\ pc' = [pc EXCEPT ![r] = label]
            /\ pc[r] \notin {"idle", "done"}
            /\ label # "done" =>
                 pc[r] \in {"claimed", "handling", "onSend", "retrying", "awaiting"}
      BY <1>5 DEF Moves, Refuse, VerifyAccepts, SendPrior, PostSettle,
           ReadyToSettle, SettleRetries, AttemptFails, Notify, HandlerReplies,
           Goto, Finish
    <2>2. Active(r) /\ (pc[r] \in Paying \/ label = "done")
      BY <2>1 DEF Active, Paying
    <2>3. "done" \notin Paying
      BY DEF Paying
    <2> QED
      BY <1>2, <2>1, <2>2, <2>3, BudgetMoves
  <1> QED
    BY <1>3, <1>4, <1>5

LEMMA BudgetCut ==
  ASSUME Typed, BudgetInv, NEW P \in SUBSET InFlight, Cut(P)
  PROVE  BudgetInv'
  <1>1. /\ Spending' \subseteq Spending /\ InFlight' \subseteq InFlight
        /\ UNCHANGED <<ledger, now>>
    BY DEF Cut, Spending, Paying, InFlight, Active
  <1>2. Counted' = Counted
    BY <1>1 DEF Counted, CountedKeys
  <1> QED
    BY <1>1, <1>2, FewerInFlight, BudgetQuiet

LEMMA BudgetTick ==
  ASSUME Typed, BudgetInv, Tick
  PROVE  BudgetInv'
  <1>1. /\ UNCHANGED <<pc, ledger>> /\ now' = now + 1
        /\ now \in Nat /\ ledger \in [Keys -> RowOf(Tokens)]
    BY DEF Tick, reqVars, Typed
  <1>2. /\ WindowStart(now) \in Nat /\ WindowStart(now + 1) \in Nat
        /\ WindowStart(now) <= WindowStart(now + 1)
    BY <1>1, WindowMoves
  <1>3. WindowStart(now)' = WindowStart(now + 1)
    BY <1>1 DEF WindowStart
  <1>4. Counted' \subseteq Counted
    <2> SUFFICES ASSUME NEW k \in Counted' PROVE k \in Counted
      OBVIOUS
    <2>1. /\ k \in Keys /\ ledger[k].status = "settled"
          /\ ledger[k].created >= WindowStart(now + 1)
      BY <1>1, <1>3 DEF Counted, CountedKeys
    <2>2. ledger[k].created \in Nat
      BY <1>1, <2>1 DEF RowOf
    <2> QED
      BY <1>1, <1>2, <2>1, <2>2 DEF Counted, CountedKeys
  <1> QED
    BY <1>1, <1>4, BudgetStays

(* A claim adds nothing to what is counted.                                *)
LEMMA BudgetClaim ==
  ASSUME Typed, BudgetInv, NEW r \in Reqs, NEW label,
         ledger' = [ledger EXCEPT ![key[r]] = BeginPending(@, now)], UNCHANGED now,
         pc' = [pc EXCEPT ![r] = label], pc[r] \in {"admitted", "inserting"}
  PROVE  BudgetInv'
  <1>1. key[r] \in Keys /\ ledger[key[r]] \in RowOf(Tokens) /\ now \in Nat
    BY DEF Typed
  <1>2. \/ BeginPending(ledger[key[r]], now).status # "settled"
        \/ BeginPending(ledger[key[r]], now) = ledger[key[r]]
    BY <1>1, BeginPendingRow
  <1>3. Counted' \subseteq Counted
    BY <1>1, <1>2, CountedRow
  <1>4. Active(r) /\ pc[r] \in Paying
    BY DEF Active, Paying
  <1> QED
    BY <1>3, <1>4, BudgetMoves

(* Neither does a failure; a settlement adds one key, that of a request    *)
(* that may settle no more.                                                *)
LEMMA BudgetRecord ==
  ASSUME Typed, BudgetInv, NEW r \in Reqs, NEW row, NEW label,
         ledger' = [ledger EXCEPT ![key[r]] = row], UNCHANGED now,
         pc' = [pc EXCEPT ![r] = label],
         pc[r] \in Paying,
         label \notin Paying \/ row.status # "settled" \/ row = ledger[key[r]],
         label # "idle"
  PROVE  BudgetInv'
  <1>1. key[r] \in Keys /\ Active(r)
    BY DEF Typed, Active, Paying
  <1>2. CASE row.status # "settled" \/ row = ledger[key[r]]
    BY <1>1, <1>2, CountedRow, BudgetMoves
  <1>3. CASE label \notin Paying
    <2>1. Counted' \subseteq Counted \cup {key[r]}
      BY <1>1, CountedRow
    <2>2. /\ r \in Spending /\ Spending' \subseteq Spending \ {r}
          /\ InFlight' \subseteq InFlight
      BY <1>1, <1>3 DEF Spending, InFlight, Active, Typed
    <2> QED
      BY <2>1, <2>2, BudgetSettles
  <1> QED
    BY <1>2, <1>3

LEMMA BudgetStep ==
  ASSUME TypeOK, BudgetInv, Step
  PROVE  BudgetInv'
  <1>0. Typed
    BY TypeIsTyped
  <1>1. ASSUME NEW r \in Reqs, NEW k \in Keys, NEW o \in Offers[k], Arrive(r, k, o)
        PROVE  BudgetInv'
    BY <1>0, <1>1, BudgetArrive
  <1>2. ASSUME NEW r \in Reqs, Moves(r)  PROVE BudgetInv'
    BY <1>0, <1>2, BudgetMove
  <1>3. ASSUME NEW r \in Reqs, Claim(r)  PROVE BudgetInv'
    <2>1. PICK label \in {"claimed", "handling", "done"} : pc' = [pc EXCEPT ![r] = label]
      BY <1>3 DEF Claim, Goto, Finish
    <2>2. /\ ledger' = [ledger EXCEPT ![key[r]] = BeginPending(@, now)]
          /\ pc[r] = "admitted" /\ UNCHANGED now
      BY <1>3 DEF Claim, envVars
    <2> QED
      BY <1>0, <2>1, <2>2, BudgetClaim
  <1>4. ASSUME NEW r \in Reqs,
               VerifyFails(r) \/ ReleaseOnError(r) \/ SettleRefused(r)
                 \/ SettleThrows(r) \/ SettleSucceeds(r) \/ Rerun(r)
        PROVE  BudgetInv'
    <2>1. PICK status \in Status, tx \in Tokens \cup {NoTx} :
            ledger' = [ledger EXCEPT ![key[r]] =
                         RecordSettlement(ledger[key[r]], status, tx, now)]
      BY <1>4, <1>0, CallType DEF Record, Status, VerifyFails, ReleaseOnError,
                      SettleRefused, SettleThrows, SettleSucceeds, Rerun
    <2>2. PICK label \in {"done", "notifying"} : pc' = [pc EXCEPT ![r] = label]
      BY <1>4 DEF Goto, Finish, VerifyFails, ReleaseOnError, SettleRefused,
                  SettleThrows, SettleSucceeds, Rerun
    <2>3. pc[r] \in Paying /\ UNCHANGED now
      BY <1>4 DEF Paying, AttemptFails, VerifyFails, ReleaseOnError, SettleRefused,
                  SettleThrows, SettleSucceeds, Rerun, envVars
    <2>4. label \notin Paying /\ label # "idle"
      BY <2>2 DEF Paying
    <2> QED
      BY <1>0, <2>1, <2>2, <2>3, <2>4, BudgetRecord
  <1>5. CASE Loss
    BY <1>0, <1>5, BudgetCut DEF Loss, InFlight
  <1>6. CASE Tick
    BY <1>0, <1>6, BudgetTick
  <1>7. ASSUME \/ UNCHANGED vars
               \/ \E c \in posted : SettlerExecutes(c)
               \/ \E r \in Reqs : BillingHears(r)
        PROVE  BudgetInv'
    <2>1. UNCHANGED <<pc, ledger, now>>
      BY <1>7 DEF vars, SettlerExecutes, BillingHears, reqVars, envVars
    <2>2. Counted' = Counted
      BY <2>1 DEF Counted, CountedKeys
    <2> QED
      BY <2>1, <2>2, BudgetStays
  <1>8. ASSUME NEW r \in Reqs, SettleRethrows(r)  PROVE BudgetInv'
    <2> DEFINE row == RecordSettlement(ledger[key[r]], "failed", NoTx, now)
    <2>1. ledger' = [ledger EXCEPT ![key[r]] = row]
      BY <1>8 DEF SettleRethrows, Record
    <2>2. row.status # "settled" \/ row = ledger[key[r]]
      BY DEF RecordSettlement
    <2> HIDE DEF row
    <2>3. /\ pc' = [pc EXCEPT ![r] = "rerun"] /\ UNCHANGED now
          /\ pc[r] \in Paying
      BY <1>8 DEF SettleRethrows, Goto, AttemptFails, Paying, envVars
    <2> QED
      BY <1>0, <2>1, <2>2, <2>3, BudgetRecord
  <1> QED
    BY <1>1, <1>2, <1>3, <1>4, <1>5, <1>6, <1>7, <1>8, StepCases
    DEF Serve, Moves

(* checkBudget reserves nothing, so that the settled spend of a window may *)
(* exceed the maximum, but never by more than one price for every other    *)
(* request in flight: over SQLite.                                         *)
THEOREM OvershootIsBounded == Spec => []OvershootBounded
  <1>1. Init => BudgetInv
    BY BudgetInit
  <1>2. TypeOK /\ BudgetInv /\ Step => BudgetInv'
    BY BudgetStep
  <1> QED
    BY <1>1, <1>2, TypeCorrect, NextIsStep, BudgetBounds, PTL DEF Spec

(* The same bound holds with tool calls that spend from the same budget.   *)
THEOREM SystemOvershootIsBounded == SystemSpec => []OvershootBounded
  <1>1. Init => BudgetInv
    BY BudgetInit
  <1>2. TypeOK /\ BudgetInv /\ Step => BudgetInv'
    BY BudgetStep
  <1> QED
    BY <1>1, <1>2, SystemInvariant, SystemNextIsStep, BudgetBounds, PTL DEF SystemSpec

LEMMA PgBudgetStep ==
  ASSUME PgTyped, RecordInv, BudgetInv, [PgNext]_pgVars
  PROVE  BudgetInv'
  <1>0. Typed
    BY DEF PgTyped
  <1>1. ASSUME UNCHANGED <<ledger, now>>  PROVE Counted' = Counted
    BY <1>1 DEF Counted, CountedKeys
  <1>2. ASSUME NEW r \in Reqs, NEW k \in Keys, NEW o \in Offers[k], Arrive(r, k, o)
        PROVE  BudgetInv'
    BY <1>0, <1>2, BudgetArrive
  <1>3. ASSUME NEW r \in Reqs, Moves(r)  PROVE BudgetInv'
    BY <1>0, <1>3, BudgetMove
  <1>4. ASSUME NEW r \in Reqs, ClaimExisting(r)  PROVE BudgetInv'
    <2>1. PICK label \in {"claimed", "handling", "done"} : pc' = [pc EXCEPT ![r] = label]
      BY <1>4 DEF ClaimExisting, Claim, Goto, Finish
    <2>2. /\ ledger' = [ledger EXCEPT ![key[r]] = BeginPending(@, now)]
          /\ pc[r] = "admitted" /\ UNCHANGED now
      BY <1>4 DEF ClaimExisting, Claim, envVars
    <2> QED
      BY <1>0, <2>1, <2>2, BudgetClaim
  <1>5. ASSUME NEW r \in Reqs, SelectNoRow(r)  PROVE BudgetInv'
    <2>1. /\ pc[r] = "admitted" /\ pc' = [pc EXCEPT ![r] = "inserting"]
          /\ UNCHANGED <<ledger, now>>
      BY <1>5 DEF SelectNoRow, Goto, envVars
    <2>2. Active(r) /\ pc[r] \in Paying
      BY <2>1 DEF Active, Paying
    <2> QED
      BY <1>0, <1>1, <2>1, <2>2, BudgetMoves
  <1>6. ASSUME NEW r \in Reqs, Insert(r)  PROVE BudgetInv'
    <2>1. PICK label \in {"claimed", "handling", "done"} : pc' = [pc EXCEPT ![r] = label]
      BY <1>6 DEF Insert, Goto, Finish
    <2>2. /\ pc[r] = "inserting" /\ UNCHANGED now
          /\ \/ ledger' = [ledger EXCEPT ![key[r]] = BeginPending(@, now)]
             \/ UNCHANGED ledger
      BY <1>6 DEF Insert, envVars
    <2>3. Active(r) /\ pc[r] \in Paying
      BY <2>2 DEF Active, Paying
    <2>4. CASE UNCHANGED ledger
      BY <1>0, <1>1, <2>1, <2>2, <2>3, <2>4, BudgetMoves
    <2> QED
      BY <1>0, <2>1, <2>2, <2>4, BudgetClaim
  <1>7. ASSUME NEW r \in Reqs, NEW w \in Writes, WriteFor(r, w), GoOn(r, w)
        PROVE  /\ pc[r] \in Paying /\ Active(r)
               /\ \E label \in {"notifying", "rerun", "done"} :
                    /\ pc' = [pc EXCEPT ![r] = label]
                    /\ label \notin Paying \/ w.status # "settled"
    <2>1. pc[r] \in Paying /\ Active(r)
      BY <1>7 DEF WriteFor, Paying, Active
    <2>2. w.status # "settled" \/ w.reply = "none"
      BY <1>7 DEF WriteFor
    <2> QED
      BY <1>7, <2>1, <2>2 DEF GoOn, Goto, Finish, Paying
  <1>8. ASSUME NEW r \in Reqs, Outcomes(r)  PROVE BudgetInv'
    <2>1. PICK w \in Writes : Select(r, w) /\ WriteFor(r, w)
      BY <1>8, OutcomesSelect
    <2>2. UNCHANGED <<ledger, now>>
      BY <2>1 DEF Select, envVars
    <2>3. CASE ledger[key[r]].status = "settled"
      <3>1. GoOn(r, w)
        BY <2>1, <2>3 DEF Select
      <3>2. /\ pc[r] \in Paying /\ Active(r)
            /\ \E label : pc' = [pc EXCEPT ![r] = label]
        BY <1>7, <2>1, <3>1
      <3> QED
        BY <1>0, <1>1, <2>2, <3>2, BudgetMoves
    <2>4. CASE ledger[key[r]].status # "settled"
      <3>1. UNCHANGED pc
        BY <2>1, <2>4 DEF Select
      <3> QED
        BY <1>1, <2>2, <3>1, BudgetStays
    <2> QED
      BY <2>3, <2>4
  <1>9. ASSUME NEW r \in Reqs, Update(r)  PROVE BudgetInv'
    <2> DEFINE w == writing[r]
               row == [status |-> w.status, tx |-> w.tx,
                       created |-> ledger[key[r]].created, updated |-> now]
    <2>1. w \in Writes /\ ledger' = [ledger EXCEPT ![key[r]] = row]
      BY <1>9, UpdateRow
    <2>2. WriteFor(r, w) /\ GoOn(r, w) /\ UNCHANGED now
      BY <1>9 DEF Update, RecordInv, envVars
    <2>3. row.status = w.status
      OBVIOUS
    <2> HIDE DEF w, row
    <2>4. pc[r] \in Paying
      BY <1>7, <2>1, <2>2
    <2>5. PICK label \in {"notifying", "rerun", "done"} :
            /\ pc' = [pc EXCEPT ![r] = label]
            /\ label \notin Paying \/ row.status # "settled"
      BY <1>7, <2>1, <2>2, <2>3
    <2> QED
      BY <1>0, <2>1, <2>2, <2>4, <2>5, BudgetRecord
  <1>10. ASSUME NEW R \in SUBSET Reqs, Crash(R)  PROVE BudgetInv'
    BY <1>0, <1>10, BudgetCut DEF Crash, InFlight
  <1>11. ASSUME Tick  PROVE BudgetInv'
    BY <1>0, <1>11, BudgetTick
  <1>12. ASSUME \/ UNCHANGED pgVars
                \/ \E c \in posted : SettlerExecutes(c)
                \/ \E r \in Reqs : BillingHears(r)
         PROVE  BudgetInv'
    <2>1. UNCHANGED <<pc, ledger, now>>
      BY <1>12 DEF pgVars, vars, SettlerExecutes, BillingHears, reqVars, envVars
    <2> QED
      BY <1>1, <2>1, BudgetStays
  <1>13. ASSUME NEW r \in Reqs, Crash(Process(r))  PROVE BudgetInv'
    BY <1>10, <1>13 DEF Process
  <1> QED
    BY <1>2, <1>3, <1>4, <1>5, <1>6, <1>8, <1>9, <1>11, <1>12, <1>13
    DEF PgNext, PgServe, Moves, Outcomes

(* The same bound holds over Postgres, also when a hook that runs twice    *)
(* has unmade a settlement.                                                *)
THEOREM PgOvershootIsBounded == PgSpec => []OvershootBounded
  <1>1. PgInit => BudgetInv
    BY BudgetInit DEF PgInit
  <1>2. PgTyped /\ RecordInv /\ BudgetInv /\ [PgNext]_pgVars => BudgetInv'
    BY PgBudgetStep
  <1> QED
    BY <1>1, <1>2, PgRecords, BudgetBounds, PTL DEF PgSpec
=============================================================================
