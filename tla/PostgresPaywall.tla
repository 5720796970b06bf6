-------------------------- MODULE PostgresPaywall --------------------------
(***************************************************************************)
(* The HTTP paywall over the Postgres ledger of ledger/postgres.ts, where  *)
(* a query is a round trip to the database: other requests, of this        *)
(* process or of any other on the same database, come in between.          *)
(*                                                                         *)
(* beginPending runs in a transaction, with the row locked (FOR UPDATE) if *)
(* there is one, and otherwise with the UNIQUE index to decide the race of *)
(* two inserts.  recordSettlement takes no lock: it selects the row, gives *)
(* up when that is settled, and then updates it unconditionally.           *)
(***************************************************************************)
EXTENDS Paywall

CONSTANT Rethrows  \* may a settle throw what settleOnSuccess rethrows?

ASSUME PostgresAssumption == Rethrows \in BOOLEAN

VARIABLE writing   \* what the request is about to write, after its select

pgVars == <<vars, writing>>

(* reply "none" stands for the way on from a settlement to its webhook.    *)
Writes == [status : {"failed", "settled"}, tx : Tokens \cup {NoTx},
           reply : Replies]

Nothing == [status |-> "none", tx |-> NoTx, reply |-> "none"]

(* pc is "inserting" between the select that finds no row and the insert.  *)
PgTypeOK ==
  /\ pc \in [Reqs -> PCs \cup {"inserting"}]
  /\ ledger \in [Keys -> RowOf(Tokens)]
  /\ posted \subseteq Calls /\ charges \subseteq Calls
  /\ writing \in [Reqs -> Writes \cup {Nothing}]

Idle(r) == writing[r] = Nothing

PgInit == Init /\ writing = [r \in Reqs |-> Nothing]

-----------------------------------------------------------------------------
(* beginPending                                                            *)

(* There is a row: it is locked, and claimed or not, in one transaction.   *)
ClaimExisting(r) ==
  /\ ledger[key[r]].status # "absent"
  /\ Claim(r)
  /\ UNCHANGED writing

(* There is none: the insert comes next.                                   *)
SelectNoRow(r) ==
  /\ pc[r] = "admitted"
  /\ ledger[key[r]].status = "absent"
  /\ Goto(r, "inserting")
  /\ UNCHANGED <<key, offer, upstream, attempts, receipt, reply, ledger,
                 extVars, envVars, writing>>

(* Mutant: the insert overwrites (ON CONFLICT DO UPDATE).                  *)
InsertOrUpdate(r) ==
  /\ pc[r] = "inserting"
  /\ ledger' = [ledger EXCEPT ![key[r]] = BeginPending(NoRow, now)]
  /\ Goto(r, "claimed")
  /\ UNCHANGED <<key, offer, upstream, attempts, receipt, reply, extVars,
                 envVars, writing>>

(* The insert: the key is claimed, or another request's row violates the   *)
(* UNIQUE index, and the answer is `in flight' unless that is settled.     *)
Insert(r) ==
  /\ pc[r] = "inserting"
  /\ LET row == ledger[key[r]]
     IN  \/ /\ row.status = "absent"
            /\ ledger' = [ledger EXCEPT ![key[r]] = BeginPending(row, now)]
            /\ Goto(r, "claimed")
            /\ UNCHANGED <<receipt, reply>>
         \/ /\ row.status = "settled"
            /\ Goto(r, "handling")
            /\ receipt' = [receipt EXCEPT ![r] = row.tx]
            /\ UNCHANGED <<reply, ledger>>
         \/ /\ row.status \in {"pending", "failed"}
            /\ Finish(r, "409")
            /\ UNCHANGED <<receipt, ledger>>
  /\ UNCHANGED <<key, offer, upstream, attempts, extVars, envVars, writing>>

-----------------------------------------------------------------------------
(* recordSettlement                                                        *)

(* What the request does once the outcome is recorded: the webhook after a *)
(* settlement, the hook again after an exception of its own, or its reply. *)
GoOn(r, w) ==
  CASE w.reply = "none"  -> /\ Goto(r, "notifying")
                            /\ receipt' = [receipt EXCEPT ![r] = w.tx]
                            /\ UNCHANGED reply
    [] w.reply = "error" /\ pc[r] = "awaiting" ->
         Goto(r, "rerun") /\ UNCHANGED <<receipt, reply>>
    [] OTHER             -> Finish(r, w.reply) /\ UNCHANGED receipt

(* The select: a settled row is left alone (`replayed').                   *)
Select(r, w) ==
  /\ Idle(r)
  /\ IF ledger[key[r]].status = "settled"
     THEN GoOn(r, w) /\ UNCHANGED writing
     ELSE /\ writing' = [writing EXCEPT ![r] = w]
          /\ UNCHANGED <<pc, receipt, reply>>
  /\ UNCHANGED <<key, offer, upstream, attempts, ledger, charges, events, envVars>>

(* Mutant: the update's parameters are bound in the wrong order.           *)
UpdateSwapped(r) ==
  /\ ~ Idle(r)
  /\ ledger' = [ledger EXCEPT ![key[r]].status = writing[r].tx,
                              ![key[r]].tx = writing[r].status,
                              ![key[r]].updated = now]
  /\ GoOn(r, writing[r])
  /\ writing' = [writing EXCEPT ![r] = Nothing]
  /\ UNCHANGED <<key, offer, upstream, attempts, extVars, envVars>>

(* The update, whatever the row has become meanwhile.                      *)
Update(r) ==
  /\ ~ Idle(r)
  /\ ledger' = [ledger EXCEPT ![key[r]].status = writing[r].status,
                              ![key[r]].tx = writing[r].tx,
                              ![key[r]].updated = now]
  /\ GoOn(r, writing[r])
  /\ writing' = [writing EXCEPT ![r] = Nothing]
  /\ UNCHANGED <<key, offer, upstream, attempts, extVars, envVars>>

Failed(tx, rep) == [status |-> "failed", tx |-> tx, reply |-> rep]

-----------------------------------------------------------------------------
(* The outcomes of the two hooks, as in Paywall but for their record.      *)

PgVerifyFails(r) ==
  /\ pc[r] = "claimed"
  /\ \E rep \in {"402", "502", "error"} : Select(r, Failed(NoTx, rep))
  /\ UNCHANGED posted

(* The handler did not reply 2xx, or the hook runs again on its own 500.   *)
PgReleaseOnError(r) ==
  /\ \/ pc[r] = "onSend" /\ receipt[r] = NoTx /\ upstream[r] # "2xx"
     \/ pc[r] = "rerun"
  /\ Select(r, Failed(NoTx, "error"))
  /\ UNCHANGED posted

(* Mutant: the record comes without the settlement's transaction.          *)
PgSettleSucceedsWithoutTx(r) ==
  /\ pc[r] = "awaiting"
  /\ Spent(Call(r).token)
  /\ posted' = posted \ {Call(r)}
  /\ Select(r, [status |-> "settled", tx |-> NoTx, reply |-> "none"])

PgSettleSucceeds(r) ==
  /\ pc[r] = "awaiting"
  /\ Spent(Call(r).token)
  /\ posted' = posted \ {Call(r)}
  /\ Select(r, [status |-> "settled", tx |-> Call(r).token, reply |-> "none"])

PgSettleRefused(r) ==
  /\ pc[r] = "awaiting"
  /\ Call(r) \in posted
  /\ Withdrawn(Call(r))
  /\ \E tx \in {NoTx, Call(r).token} : Select(r, Failed(tx, "402"))

(* A transport or an HTTP error is answered with a 502; what else settle   *)
(* throws (an answer cut off in its body, or malformed) is thrown again.   *)
PgSettleThrows(r) ==
  /\ AttemptFails(r)
  /\ \E rep \in {"502"} \cup (IF Rethrows THEN {"error"} ELSE {}) :
       Select(r, Failed(NoTx, rep))

-----------------------------------------------------------------------------
PgServe(r) ==
  \/ /\ Idle(r)
     /\ UNCHANGED writing
     /\ \/ Refuse(r)
        \/ CheckBudget(r)
        \/ VerifyAccepts(r)
        \/ \E status \in {"2xx", "error"} : HandlerReplies(r, status)
        \/ SendPrior(r)
        \/ PostSettle(r)
        \/ SettleRetries(r)
        \/ Notify(r)
  \/ ClaimExisting(r)
  \/ SelectNoRow(r)
  \/ Insert(r)
  \/ PgVerifyFails(r)
  \/ PgReleaseOnError(r)
  \/ PgSettleSucceeds(r)
  \/ PgSettleRefused(r)
  \/ PgSettleThrows(r)
  \/ Update(r)

PgNext ==
  \/ \E r \in Reqs, k \in Keys : \E o \in Offers[k] : Arrive(r, k, o) /\ UNCHANGED writing
  \/ \E r \in Reqs : PgServe(r)
  \/ \E c \in posted : SettlerExecutes(c) /\ UNCHANGED writing
  \/ \E r \in Reqs : BillingHears(r) /\ UNCHANGED writing
  \/ \E r \in Reqs :
       /\ Crash(Process(r))
       /\ writing' = [q \in Reqs |-> IF q \in Process(r) THEN Nothing ELSE writing[q]]
  \/ Tick /\ UNCHANGED writing

PgSpec == PgInit /\ [][PgNext]_pgVars
=============================================================================
