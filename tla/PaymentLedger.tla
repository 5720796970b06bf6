--------------------------- MODULE PaymentLedger ---------------------------
(***************************************************************************)
(* The settlement ledger of packages/paymcp/src/ledger: one row per        *)
(* idempotency key, changed only by beginPending (claim a key before any   *)
(* payment step) and recordSettlement (the outcome of a claimed payment).  *)
(*                                                                         *)
(* SqliteLedger runs each of the two inside one database transaction, so   *)
(* each is one operator from the old row of the key to the new one.        *)
(*                                                                         *)
(* A row keeps what the properties tell apart: its status, the transaction *)
(* it was settled with, and the times of created_at and updated_at.  The   *)
(* operation, network, payer, tenant and error reason are not kept: the    *)
(* models take one paid operation at one price, without tenants.           *)
(***************************************************************************)
EXTENDS Naturals, FiniteSets

CONSTANT NoTx          \* transaction_hash = '': nothing settled

(* LedgerStatus of ledger/types.ts, and "absent" for a key without a row.  *)
Status == {"absent", "pending", "settled", "failed", "replayed"}

RowOf(Tx) ==
  [status : Status, tx : Tx \cup {NoTx}, created : Nat, updated : Nat]

NoRow == [status |-> "absent", tx |-> NoTx, created |-> 0, updated |-> 0]

(* Mutants of ClaimKind: without the in-flight check, and without the      *)
(* settled one.                                                            *)
ClaimKindBlind(row) ==
  IF row.status = "settled" THEN "already_settled" ELSE "claimed"

ClaimKindForgets(row) ==
  IF row.status = "pending" THEN "in_flight" ELSE "claimed"

(* What beginPending answers.  A "failed" row is claimed again, so that    *)
(* its key can be retried; so would a "replayed" one be, a status that no  *)
(* code writes.                                                            *)
ClaimKind(row) ==
  CASE row.status = "settled" -> "already_settled"
    [] row.status = "pending" -> "in_flight"
    [] OTHER                  -> "claimed"

(* The row beginPending leaves.  Claiming a failed row again keeps its     *)
(* created_at: only updated_at is set to the time of the new claim.        *)
BeginPending(row, now) ==
  IF ClaimKind(row) = "claimed"
  THEN [status  |-> "pending",
        tx      |-> NoTx,
        created |-> IF row.status = "absent" THEN now ELSE row.created,
        updated |-> now]
  ELSE row

(* Mutants of RecordSettlement: arguments swapped, transaction dropped.    *)
RecordSwapped(row, status, tx, now) ==
  IF row.status = "settled"
  THEN row
  ELSE [row EXCEPT !.status = tx, !.tx = status, !.updated = now]

RecordWithoutTx(row, status, tx, now) ==
  IF row.status = "settled"
  THEN row
  ELSE [row EXCEPT !.status = status, !.updated = now]

(* The row recordSettlement leaves: a settled row is never overwritten     *)
(* (the caller is told `replayed'), any other is upgraded in place, and a  *)
(* key without a row gets one.                                             *)
RecordSettlement(row, status, tx, now) ==
  IF row.status = "settled"
  THEN row
  ELSE [status  |-> status,
        tx      |-> tx,
        created |-> IF row.status = "absent" THEN now ELSE row.created,
        updated |-> now]

(* The keys sumSettledAtomic adds up: settled, and created in the window.  *)
CountedKeys(ledger, since) ==
  {k \in DOMAIN ledger : /\ ledger[k].status = "settled"
                         /\ ledger[k].created >= since}
=============================================================================
