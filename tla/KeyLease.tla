------------------------------ MODULE KeyLease ------------------------------
(***************************************************************************)
(* What the ledger promises about an idempotency key, whatever the route   *)
(* that pays with it does: the key is a lease.  A request holds it alone   *)
(* from its claim to its outcome, a failed outcome gives it back, and a    *)
(* settlement ends it for good with one transaction.  A request that is    *)
(* cut off loses its lease: nobody holds it and nobody gets it.  A lease   *)
(* that is broken promises nothing any more.                               *)
(***************************************************************************)
CONSTANTS Keys, Reqs, Txs, NoTx

VARIABLES
  phase,    \* "free", "held", "settled" or "broken"
  holders,  \* the requests that hold the key
  tx        \* the transaction the key is settled with

vars == <<phase, holders, tx>>

Init ==
  /\ phase = [k \in Keys |-> "free"]
  /\ holders = [k \in Keys |-> {}]
  /\ tx = [k \in Keys |-> NoTx]

Acquire(k, r) ==
  /\ phase[k] = "free"
  /\ phase' = [phase EXCEPT ![k] = "held"]
  /\ holders' = [holders EXCEPT ![k] = {r}]
  /\ UNCHANGED tx

Release(k, r) ==
  /\ phase[k] = "held"
  /\ holders[k] = {r}
  /\ phase' = [phase EXCEPT ![k] = "free"]
  /\ holders' = [holders EXCEPT ![k] = {}]
  /\ UNCHANGED tx

Settle(k, r, t) ==
  /\ phase[k] = "held"
  /\ holders[k] = {r}
  /\ phase' = [phase EXCEPT ![k] = "settled"]
  /\ holders' = [holders EXCEPT ![k] = {}]
  /\ tx' = [tx EXCEPT ![k] = t]

Lose(K) ==
  /\ holders' = [k \in Keys |-> IF k \in K THEN {} ELSE holders[k]]
  /\ UNCHANGED <<phase, tx>>

(* For good: nothing leads out of the phase "broken".                      *)
Break(k) ==
  /\ phase[k] # "broken"
  /\ phase' = [phase EXCEPT ![k] = "broken"]
  /\ holders' = [holders EXCEPT ![k] = {}]
  /\ tx' = [tx EXCEPT ![k] = NoTx]

Next ==
  \/ \E K \in SUBSET Keys : Lose(K)
  \/ \E k \in Keys :
       \/ \E r \in Reqs :
            Acquire(k, r) \/ Release(k, r) \/ \E t \in Txs : Settle(k, r, t)
       \/ Break(k)

Spec == Init /\ [][Next]_vars
=============================================================================
