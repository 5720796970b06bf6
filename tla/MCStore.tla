------------------------------ MODULE MCStore ------------------------------
(***************************************************************************)
(* Values for the constants of StoreInvoke.                                *)
(***************************************************************************)
EXTENDS StoreInvoke, TLC

CONSTANTS r1, r2, r3, f1, f2, k1, k2, b1, b2, l1, l2, a1, a2, d1, d2, d3

(* One listing, registered by the seed, and an id that is free.            *)
Shop == l1 :> [status |-> "active", price |-> 1, payTo |-> a1]
     @@ l2 :> [status |-> "absent", price |-> 1, payTo |-> a1]

(* A seller raises the price and moves the payouts, or pauses the listing.  *)
Changes == {[status |-> "active",   price |-> 2, payTo |-> a2],
            [status |-> "inactive", price |-> 1, payTo |-> a1]}

(* Either buyer can pay the higher price once or the lower one twice, and  *)
(* the first has a checkout that completes unpaid.                         *)
Checkouts == d1 :> [buyer |-> b1, amount |-> 2]
          @@ d2 :> [buyer |-> b2, amount |-> 2]
          @@ d3 :> [buyer |-> b1, amount |-> 1]

OneCheckout == d1 :> [buyer |-> b1, amount |-> 2]

Symmetry == Permutations(Reqs)
=============================================================================
