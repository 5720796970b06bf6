----------------------------- MODULE MCPaywall -----------------------------
(***************************************************************************)
(* Values for the constants of Paywall and PaidMcp.                        *)
(***************************************************************************)
EXTENDS PaidMcp, TLC

CONSTANTS r1, r2, r3, r4, k1, k2, k3, a1, a2, a3

X402(a) == [rail |-> "x402", auth |-> a]
Visa(a) == [rail |-> "visa", auth |-> a]

(* A buyer that signs again for every attempt: a key may come with either  *)
(* of two authorizations.                                                  *)
SignsAgain == [k \in Keys |-> {X402(a1), X402(a2)}]

(* A key that moves from one rail to the other when TAP headers are        *)
(* absent, and another whose authorization is that of the first.           *)
BothRails == [k \in Keys |-> IF k = k1 THEN {X402(a1), Visa(a2)} ELSE {X402(a1)}]

(* A key of its own, and an authorization of its own, for each payment.    *)
OwnPayment == [k \in Keys |-> {X402(IF k = k1 THEN a1
                                    ELSE IF k = k2 THEN a2 ELSE a3)}]

(* The two servers are two processes, also when one of them is idle.       *)
ByServer == [r \in Reqs |-> IF r \in McpReqs THEN "mcp" ELSE "http"]

Symmetry == Permutations(Reqs)

HttpSymmetry == Permutations(HttpReqs)
=============================================================================
