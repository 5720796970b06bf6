----------------------------- MODULE MCPostgres -----------------------------
(***************************************************************************)
(* Values for the constants of PostgresPaywall.                            *)
(***************************************************************************)
EXTENDS PostgresPaywall, TLC

CONSTANTS r1, r2, r3, k1, k2, k3, a1, a2, a3

X402(a) == [rail |-> "x402", auth |-> a]

(* Every key comes with an authorization of its own.                       *)
AuthOf(k) == CASE k = k1 -> a1 [] k = k2 -> a2 [] OTHER -> a3

Own == [k \in Keys |-> {X402(AuthOf(k))}]

OneProcess == [r \in Reqs |-> "http"]

RequestSymmetry == Permutations(Reqs)

(* A key and its authorization change their places together.               *)
PaymentSymmetry ==
  {[v \in Keys \cup {AuthOf(k) : k \in Keys} |->
      IF v \in Keys THEN p[v] ELSE AuthOf(p[CHOOSE k \in Keys : AuthOf(k) = v])] :
     p \in Permutations(Keys)}

Symmetry == RequestSymmetry \cup PaymentSymmetry
=============================================================================
