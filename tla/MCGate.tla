------------------------------- MODULE MCGate -------------------------------
(***************************************************************************)
(* Values for the constants of RequestGate.                                *)
(***************************************************************************)
EXTENDS RequestGate, TLC

CONSTANTS r1, r2, r3, o1, o2, t1, t2, n1, n2, n3, ip1

TapInput(n, created, expires, genuine, tag) ==
  [nonce |-> n, created |-> created, expires |-> expires, lacks |-> {},
   covers |-> {"@authority", "@path"}, genuine |-> genuine, tag |-> tag]

Sig(input) == [inputs |-> <<input>>, values |-> <<"bytes">>]

Good == TapInput(n1, 0, 1, TRUE, "payer")

(* One nonce in genuine signatures that end at different times and of both *)
(* tags, the same nonce forged, another nonce of the other tag, and a      *)
(* window that is too long.                                                *)
WholeSignatures ==
  {Sig(Good), Sig(TapInput(n1, 1, 3, TRUE, "payer")),
   Sig(TapInput(n1, 0, 1, TRUE, "browser")),
   Sig(TapInput(n1, 0, 1, FALSE, "payer")), Sig(TapInput(n2, 0, 2, TRUE, "browser")),
   Sig(TapInput(n2, 0, 3, TRUE, "payer")), Sig(TapInput(n3, 0, 2, TRUE, "payer"))}

(* Beside the signature of a proxy, over a component that is not supported,*)
(* or with a value for another label only.                                 *)
OddSignatures ==
  {[inputs |-> <<Good, [Good EXCEPT !.tag = "other"]>>, values |-> <<"bytes", "bytes">>],
   Sig([Good EXCEPT !.covers = {"@path", "other"}]),
   [inputs |-> <<Good, Good>>, values |-> <<None, "bytes">>]}

SomeSignatures == WholeSignatures \cup OddSignatures

Exact == [parsed |-> TRUE, amount |-> TRUE, terms |-> TRUE]

From(op, tenant, sig) == [op |-> op, tenant |-> tenant, addr |-> ip1, sig |-> sig,
                          x402 |-> Exact, visa |-> Exact]

(* Without a header for the rail, with one that is malformed, or one with  *)
(* the amount of the price and another payee.                              *)
SomeArrivals ==
  {From(o1, t1, s) : s \in SomeSignatures \cup {None}}
  \cup {From(o1, t2, None), From(o1, None, None),
        [From(o2, t1, None) EXCEPT !.x402.terms = FALSE],
        [From(o1, t1, None) EXCEPT !.x402 = None, !.visa.parsed = FALSE],
        [From(o1, t1, Sig(Good)) EXCEPT !.x402.parsed = FALSE, !.visa.terms = FALSE]}

Priced(amount, paid, max) == [amount |-> amount, paid |-> paid, max |-> max]

NoLimits == [op \in Ops |-> None]

(* TAP is optional and picks the rail; one request per window; a tenant    *)
(* with a limit below its default, and one that has only the defaults.     *)
Optional ==
  [envAllow |-> {}, cliAllow |-> {}, pricesAllow |-> {o1, o2}, budgetsAllow |-> {},
   openapi |-> [op \in Ops |-> [amount |-> 1, paid |-> None]],
   prices |-> o1 :> Priced(1, TRUE, 2) @@ o2 :> None,
   budgets |-> o1 :> 1 @@ o2 :> None, fileDefault |-> 3, envDefault |-> None,
   tenants |-> t1 :> [default |-> 3, ops |-> o1 :> 1 @@ o2 :> None] @@ t2 :> None,
   tapRequired |-> FALSE, tapKeys |-> TRUE, tags |-> {"browser", "payer"},
   rail |-> "auto", visa |-> TRUE, rateMax |-> 1]

(* TAP is required, of one kind, and only one operation is allowed.        *)
Required ==
  [Optional EXCEPT !.envAllow = {o1}, !.tapRequired = TRUE, !.tags = {"payer"},
                   !.rail = "visa"]

(* No rate limiter, no TAP keys, and an operation that the document says   *)
(* is free.                                                                *)
Open ==
  [Optional EXCEPT !.rateMax = 0, !.tapKeys = FALSE, !.pricesAllow = {},
                   !.budgetsAllow = {o1, o2}, !.openapi[o2].paid = FALSE,
                   !.budgets[o1] = None, !.envDefault = 1, !.rail = "x402"]

(* The rail is not there.                                                  *)
NoRail == [Required EXCEPT !.tags = {"browser"}, !.visa = FALSE]

SomeConfigs == {Optional, Required, Open, NoRail}

Symmetry == Permutations(Reqs)
=============================================================================
