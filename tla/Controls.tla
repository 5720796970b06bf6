------------------------------ MODULE Controls ------------------------------
(***************************************************************************)
(* The access controls of packages/paymcp: what controls/resolve.ts,       *)
(* pricing/resolve.ts, compiler/openapi.ts, tap/config.ts and              *)
(* settler/rail.ts make of a configuration, as operators on it.  An option *)
(* that is not set is None; an allowlist that is not set is empty.         *)
(***************************************************************************)
EXTENDS Integers, Sequences, FiniteSets

CONSTANTS Ops, Tenants, None

Limit == Nat \cup {None}

(* What the parsers of the three files leave of them: the x-paymcp         *)
(* extension of an operation, whose amount is required; an entry of        *)
(* prices.yaml, paid unless it says otherwise; the limits of budgets.yaml, *)
(* where the last of two entries for an operation counts, and those of a   *)
(* tenant.                                                                 *)
Extension == [amount : Nat, paid : {TRUE, FALSE, None}]

PriceEntry == [amount : Nat, paid : BOOLEAN, max : Limit]

OperationBudgets == [Ops -> Limit]

TenantBudgets == [default : Limit, ops : OperationBudgets]

(* The names in PAYMCP_ALLOWLIST: an empty list is no list.                *)
Allowlist == SUBSET Ops

(* The inputs of resolveAccessControls, buildPriceTable, the paywall and   *)
(* the TAP hook; tapKeys: it is given a verifier, or keys to make one.     *)
Config ==
  [envAllow : Allowlist, cliAllow : Allowlist,
   pricesAllow : Allowlist, budgetsAllow : Allowlist,
   openapi : [Ops -> Extension \cup {None}],
   prices : [Ops -> PriceEntry \cup {None}],
   budgets : OperationBudgets, fileDefault : Limit, envDefault : Limit,
   tenants : [Tenants -> TenantBudgets \cup {None}],
   tapRequired : BOOLEAN, tapKeys : BOOLEAN, tags : SUBSET {"browser", "payer"},
   rail : {"x402", "visa", "auto"}, visa : BOOLEAN, rateMax : Nat]

(* The server does not start with TAP required and no keys.                *)
Starts(c) == c.tapRequired => c.tapKeys

Or(a, b) == IF a # None THEN a ELSE b

-----------------------------------------------------------------------------
(* The four sources of an allowlist: the first that is set wins.           *)
allowlist(c) ==
  CASE c.envAllow # {}    -> c.envAllow
    [] c.envAllow = {} /\ c.cliAllow # {} -> c.cliAllow
    [] c.envAllow = {} /\ c.cliAllow = {} /\ c.pricesAllow # {} -> c.pricesAllow
    [] OTHER              -> c.budgetsAllow

checkAllowlist(c, op) == allowlist(c) = {} \/ op \in allowlist(c)

(* An operation of the document with a price, which may say it is unpaid.  *)
compiled(c, op) ==
  IF c.openapi[op] = None THEN None
  ELSE [amount |-> c.openapi[op].amount, paid |-> c.openapi[op].paid # FALSE,
        max |-> None]

(* buildPriceTable: an entry of prices.yaml replaces the compiled one.     *)
priceOf(c, op) == Or(c.prices[op], compiled(c, op))

isOperationPaid(c, op) == priceOf(c, op) # None /\ priceOf(c, op).paid

(* byOperationId: budgets.yaml overrides the limits of prices.yaml.        *)
byOperationId(c, op) ==
  Or(c.budgets[op], IF c.prices[op] = None THEN None ELSE c.prices[op].max)

(* The environment overrides the file's default.                           *)
defaultMaxDailyAtomic(c) == Or(c.envDefault, c.fileDefault)

(* Mutant: the tenant's default hides its own limits for operations.       *)
resolveMaxDefaultFirst(c, op, tenant) ==
  LET own == IF tenant = None THEN None ELSE c.tenants[tenant]
      tenantMax == IF own = None THEN None ELSE Or(own.default, own.ops[op])
  IN  Or(tenantMax, Or(byOperationId(c, op), defaultMaxDailyAtomic(c)))

resolveMaxDailyAtomic(c, op, tenant) ==
  LET own == IF tenant = None THEN None ELSE c.tenants[tenant]
      tenantMax == IF own = None THEN None ELSE Or(own.ops[op], own.default)
  IN  Or(tenantMax, Or(byOperationId(c, op), defaultMaxDailyAtomic(c)))

(* The paywall always has an x402 settler.                                 *)
resolveSettlementRail(c, tapPresent) ==
  CASE c.rail = "x402" -> "x402"
    [] c.rail = "visa" -> IF c.visa THEN "visa" ELSE None
    [] c.rail = "auto" -> IF tapPresent /\ c.visa THEN "visa" ELSE "x402"
=============================================================================
