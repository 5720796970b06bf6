---------------------------- MODULE RequestGate ----------------------------
(***************************************************************************)
(* What a request passes before it may pay: the preHandler hook of         *)
(* tap/middleware.ts with the parser, the verifier and the nonce cache     *)
(* behind it, then the head of the paywall's own hook: allowlist, price,   *)
(* budget, rate limiter (http/rate-limit.ts), rail and payment header.     *)
(* The payment itself, which module Paywall is about, is one step here,    *)
(* with two outcomes.                                                      *)
(*                                                                         *)
(* The awaits are the lookup of a public key, the budget's sum over the    *)
(* ledger and the payment: requests interleave and the clock moves there.  *)
(* Everything but the ledger is memory of one process.                     *)
(***************************************************************************)
EXTENDS Controls

CONSTANTS
  Reqs,          \* the requests
  Arrivals,      \* what they may present
  Configs,       \* the configurations of the server
  Signatures,    \* TAP signatures
  Addrs,         \* client addresses
  Nonces,        \* nonces of the signatures
  MaxWindow,     \* maxWindowSeconds of a signature
  MaxEntries,    \* maxEntries of the nonce cache
  RateWindow,    \* rateLimitWindowMs
  MaxTime,       \* bound: the clock stops here; the budget's window does not end
  MaxInFlight    \* bound: requests served at the same time

Fields == {"created", "expires", "keyid", "alg", "nonce", "tag"}

TapTags == {"browser", "payer"}

(* A member of Signature-Input.  lacks: the parameters that are missing or *)
(* not of their type; genuine: the key is known and the signature over     *)
(* what is covered is its own, for the host and the path of the request.   *)
Input == [nonce : Nonces, created : Nat, expires : Nat, lacks : SUBSET Fields,
          covers : SUBSET {"@authority", "@path", "other"},
          genuine : BOOLEAN, tag : TapTags \cup {"other"}]

(* The two headers: the inputs, and what Signature has for each label.     *)
Signature == [inputs : Seq(Input), values : Seq({"bytes", "malformed", None})]

(* A payment header that is JSON: parsed if no field is missing; amount is *)
(* that of the price; terms: scheme, network, asset and payee are those    *)
(* the server asks for.                                                    *)
Payment == [parsed : BOOLEAN, amount : BOOLEAN, terms : BOOLEAN]

Request == [op : Ops, tenant : Tenants \cup {None}, addr : Addrs,
            sig : Signatures \cup {None},
            x402 : Payment \cup {None}, visa : Payment \cup {None}]

ASSUME GateAssumption ==
  /\ Configs \subseteq Config /\ \A c \in Configs : Starts(c)
  /\ Signatures \subseteq Signature
  /\ Arrivals \subseteq Request /\ Arrivals # {}
  /\ MaxWindow \in Nat /\ MaxEntries \in Nat \ {0} /\ RateWindow \in Nat \ {0}
  /\ MaxTime \in Nat /\ MaxInFlight \in Nat \ {0}
  /\ None \notin Nat \cup {"x402", "visa"}
  /\ None \notin Payment \cup Signatures \cup Tenants

VARIABLES
  config,   \* the server's configuration
  now,      \* the wall clock
  pc,       \* where a request is, or how it was answered
  req,      \* what it presents
  tap,      \* request.paymcpTap: is it recognised?
  rail,     \* the rail it may pay on
  passed,   \* when the rate limiter let it through
  nonces,   \* the nonce cache, in the order of insertion
  hits,     \* the rate limiter's windows, per address and operation
  settled   \* the requests that have paid: rows of the ledger

vars == <<config, now, pc, req, tap, rail, passed, nonces, hits, settled>>

Answers == {"400", "401", "402", "403", "free", "429 budget", "429 rate", "500",
            "503", "unpaid", "paid"}

Entry == [nonce : Nonces, expires : Nat]

TypeOK ==
  /\ config \in Configs /\ now \in Nat
  /\ pc \in [Reqs -> {"idle", "looking", "gate", "admitted", "paying"} \cup Answers]
  /\ req \in [Reqs -> Arrivals]
  /\ tap \in [Reqs -> BOOLEAN]
  /\ rail \in [Reqs -> {None, "x402", "visa"}]
  /\ passed \in [Reqs -> Nat \cup {None}]
  /\ nonces \in Seq(Entry) /\ Len(nonces) <= MaxEntries
  /\ hits \in [Addrs \X Ops -> [count : Nat, resetAt : Nat]]
  /\ settled \subseteq Reqs

(* A window that has ended counts as none.                                 *)
Init ==
  /\ config \in Configs
  /\ now = 0
  /\ pc = [r \in Reqs |-> "idle"]
  /\ req = [r \in Reqs |-> CHOOSE q \in Arrivals : TRUE]
  /\ tap = [r \in Reqs |-> FALSE]
  /\ rail = [r \in Reqs |-> None]
  /\ passed = [r \in Reqs |-> None]
  /\ nonces = <<>>
  /\ hits = [h \in Addrs \X Ops |-> [count |-> 0, resetAt |-> 0]]
  /\ settled = {}

Goto(r, label) == pc' = [pc EXCEPT ![r] = label]

InFlight == {r \in Reqs : pc[r] \in {"looking", "gate", "admitted", "paying"}}

-----------------------------------------------------------------------------
(* The nonce cache.                                                        *)

Known(nonce) == {i \in DOMAIN nonces : nonces[i].nonce = nonce}

(* seenNonce, which forgets a nonce that has expired.                      *)
seenNonce(nonce) == \E i \in Known(nonce) : nonces[i].expires >= now

(* The cache holds a nonce once (Map.delete).                              *)
Without(nonce) ==
  LET at == CHOOSE i \in Known(nonce) : TRUE
  IN  IF Known(nonce) = {} THEN nonces
      ELSE SubSeq(nonces, 1, at - 1) \o SubSeq(nonces, at + 1, Len(nonces))

(* Mutant: the cache holds one entry too many.                             *)
rememberNonceLate(nonce, expires) ==
  LET kept == IF Len(nonces) > MaxEntries THEN Tail(nonces) ELSE nonces
      e    == [nonce |-> nonce, expires |-> expires]
      at   == {i \in DOMAIN kept : kept[i].nonce = nonce}
  IN  IF at = {} THEN Append(kept, e) ELSE [kept EXCEPT ![CHOOSE i \in at : TRUE] = e]

(* A full cache evicts its first entry, whatever is to be remembered; an   *)
(* entry that is known keeps its place (Map.set).                          *)
rememberNonce(nonce, expires) ==
  LET kept == IF Len(nonces) >= MaxEntries THEN Tail(nonces) ELSE nonces
      e    == [nonce |-> nonce, expires |-> expires]
      at   == {i \in DOMAIN kept : kept[i].nonce = nonce}
  IN  IF at = {} THEN Append(kept, e) ELSE [kept EXCEPT ![CHOOSE i \in at : TRUE] = e]

-----------------------------------------------------------------------------
(* The headers of a signature.                                             *)

(* A member of Signature-Input must have every parameter and a TAP tag.    *)
WellFormed(i) == i.covers # {} /\ i.lacks = {} /\ i.tag \in TapTags

(* One member that is not a TAP signature makes the header unacceptable.   *)
parseSignatureInputHeader(s) ==
  s.inputs # <<>> /\ \A n \in DOMAIN s.inputs : WellFormed(s.inputs[n])

parseSignatureHeader(s) ==
  /\ \E n \in DOMAIN s.values : s.values[n] # None
  /\ \A n \in DOMAIN s.values : s.values[n] # "malformed"

(* The first input with a TAP tag.                                         *)
Picked(s) ==
  LET tagged == {n \in DOMAIN s.inputs : s.inputs[n].tag \in TapTags}
  IN  CHOOSE n \in tagged : \A m \in tagged : n <= m

pickTapInput(s) == s.inputs[Picked(s)]

Parsed(s) ==
  /\ parseSignatureInputHeader(s)
  /\ parseSignatureHeader(s)
  /\ s.values[Picked(s)] = "bytes"

(* The base of a signature has no line for any other component.            *)
HasBase(i) == i.covers \subseteq {"@authority", "@path"}

-----------------------------------------------------------------------------
(* tapAgentMiddleware                                                      *)

(* validateTimestamps                                                      *)
InForce(i) ==
  /\ i.created <= now
  /\ i.expires > now
  /\ i.expires - i.created <= MaxWindow

(* Without keys there is no hook: signatures are not looked at.            *)
Unhooked(r, q) ==
  /\ ~ config.tapKeys
  /\ Goto(r, "gate")
  /\ UNCHANGED nonces

(* A request without a signature passes unless TAP is required.            *)
Unsigned(r, q) ==
  /\ config.tapKeys /\ q.sig = None
  /\ Goto(r, IF config.tapRequired THEN "401" ELSE "gate")
  /\ UNCHANGED nonces

(* Mutant: the nonce is not looked up before the key.                      *)
SignedUnchecked(r, q) ==
  /\ config.tapKeys /\ q.sig # None
  /\ Goto(r, IF Parsed(q.sig) /\ InForce(pickTapInput(q.sig)) THEN "looking" ELSE "401")
  /\ UNCHANGED nonces

(* The headers, the timestamps, then the nonce; then the key is looked up. *)
Signed(r, q) ==
  /\ config.tapKeys /\ q.sig # None
  /\ IF Parsed(q.sig) /\ InForce(pickTapInput(q.sig))
        /\ ~ seenNonce(pickTapInput(q.sig).nonce)
     THEN Goto(r, "looking") /\ nonces' = Without(pickTapInput(q.sig).nonce)
     ELSE Goto(r, "401") /\ UNCHANGED nonces

Arrive(r, q) ==
  /\ pc[r] = "idle"
  /\ Cardinality(InFlight) < MaxInFlight
  /\ req' = [req EXCEPT ![r] = q]
  /\ Unhooked(r, q) \/ Unsigned(r, q) \/ Signed(r, q)
  /\ UNCHANGED <<config, now, tap, rail, passed, hits, settled>>

(* Mutant: a request whose signature is not recognised goes on as one      *)
(* without, unless TAP is required.                                        *)
RejectOnlyIfRequired(r) ==
  /\ pc[r] = "looking"
  /\ Goto(r, IF config.tapRequired THEN "401" ELSE "gate")
  /\ UNCHANGED <<config, now, req, tap, rail, passed, nonces, hits, settled>>

(* The key is unknown, or the signature has no base or is not valid: the   *)
(* hook fails closed, also where TAP is optional.                          *)
Reject(r) ==
  /\ pc[r] = "looking"
  /\ Goto(r, "401")
  /\ UNCHANGED <<config, now, req, tap, rail, passed, nonces, hits, settled>>

(* The lookup of the key throws: the hook throws, too.                     *)
LookupThrows(r) ==
  /\ pc[r] = "looking"
  /\ Goto(r, "500")
  /\ UNCHANGED <<config, now, req, tap, rail, passed, nonces, hits, settled>>

(* The nonce is remembered before the tag is looked at.                    *)
Recognise(r) ==
  LET input == pickTapInput(req[r].sig)
  IN  /\ pc[r] = "looking"
      /\ HasBase(input) /\ input.genuine
      /\ nonces' = rememberNonce(input.nonce, input.expires)
      /\ IF input.tag \in config.tags
         THEN Goto(r, "gate") /\ tap' = [tap EXCEPT ![r] = TRUE]
         ELSE Goto(r, "401") /\ UNCHANGED tap
      /\ UNCHANGED <<config, now, req, rail, passed, hits, settled>>

-----------------------------------------------------------------------------
(* The head of the paywall's hook.                                         *)

(* sumSettledAtomic for the operation: of the tenant, or of all when the   *)
(* request names none.                                                     *)
Spent(op, tenant) ==
  priceOf(config, op).amount *
    Cardinality({r \in settled : /\ req[r].op = op
                                 /\ tenant \in {None, req[r].tenant}})

BudgetOk(q) ==
  LET max == resolveMaxDailyAtomic(config, q.op, q.tenant)
  IN  max = None \/ Spent(q.op, q.tenant) + priceOf(config, q.op).amount <= max

CheckControls(r) ==
  /\ pc[r] = "gate"
  /\ Goto(r, CASE ~ checkAllowlist(config, req[r].op)   -> "403"
               [] checkAllowlist(config, req[r].op)
                  /\ ~ isOperationPaid(config, req[r].op) -> "free"
               [] OTHER -> IF BudgetOk(req[r]) THEN "admitted" ELSE "429 budget")
  /\ UNCHANGED <<config, now, req, tap, rail, passed, nonces, hits, settled>>

(* Mutant: a new window ends when it begins.                               *)
AllowForNow(h) ==
  IF now >= hits[h].resetAt
  THEN hits' = [hits EXCEPT ![h] = [count |-> 1, resetAt |-> now]]
  ELSE /\ hits[h].count < config.rateMax
       /\ hits' = [hits EXCEPT ![h].count = @ + 1]

(* SimpleRateLimiter.allow                                                 *)
Allow(h) ==
  IF now >= hits[h].resetAt
  THEN hits' = [hits EXCEPT ![h] = [count |-> 1, resetAt |-> now + RateWindow]]
  ELSE /\ hits[h].count < config.rateMax
       /\ hits' = [hits EXCEPT ![h].count = @ + 1]

Limited(h) == now < hits[h].resetAt /\ hits[h].count >= config.rateMax

(* PAYMENT-SIGNATURE: the accepted terms are those of the server.          *)
acceptMatches(payment) == payment.amount /\ payment.terms

PresentX402(payment) ==
  CASE payment = None -> "402"
    [] payment # None -> IF ~ payment.parsed THEN "400"
                         ELSE IF acceptMatches(payment) THEN "paying" ELSE "402"

(* VISA-PAYMENT: only the amount is compared.                              *)
PresentVisa(payment) ==
  CASE payment = None -> "402"
    [] payment # None -> IF ~ payment.parsed THEN "400"
                         ELSE IF payment.amount THEN "paying" ELSE "402"

(* The rate limiter, if there is one, the rail and its payment header.     *)
Pass(r) ==
  /\ pc[r] = "admitted"
  /\ IF config.rateMax = 0 THEN UNCHANGED hits
     ELSE Allow(<<req[r].addr, req[r].op>>)
  /\ LET chosen == resolveSettlementRail(config, tap[r])
     IN  /\ rail' = [rail EXCEPT ![r] = chosen]
         /\ Goto(r, CASE chosen = None   -> "503"
                      [] chosen = "x402" -> PresentX402(req[r].x402)
                      [] chosen = "visa" -> PresentVisa(req[r].visa))
  /\ passed' = [passed EXCEPT ![r] = now]
  /\ UNCHANGED <<config, now, req, tap, nonces, settled>>

RateLimit(r) ==
  /\ pc[r] = "admitted"
  /\ config.rateMax # 0 /\ Limited(<<req[r].addr, req[r].op>>)
  /\ Goto(r, "429 rate")
  /\ UNCHANGED <<config, now, req, tap, rail, passed, nonces, hits, settled>>

(* The rest of both hooks: see Paywall.                                    *)
Pay(r) ==
  /\ pc[r] = "paying"
  /\ \/ Goto(r, "paid") /\ settled' = settled \cup {r}
     \/ Goto(r, "unpaid") /\ UNCHANGED settled
  /\ UNCHANGED <<config, now, req, tap, rail, passed, nonces, hits>>

Tick ==
  /\ now < MaxTime
  /\ now' = now + 1
  /\ UNCHANGED <<config, pc, req, tap, rail, passed, nonces, hits, settled>>

Next ==
  \/ \E r \in Reqs :
       \/ \E q \in Arrivals : Arrive(r, q)
       \/ Reject(r) \/ LookupThrows(r) \/ Recognise(r)
       \/ CheckControls(r) \/ Pass(r) \/ RateLimit(r)
       \/ Pay(r)
  \/ Tick

Spec == Init /\ [][Next]_vars

-----------------------------------------------------------------------------
(* Properties                                                              *)

(* `Fail closed when required and signature missing/invalid', and for a    *)
(* signature that is present but invalid also where TAP is optional: who   *)
(* gets past the hook is recognised, by headers that hold nothing but TAP  *)
(* signatures and a genuine one of an accepted kind first, or has shown    *)
(* none and need not, or nobody is asked; on auto only who is recognised   *)
(* pays by Visa, and a header for one rail does not pay on the other.      *)
FailsClosed ==
  \A r \in Reqs :
    /\ tap[r] => /\ \A n \in DOMAIN req[r].sig.inputs :
                      req[r].sig.inputs[n].tag \in TapTags
                 /\ req[r].sig.inputs[1].genuine
                 /\ req[r].sig.inputs[1].tag \in config.tags
    /\ pc[r] \notin {"idle", "looking", "401", "500"} =>
         tap[r] \/ (req[r].sig = None /\ ~ config.tapRequired) \/ ~ config.tapKeys
    /\ config.rail = "auto" /\ rail[r] = "visa" => tap[r]
    /\ r \in settled => IF rail[r] = "visa" THEN req[r].visa.amount
                        ELSE req[r].x402.amount /\ req[r].x402.terms

(* The requests that the cache may have remembered a nonce for: recognised,*)
(* or turned away with a signature of a kind that is not accepted.         *)
Remembered(nonce) ==
  {r \in Reqs :
     /\ req[r].sig # None /\ Parsed(req[r].sig)
     /\ pickTapInput(req[r].sig).nonce = nonce
     /\ \/ tap[r]
        \/ pc[r] = "401" /\ pickTapInput(req[r].sig).tag \notin config.tags}

(* The requests that have shown a signature.                               *)
HaveSigned == {r \in Reqs : pc[r] # "idle" /\ req[r].sig # None}

(* `nonce already used': a signature whose nonce has been accepted, by one *)
(* request, is not verified again as long as it is in force, whatever the  *)
(* interleaving and the expiry of other nonces, until more requests have   *)
(* been signed than the cache holds.  (Two requests that present one nonce *)
(* while the key of the first is looked up are both recognised, and the    *)
(* second of them, recognised or of a kind that is not accepted, replaces  *)
(* the time until which the nonce of the first is remembered.)             *)
ReplayRejected ==
  [][\A r, q \in Reqs :
       /\ pc[r] = "idle" /\ pc'[r] = "looking"
       /\ tap[q] /\ Remembered(pickTapInput(req'[r].sig).nonce) = {q}
       /\ Cardinality(HaveSigned) <= MaxEntries
       => pickTapInput(req[q].sig).expires < now]_vars

(* The rate limiter: in any stretch as long as its window, however it lies *)
(* to the fixed windows, an address gets at most twice the maximum through *)
(* to an operation, and within the current window the maximum.             *)
RateBounded ==
  config.rateMax > 0 =>
    \A a \in Addrs, op \in Ops, t \in 0..now :
      LET through == {r \in Reqs : /\ passed[r] # None
                                   /\ req[r].addr = a /\ req[r].op = op}
          h == hits[<<a, op>>]
      IN  /\ Cardinality({r \in through : passed[r] \in t..(t + RateWindow - 1)})
               <= 2 * config.rateMax
          /\ Cardinality({r \in through : passed[r] >= h.resetAt - RateWindow})
               <= config.rateMax

(* `tenant.operations[op] > tenant.default > operations[op] >              *)
(* defaultMaxDailyAtomic', budgets.yaml before prices.yaml and the         *)
(* environment before the file.                                            *)
MostSpecific(op, tenant) ==
  LET own == IF tenant = None THEN None ELSE config.tenants[tenant]
      sources == (IF own = None THEN <<>> ELSE <<own.ops[op], own.default>>)
                 \o <<config.budgets[op]>>
                 \o (IF config.prices[op] = None THEN <<>> ELSE <<config.prices[op].max>>)
                 \o <<config.envDefault, config.fileDefault>>
      set == {i \in DOMAIN sources : sources[i] # None}
  IN  IF set = {} THEN None
      ELSE sources[CHOOSE i \in set : \A j \in set : i <= j]

(* `Budgets are independent per tool (and per tenant when set)': what the  *)
(* requests of a tenant, or those that name none, have spent stays within  *)
(* the most specific limit, but for the requests in flight together.       *)
LimitsKept ==
  \A op \in Ops, tenant \in Tenants \cup {None} :
    LET max == MostSpecific(op, tenant)
        own == {r \in settled : req[r].op = op /\ req[r].tenant = tenant}
    IN  max # None /\ own # {} =>
          priceOf(config, op).amount * Cardinality(own)
            <= max + priceOf(config, op).amount * (MaxInFlight - 1)
=============================================================================
