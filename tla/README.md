# A TLA+ model of PayMCP

PayMCP charges for HTTP operations and MCP tools: a paywall in front of a
server demands a payment header (x402 or Visa), has it verified and, once the
operation has replied 2xx, settled by an external service. A store sells
listings of such operations to buyers with a credit balance and pays the
sellers. A harness judges recorded traces of agents in CI. This directory
specifies how these parts handle money and access, model-checks them with TLC
and proves with TLAPS every invariant and every action property that the runs
check, and all of the refinements.

Paths below are relative to the repository; `P/` is `packages/paymcp/src/`,
`S/` is `packages/store/src/` and `H/` is `packages/harness-ci/src/`.

## 1. Inventory

| component | state | operations | interacts with | what makes it correct |
|---|---|---|---|---|
| Settlement ledger, `P/ledger` (SQLite or Postgres) | one row per idempotency key: status, transaction, times | `beginPending`, `recordSettlement`, `sumSettledAtomic` | called by the paywall and the MCP server, possibly by several processes over one database | one owner per pending key; a settled row is final |
| HTTP paywall, `P/middleware/paywall.ts` | the pending payment attached to a request | preHandler and onSend hooks of Fastify | ledger, settler, controls, rate limiter, webhook, the route's handler | settle only after 2xx, at most once per key; receipts are truthful; every claim gets an outcome |
| MCP server, `P/mcp/server.ts` | none of its own | the CallTool handler | the same ledger and settler; an upstream HTTP API | as the paywall |
| Facilitator and Visa clients, `P/settler` | attempts of a call | `verify`, `settle`, with a timeout per attempt and retries | external services, which may execute a call whose answer is lost | every call ends, but for a body that never does; the paywall's view of its outcome is right |
| Webhook, `P/webhook` | attempts | `notify` with retries | billing endpoint | only settlements are reported, each as one event |
| Controls, prices and rail, `P/controls`, `P/pricing`, `P/settler/rail.ts` | none (read from files, environment, document) | `checkAllowlist`, `checkBudget`, precedence of limits, `buildPriceTable`, `resolveSettlementRail` | ledger, paywall | the most specific limit applies, and is kept |
| Rate limiter, `P/http/rate-limit.ts` | counter and reset time per address and operation | `allow` | paywall | at most `max` per window, twice that in any stretch of its length |
| TAP verification, `P/tap` | nonce cache | Fastify hook, `verify` | key lookup, rail | fails closed; an accepted nonce is refused |
| Payment headers, `P/headers` | none | parse, validate | paywall, settler clients | a header for other terms does not pay |
| Store credit ledger, `S/ledger/balance.ts` | balances, funding events, spend log | `creditFromFunding`, `beginSpend`, `completeSpend` | invoke gateway, Stripe funding | no credit is made or lost; a hold has an owner |
| Store funding, `S/funding/stripe.ts` | checkout sessions (Stripe's) | create a session, webhook | Stripe, credit ledger | paid checkouts credit, once |
| Store listings, `S/listings` | listings | create, update, delete | sellers, invoke gateway | an invocation is of one version of a listing |
| Invoke gateway, `S/gateway/invoke.ts` | none of its own | `invoke` | credit ledger, listings, the listing's upstream, payouts | debit only after 2xx, refund otherwise |
| Seller payouts, `S/payout` | payout rows | `enqueue`, `markPaid`, `markFailed`, `requeue`, `settleForSpend`, `flushPending` | an executor that transfers USDC or calls the facilitator | every debit is paid out, once |
| Receipts, `S/receipts` | none | views over spends, listings, payouts | | a receipt is true |
| Harness rules, `H/` | last status per operation, settled keys | `evaluateTrace`, `runFixtureSuite` | CI | rules find what their descriptions say |
| Dispute pack, command lines, compiler, seller kit | none | reports, translation, fixtures | files | formats only |

What is hard here: requests with one key interleave at every `await`, in two
servers over one ledger; the settler is a remote party whose answers may be
late or lost while it has executed the call; claims outlive the process that
made them; a hook that throws is run again by Fastify, over a row that another
server may have claimed since; budgets and nonces are read long before what they guard is recorded;
the Postgres ledger reads and writes apart; the store's payouts are executed by
requests and by flushes of other processes, and its listings change under an
invocation. `PROJECT.json` lists these hazards at their lines with the
properties that cover them.

## 2. Modules

    KeyLease               what the ledger promises for a key (abstract)
       ^ implemented by
    Paywall  EXTENDS  PaymentLedger (rows and their transitions)
       ^        ^              ^ implemented by
    PaidMcp  PostgresPaywall  SettlerClient (the network below one request)
       ^            ^
    MCPaywall   MCPostgres

    Controls <- RequestGate <- MCGate      what a request passes before it pays
    StoreInvoke <- MCStore                 credits, invocations, payouts
    HarnessRules <- MCHarness              the trace gate

    proofs (A <- B: B extends A)
    Paywall <- PaywallProofs <- PaidMcpProofs   (with PaidMcp)         <- BudgetProofs
                             <- PostgresProofs  (with PostgresPaywall) <- BudgetProofs
    SettlerClient <- ClientProofs          RequestGate <- GateProofs
    StoreInvoke <- StoreProofs             HarnessRules <- HarnessProofs

**PaymentLedger** is `P/ledger/sqlite.ts`. `beginPending` and
`recordSettlement` are each one database transaction, so each is an operator
from the old row of a key to the new one: `ClaimKind` and `BeginPending`,
`RecordSettlement`. `CountedKeys` is `sumSettledAtomic`, which selects by
`created_at`. A row keeps its status, transaction and the two times; the
operation, network, payer, tenant and error text are left out.

**Paywall** is `P/middleware/paywall.ts` for one paid operation, with the
settler and `checkBudget`. A request is a process; its `pc` names the point
between two awaits:

    idle -Arrive-> hook -CheckBudget-> admitted -Claim-> claimed -VerifyAccepts-> handling
         -HandlerReplies-> onSend -PostSettle-> awaiting (<-> retrying) -SettleSucceeds-> notifying -Notify-> done

with the exits `Refuse`, 429, 409, `VerifyFails`, `SendPrior`, `ReleaseOnError`,
`SettleRefused` and `SettleThrows` (a 502), and one more for an error of settle
that is not the client's own:

    awaiting -SettleRethrows-> rerun -Rerun-> done

`SettleRethrows` records the failure, which releases the key, and the hook throws
the error again. Fastify runs the hook a second time, on its own 500, and `Rerun`
records a second failure over whatever the row has become, unless that is settled.
`Proc` says which process serves a request. Between the two records lie no awaits
on anything outside of the process, so that its other requests stand still
(`Turn`), but a second process over the same ledger file may claim the key.
`freed` is a history variable: the keys whose pending row a rerun has
overwritten. The ledger row, `posted` and `charges` (calls
the settler holds and has executed) and `events` (webhooks that billing has
received) survive `Crash`. Both rails are one set of actions, as their code is
the same but for what a settle call spends: `Token` is the signed authorization
on x402, the idempotency key on Visa. `Lossy` is the set of keys whose settle
calls may be executed although the answer is lost or late; for the others every
failure means that nothing was executed.

**KeyLease** is the abstract specification: a key is free, held by one
request, or settled for good with one transaction, and a request that is cut
off loses its lease. A lease can be broken, after which nothing is said of its key
any more: this is what a rerun does that frees a key. `Paywall` implements it (`ImplementsLease`), the holder
being the request that is at a point from which it still has to write an
outcome (`Owning`); so do the MCP server next to it and the paywall over
Postgres.

**PaidMcp** adds `P/mcp/server.ts`: tool calls, the requests of `McpReqs`,
next to HTTP requests over the same ledger and settler. Its actions are
Paywall's for a tool call, restricted to what the handler can do (x402 only, and
an answer to every error of the settler, so that nothing runs twice), and `UpstreamThrows`: `callUpstream` fails after the claim and
nothing is recorded. The two servers are two processes (`McpAssumption`): they
crash apart, and one goes on while the other is about to run its hook again.

**PostgresPaywall** replaces what `P/ledger/postgres.ts` does otherwise: a
claim of a key without a row is a select and an insert (`SelectNoRow`,
`Insert`), and every outcome is a select and an update (`Select`, `Update`) with
other requests in between. With `Rethrows`, a settle may end in an error that
the onSend hook throws again. The reruns here have queries between their steps, so
that requests of one process interleave with them; `freed` is not kept, it stays
empty.

**SettlerClient** is the network below one request: `P/settler/facilitator.ts`
or `visa.ts`, then `P/webhook/settlement.ts`. POSTs, the timer (which stops at
the headers), the reading of the body, sleeps, and servers that take up a POST
late, twice or never are steps of their own. `ImplementsPaywall` shows that
every step maps to a step of Paywall for a key in `Lossy`, or to none.

**Controls** holds the decisions of `P/controls/resolve.ts`,
`P/pricing/resolve.ts`, `P/compiler/openapi.ts` (the price of an operation),
`P/tap/config.ts` and `P/settler/rail.ts` as operators on a configuration.
**RequestGate** runs requests of several operations, tenants and addresses
through the TAP hook (`P/tap`) and the head of the paywall's hook: `Signed`,
`Recognise` or `Reject` or `LookupThrows`, then `CheckControls`, `Pass` or
`RateLimit`, and `Pay`, which stands for the rest of both hooks. The nonce
cache is a sequence in the order of a JavaScript Map. A signature is its
headers' members and one bit, `genuine`, for the arithmetic.

**StoreInvoke** is `S/gateway/invoke.ts` over `S/ledger/balance.ts`,
`S/listings/registry.ts`, `S/payout` and `S/funding/stripe.ts`: listings,
buyers' balances, checkouts, the spend row and the payout row of every key, and
the transfers made. Requests (`Invoke`) and flushes (`FlushPending`) are workers
whose steps are single transactions or events of the upstream or of the
executor. A request ends as "threw" where an exception leaves its spend as it
is: a URL that cannot be built after the hold, and a payout row that the
database refuses. `Lossy` lets the executor transfer and report an error.
`Receipt` is the view of `S/receipts/service.ts`.

**HarnessRules** is `H/rules.ts` and `H/evaluate.ts`: `evaluateTrace` as a loop
over the events (`Walk`) with the code's two maps, on traces that grow event by
event and are filed as fixtures.

Definitions whose comment begins with `Mutant` are wrong on purpose. They state
a plausible mistake in the definition that follows them, take no part in any
specification, and are listed under `mutants` with the property that notices it.

## 3. Runs

| run | expect | what it asks |
|---|---|---|
| system | pass | an HTTP paywall and an MCP server over one ledger: ledger, receipts, webhooks and clients agree with what the settler executed; the lease is implemented, unless a rerun of the hook frees the key; `IndInv` holds |
| live | pass | every claim is resolved and every request or tool call answered |
| postgres | pass | what survives over the Postgres ledger; how far concurrent requests exceed the budget |
| gate | pass | who passes the TAP hook and the controls; nonces, rate windows, limits of tenants |
| client | pass | the POST loops end, unless one answer is read for ever; one settlement is one event, Paywall's view of a call is right |
| store | pass | credits are conserved, payouts follow debits, receipts are true, outcomes are final, nothing is stranded but by a crash or one of two exceptions |
| harness | pass | the rules find what their wording says; the exit code means what the directories say |
| doublecharge | violation | one charge per key, with lost answers |
| budgetwindow | violation | nothing is admitted above the maximum of its window |
| strand | violation | a claim is resolved although the upstream cannot be reached |
| clobber | violation | a settled row is final although a settle answer cannot be read |
| doublepayout | violation | a paid payout is not transferred again |

**Bounds.**

- system: two HTTP requests and a tool call are enough for an owner, a duplicate
  and a later retry, across the two servers; of two keys one is lossy, and both
  come with one authorization, so that a payment spent under one key is refused
  under the other; the first also comes by Visa. `MaxRetries = 1` has one retry
  after a lost answer, `MaxCrashes = 1` one restart of either process at any
  point, `MaxInFlight = 2` two requests at a time: an HTTP request at `rerun`, a
  tool call that claims its key, and a third request after the second record. The
  exemption of the keys in `freed` is needed: stated for all keys, `ExclusiveClaim`,
  `ReceiptsAgree` and `OneChargeUnlessLost` are violated in this instance. The
  clock stands: no property of this run reads it.
- live: an HTTP request and a tool call, two keys, both lossy, both rails, a clock
  that moves once. The step that would need an upstream that throws is in `strand`.
- postgres: three requests, two at a time, over three keys, a budget for one
  price, a clock that moves once into the next window, and one restart. The second claim of a key, the race of two inserts and
  two outcomes of one key need no more. `Rethrows` is FALSE here; `clobber` has it TRUE.
- gate: three requests, two at a time, under four configurations that differ in
  every option that a decision reads; three nonces over a cache of two, so that it
  evicts; signatures of three windows around `MaxWindow = 2` and a clock of
  three instants, so that they begin, expire and are replayed; a rate window of two
  ticks, so that it ends. The maximum of a window is one, so that the run shows
  that it is kept in each window and that the next window starts anew; twice a
  maximum within one stretch takes more requests than these three, and that bound
  rests on the theorem `RateLimiterHolds`. The budget's window does not end within
  a run.
- client: `MaxRetries = 2`, so that three POSTs of every call can be under way
  at the server together, on either rail.
- store: two invocations and a flush, two keys, two buyers, two listing ids (one
  free), two prices and addresses, one change of a listing, three checkouts of
  which one completes unpaid, one crash of any set of workers. Either buyer can
  afford one dear or two cheap spends, so that a failed spend can be claimed
  again by the other buyer at the other price.
- harness: traces of up to four events over 22 events, which include both
  ends of the 2xx range, a padded and a blank key, and two requests of one operation.

Symmetry permutes requests and, over Postgres, keys together with the
authorization each comes with; never in a run with a liveness property.
Deadlock is not checked: requests, flushes, POSTs and events are finitely many,
so that every run ends.

**Fairness.** `FairSystem` is weakly fair to what a server does for each request
(`Serve`, `ServeTool`). The code justifies it for its own steps, which are
continuations the event loop runs; for a call to the settler by the result of the
run `client`, and by the assumption that the bodies of its answers end; for the
route's handler and the upstream it is an assumption about the host application.
`SettlerClient` is weakly fair to three steps of the loops: a POST after a sleep
(a timer), the end of an attempt (AbortController's timer) and the webhook's end
once it has the headers, as it does not read the body. It is not fair to the
reading of a body: the client's timer is cleared at the headers
(facilitator.ts:160), and what Node's fetch limits is the silence between two
chunks. `CallEnds` therefore has an exception: a call of verify or settle may
read one answer for ever. `RequestAnswered` and `ClaimResolves` (run `live`) hold
of settlers whose bodies end. There is no fairness for a settler, arrivals, crashes or the clock.

## 4. Disagreements with the documentation

Each has a run whose counterexample is the scenario.

1. README.md:401, `same key never double-charges`: a settle that throws,
   timeouts included, is recorded as failed and the key is released. If the
   facilitator did execute it and the client signs anew, the key is charged
   twice (`doublecharge`). What holds: one charge per key if answers for it are
   not lost (`OneChargeUnlessLost`, proved).
2. README.md:276, `hard stop on settled spend`: a reclaimed key keeps
   `created_at`, so a payment that settles in this window may be counted in an
   earlier one (`budgetwindow`).
3. P/mcp/server.ts:548 tells the client to retry after the other request
   completes; when `callUpstream` throws after the claim it never does (`strand`).
   The same holds after a crash of either server.
4. README.md:401, `settled rows replay`: over Postgres, an answer that
   settleOnSuccess cannot parse makes the hook record a second failure, which can
   overwrite the settled row of a retry (`clobber`). What holds, while no error
   is thrown again: settled rows are final over Postgres too (run `postgres`).
   The same second record over SQLite, with a server next to it that has claimed
   the key in between, frees a claim that is in use: a third request claims the
   key, both of its owners settle, and a client that signed anew is charged twice
   with no answer lost. Settled rows stay (sqlite.ts:131). The properties of the
   run `system` exempt such keys by name (`freed`).
5. `S/payout/service.ts`: `flushPending` executes rows as it listed them; one
   that has been paid since is transferred again (`doublepayout`).

Two more follow from the order of the checks and are noted under `hazards`. The
budget reads settled spend before the payment's awaits and reserves nothing, so
that the hard stop of README.md:276 is exceeded by the requests in flight
together (`OvershootBounded` and `LimitsKept` say by how much). And the budget is
checked before the key is looked up, so that a retry of the settlement that used
it up is answered 429, not with its receipt (README.md:254).

What the properties leave open, by name of the hazard: a client answered 402 may
have been charged, once an answer is lost; a failed payout may have been
transferred; `markPaid` overwrites the transaction hash of a row that is paid
(queue.ts:125-132), which the model's row does not have (`OutcomesAreFinal` speaks of
status, payee and amount); two requests that show one nonce together may both pass
(`ReplayRejected` is about a nonce that is remembered); a settle without
`afterStatusCode` may be judged by another request's reply
(`SettleJudgedByOwnReply` is about traces that show whose it is).

## 5. Proofs

A run checks its properties on one small instance; the theorems below hold for
every value of the constants that the named assumption of the module admits, and
TLC evaluates those assumptions in the runs. The proofs use nothing else, but for
one hypothesis, `~ Rethrows`, on four of the theorems over Postgres.

### The paywall and the MCP server, over SQLite

**PaywallProofs** proves of `Paywall`'s `Spec`, for every number of requests, keys,
payments, retries and crashes and every set `Lossy`, from `ConstantsAssumption`
alone; **PaidMcpProofs** proves the same of `SystemSpec`, the HTTP paywall and the
MCP server over one ledger, from `ConstantsAssumption` and `McpAssumption`:

| property | of Paywall | of both servers |
|---|---|---|
| TypeOK | TypeCorrect | with SystemInvariant |
| IndInv | Invariant | SystemInvariant |
| ExclusiveClaim | ClaimsAreExclusive | SystemClaimsAreExclusive |
| PendingHasOwner | OnlyCrashesStrand | SystemOnlyCutsStrand |
| ReceiptsAgree | ReceiptsAreConsistent | SystemReceiptsAreConsistent |
| SettledIsCharged | LedgerIsTruthful | SystemLedgerIsTruthful |
| PaidMeansCharged | PaidIsCharged | SystemPaidIsCharged |
| SettleOnlyAfter2xx | SettlesOnlyAfter2xx | SystemSettlesOnlyAfter2xx |
| WebhookOnlySettled | WebhooksOnlySettled | SystemWebhooksOnlySettled |
| SettledIsFinal | SettledRowsAreFinal | SystemSettledRowsAreFinal |
| NoSettleAfterSettled | NoSecondSettle | SystemNoSecondSettle |
| OneChargeUnlessLost | OneCharge | SystemOneCharge |
| ImplementsLease | Refinement | SystemRefinement |

`ExclusiveClaim`, `ReceiptsAgree`, `OneChargeUnlessLost`, `NoSettleAfterSettled` and
`ImplementsLease` speak of the keys that no rerun has freed; the others of every
key. The exemption is for systems of several processes:
`OneServerFreesNone` proves that `freed` stays empty where one process serves all
requests, so that there they hold for every key.

None of the properties is inductive alone. The argument rests on `IndInv`, which
the run `system` checks as well:

- `ClaimInv`: the request at an owning point finds its row pending and is alone
  there. To know that a request in the handler or in onSend without a receipt
  is an owner, and one with a receipt is not, it needs that a receipt appears
  only once its key is settled (`NoReceiptYet`, `ReceiptsAgree`), and that a
  settled row's transaction is not the empty one (`SettledIsCharged`).
- `CallInv`: each call the settler has stems from a request that was served,
  by what that request's `upstream` and `attempts` still show.
- `RerunInv`: a request that is about to run its hook again and finds its key
  pending has a request of another process that has come with that key, and so has
  every key in `freed`. For a key that is not freed an outcome then has one
  writer, which is why the other parts are stated for `Keys \ freed`.
- `SettleInv`, for keys whose answers are not lost: a call with the settler
  belongs to the pending key of the one request that awaits it, so a key whose
  claim is given back has no call left behind that could charge it later.

Action properties follow from `IndInv` and one more case split over the
actions. The refinement maps Claim to Acquire, the exits that record a failure
to Release, SettleSucceeds to Settle, Crash to Lose, a rerun that frees its key to
Break, and the rest to a stutter.
`SystemNextIsStep` shows that every step of the system is a `Step` of
`PaywallProofs`: a step of Paywall, or the loss of some requests (`Cut`), which
is what `UpstreamThrows` and a crash of one of the two servers are. The lemmas of
`PaywallProofs` are stated for `Step`, so nothing of the argument is repeated.

### Over Postgres

**PostgresProofs**, of `PgSpec`, from `ConstantsAssumption` and
`PostgresAssumption`:

| theorem | property | needs |
|---|---|---|
| PgTypeCorrect | PgTypeOK | |
| PgLedgerIsTruthful | SettledIsCharged | |
| PgClaimsAreExclusive | ExclusiveClaim | `~ Rethrows` |
| PgReceiptsAreConsistent | ReceiptsAgree | `~ Rethrows` |
| PgSettledRowsAreFinal | SettledIsFinal | `~ Rethrows` |
| PgRefinement | ImplementsLease | `~ Rethrows` |

`Rethrows` says that a settle may end in an error that the hook throws again. The
hypothesis cannot be dropped: the run `clobber` violates `SettledIsFinal` where it
is TRUE. It holds wherever the settler's client throws its own errors only. None of
the theorems needs the processes of Paywall: over Postgres requests interleave at
every query.

`RecordInv` says of each write that waits between its select and its update
that it is an outcome of its request and, where it settles, that its
transaction has been executed. `OwnInv` adds, without `Rethrows`, that no hook
runs twice, so that whoever is about to write owns its key (`WriterOwns`). Then an
update finds its own request's pending row although nothing locks it, and the
lease is released or settled at the update, not at the select. A claim takes the
lease at its insert, so that a claim that loses the race of two inserts is a
stutter.

### The budget

**BudgetProofs** proves `OvershootBounded` over either database, with or without
the MCP server, and for either value of `Rethrows`: `OvershootIsBounded`,
`SystemOvershootIsBounded` and `PgOvershootIsBounded`. `BudgetInv` counts what
has been settled in the window together with what may still be: the price of
the `Counted` keys and of the requests that have passed the check (`Spending`) is
at most `MaxDaily + Price * (MaxInFlight - 1)`. A request that passes the check
adds one price to a sum that `CheckBudget` has just seen to have room for it,
next to at most `MaxInFlight - 1` others; a settlement moves a request from one
set to a key in the other.

### The clients below a request

**ClientProofs**, for every `MaxRetries`, from `ClientAssumption`:
`ClientTypeCorrect` (TypeOK, which bounds POSTs and sleeps), `OneEvent`
(OneEventPerSettlement) and `ClientRefinement` (ImplementsPaywall), on the
invariant `ClientInv`: the calls are made in order and each is bounded (`LoopInv`);
the clock counts the sleeps (`ClockInv`); all copies of a webhook have the body that
was built once (`EventInv`); no answer says that money was taken before it was, or
before the settle call (`MoneyInv`). For the refinement each POST, execution and
answer is mapped to Paywall's step for it or to none.

### The gate

**GateProofs**, for any requests, signatures, configurations and bounds, from
`GateAssumption`:

| theorem | property | by the invariant |
|---|---|---|
| GateFailsClosed | FailsClosed | `FlowInv`: where a request is tells what it has shown |
| GateTypeCorrect | TypeOK | `NonceInv`, for the size of the cache |
| NonceCacheIsAMap | (the cache has no nonce twice) | `NonceInv` |
| ReplaysAreRejected | ReplayRejected | `NonceInv`: a nonce is held until it expires, by an entry for each request that was judged at most |
| RateLimiterHolds | RateBounded | `RateInv`: the counter bounds the current window, the maximum the stretch before it |
| LimitsAreKept | LimitsKept | `LimitInv`: as `BudgetInv`, per operation and tenant |

`ResolvesMostSpecific` shows that `resolveMaxDailyAtomic`, the code's chain of
fallbacks over three sources, is the limit that `MostSpecific` declares.

### The store

**StoreProofs**, of `StoreInvoke`'s `Spec`, for every number of invocations,
flushes, buyers, listings, edits and crashes and for either value of `Lossy` and
`BadUrls`, from `StoreAssumption`:

| theorem | property |
|---|---|
| TypeCorrect | TypeOK |
| PayoutsAreDebited, ReceiptsAreTrue | PayoutIsDebited, ReceiptIsTrue |
| NothingIsStranded | NothingStranded |
| OutcomesStay | OutcomesAreFinal |
| CreditsAreConserved | Conservation |

`StoreInvariant` is the common invariant of the first five. `HoldInv`: a request
that calls its upstream finds its key's spend pending at the price it has read,
and is alone there, so that `completeSpend` never meets a spend of another
request. `DebitInv`: after the 2xx the spend is settled at that price. `PayInv`:
workers, and the rows a flush has listed, are of payout rows that exist, a
transfer has a row, and a paid row has a transfer. `BackedInv`: a payout row is of
a settled spend and of a request that has arrived, which keeps its key and its
quote. `CreditsAreConserved` follows from `StoreInvariant` and `FundedInv` (what has
been credited was paid), as a hold, a release and a credit each change two of
the three sums by one amount, and nothing else changes any.

### The harness

**HarnessProofs**, for traces of any length over any events, from
`HarnessAssumption`:

| theorem | property |
|---|---|
| TypeCorrect | TypeOK |
| RulesAreTheirWords | RulesAgree |
| SettlesAreJudgedByTheirReply | SettleJudgedByOwnReply |
| ExitCodeMeansClean | GateHolds |

The argument is about the loop, not about the steps of the specification.
`Walked(t, n)` says what `Walk(t)` holds after n events in terms of those events: the
keys settled, the last answer of each operation, and that event i is flagged by
the rules that it raises in the state before it. `StepIs` shows it for one
event.

### Induction over data

The induction theorems of the library take an operator as a parameter, which
the provers cannot instantiate. Sums, loops and first elements are proved by a
smallest counterexample instead: strict inclusion of finite sets is well-founded
(`FS_StrictSubsetOrderingWellFounded`, `WFMin`), so a failing set, or the interval
below a failing number, has a smallest one, which a lemma about one more element
contradicts (`HasLeast`, `SumExists`, `SumUnique`, `WalkedAll`).

### What the proofs found in the models

- Two CASE expressions of the mapping from `SettlerClient` to Paywall had guards
  that overlapped, where TLC takes the first; they are disjoint now.
- `ReplayRejected` was stated for every accepted nonce. The run
  agreed, but with more requests it is false: a second request that shows the nonce while the key
  of the first is looked up remembers it again with an expiry of its own, and
  does so before its tag is checked (`P/tap/verify.ts:85`). The property now
  names those requests (`Remembered`), and the gate's run has a signature for it.

### Only model-checked

The liveness properties `ClaimResolves`, `RequestAnswered` and `CallEnds`, which
need fairness and ENABLED.

## 6. Not modelled, and why

Signatures, hashes, header encodings and the contents of requests: a payment is
a value that the settler can spend or not. A database that fails between two
statements, except where a payout row is refused. The operation and the tenant
of a ledger row in Paywall: rows are independent but for the budget's sum, which
RequestGate has per operation and tenant. A Postgres ledger with budgets that are
read while a row is written: the sum is one query. The queue's limit of fifty
rows. The dispute pack, the XPay wrapper, the command lines, the generated
scaffold, the seller kit and the seed have no state of their own to model.

## 7. Plan

Done: the ledger on both databases, the paywall and the MCP server, the clients
of the settlers and the webhook, the gate, the store and the harness, with proofs
of every safety property and refinement that the runs check.

1. Over Postgres, what does hold with `Rethrows`: at most one settled
   transaction is lost for each hook that runs twice.
2. PaidMcp over the Postgres ledger, which the code allows as well.
3. That requests are answered for any number of retries: an upper bound on the
   steps of a request, as a safety property that can be proved.
