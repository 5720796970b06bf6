---------------------------- MODULE PaidMcpProofs ----------------------------
(***************************************************************************)
(* Theorems about PaidMcp: an HTTP paywall and an MCP server over one      *)
(* ledger, with an upstream that may not be reached and either server      *)
(* stopping without the other.  Every step of the system is one of those   *)
(* that the lemmas of PaywallProofs are about.                             *)
(***************************************************************************)
EXTENDS PaidMcp, PaywallProofs

-----------------------------------------------------------------------------
(* The steps of the system                                                 *)

(* A tool call moves as an HTTP request does, or is cut off by an upstream *)
(* that cannot be reached.                                                 *)
LEMMA ToolStep ==
  ASSUME TypeOK, NEW r \in Reqs, ServeTool(r)
  PROVE  Serve(r) \/ Loss
  <1>1. CASE UpstreamThrows(r)
    <2>1. {r} \in SUBSET {q \in Reqs : Active(q)} /\ crashes' \in Nat
      BY <1>1 DEF UpstreamThrows, Active, TypeOK
    <2> QED
      BY <1>1, <2>1 DEF UpstreamThrows, Loss
  <1>2. CASE ~ UpstreamThrows(r)
    BY <1>2 DEF ServeTool, Serve, ToolDenied, ToolBudget, Challenged,
         PreparePayment, PaymentReady, PaymentInvalid, UpstreamReplies,
         PriorResult, UpstreamFailed, ToolSettles, ToolSettleThrows,
         ToolSettleRefused, ToolSettled, ToolPaid
  <1> QED
    BY <1>1, <1>2

LEMMA SystemNextIsStep == TypeOK /\ [SystemNext]_vars => Step
  <1> SUFFICES ASSUME TypeOK, [SystemNext]_vars
               PROVE  Step
    OBVIOUS
  <1>1. HttpReqs \subseteq Reqs /\ McpReqs \subseteq Reqs
    BY McpAssumption DEF HttpReqs
  <1>2. ASSUME NEW r \in HttpReqs, NEW k \in Keys, NEW o \in Offers[k],
               Turn(r), Arrive(r, k, o)
        PROVE  Next
    BY <1>1, <1>2 DEF Next
  <1>3. ASSUME NEW r \in McpReqs, NEW k \in Keys, NEW o \in Offers[k],
               Turn(r), CallTool(r, k, o)
        PROVE  Next
    BY <1>1, <1>3 DEF Next, CallTool
  <1>4. ASSUME NEW r \in HttpReqs, Turn(r), Serve(r)  PROVE Next
    BY <1>1, <1>4 DEF Next
  <1>5. ASSUME NEW r \in McpReqs, Turn(r), ServeTool(r)  PROVE Next \/ Loss
    BY <1>1, <1>5, ToolStep DEF Next
  <1>6. CASE Crash(HttpReqs) \/ Crash(McpReqs)
    BY <1>1, <1>6, CrashIsLoss DEF Step
  <1>7. ASSUME \/ \E c \in posted : SettlerExecutes(c)
               \/ \E r \in Reqs : BillingHears(r)
               \/ Tick
        PROVE  Next
    BY <1>7 DEF Next
  <1> QED
    BY <1>2, <1>3, <1>4, <1>5, <1>6, <1>7 DEF SystemNext, Step

-----------------------------------------------------------------------------
(* Safety of the system                                                    *)

(* The inductive invariant of the paywall holds of both servers together,  *)
(* although a rerun of the one's hook may free a key that the other has    *)
(* claimed: what is said of claims, receipts and charges is said of the    *)
(* other keys, and a freed key has come to both servers.                   *)
THEOREM SystemInvariant == SystemSpec => [](TypeOK /\ IndInv)
  <1>1. Init => TypeOK /\ IndInv
    BY InitTypeOK, InitClaimInv, InitRerunInv, InitCallInv, InitSettleInv DEF IndInv
  <1>2. TypeOK /\ IndInv /\ Step => (TypeOK /\ IndInv)'
    BY TypeStep, ClaimInvStep, RerunInvStep, CallInvStep, SettleInvStep DEF IndInv
  <1> QED
    BY <1>1, <1>2, SystemNextIsStep, PTL DEF SystemSpec

(* An HTTP request and a tool call never own one key together, unless a    *)
(* rerun has written over the pending row of the one.                      *)
THEOREM SystemClaimsAreExclusive == SystemSpec => []ExclusiveClaim
  <1>1. IndInv => ExclusiveClaim
    BY DEF IndInv, ClaimInv, ClaimInvOn, ExclusiveClaim
  <1> QED
    BY <1>1, SystemInvariant, PTL

(* A key stays in flight only for a request that a crash, or an upstream   *)
(* that could not be reached, has cut off.                                 *)
THEOREM SystemOnlyCutsStrand == SystemSpec => []PendingHasOwner
  <1>1. IndInv => PendingHasOwner
    BY DEF IndInv, ClaimInv, ClaimInvOn
  <1> QED
    BY <1>1, SystemInvariant, PTL

(* The two servers hand out one receipt for a key that is not freed, and   *)
(* none before the key is settled, ...                                     *)
THEOREM SystemReceiptsAreConsistent == SystemSpec => []ReceiptsAgree
  <1>1. IndInv => ReceiptsAgree
    BY DEF IndInv, ClaimInv, ClaimInvOn, ReceiptsAgree
  <1> QED
    BY <1>1, SystemInvariant, PTL

(* ... and the ledger's settlements are those that the settler executed.   *)
THEOREM SystemLedgerIsTruthful == SystemSpec => []SettledIsCharged
  <1>1. IndInv => SettledIsCharged
    BY DEF IndInv, ClaimInv, ClaimInvOn
  <1> QED
    BY <1>1, SystemInvariant, PTL

(* No tool call, as no request, is settled before its upstream's 2xx.      *)
THEOREM SystemSettlesOnlyAfter2xx == SystemSpec => []SettleOnlyAfter2xx
  <1>1. IndInv => SettleOnlyAfter2xx
    BY DEF IndInv, CallInv
  <1> QED
    BY <1>1, SystemInvariant, PTL

(* Billing hears of settled keys only, from either server.                 *)
THEOREM SystemWebhooksOnlySettled == SystemSpec => []WebhookOnlySettled
  <1>1. IndInv => WebhookOnlySettled
    BY DEF IndInv, CallInv
  <1> QED
    BY <1>1, SystemInvariant, PTL

(* A client that is served as paid, by either server, was charged.         *)
THEOREM SystemPaidIsCharged == SystemSpec => []PaidMeansCharged
  <1>1. TypeOK /\ IndInv => PaidMeansCharged
    BY PaidWasCharged DEF IndInv
  <1> QED
    BY <1>1, SystemInvariant, PTL

(* A key whose answers are not lost, and that no rerun frees, is charged   *)
(* once, whichever server its retries go to.                               *)
THEOREM SystemOneCharge == SystemSpec => []OneChargeUnlessLost
  <1>1. IndInv => OneChargeUnlessLost
    BY DEF IndInv, SettleInv, SettleInvOn, OneChargeUnlessLost
  <1> QED
    BY <1>1, SystemInvariant, PTL

-----------------------------------------------------------------------------
(* Steps of the system                                                     *)

(* Neither server ever changes a row that either has settled.              *)
THEOREM SystemSettledRowsAreFinal == SystemSpec => SettledIsFinal
  <1>1. TypeOK /\ Step =>
          [\A k \in Keys : ledger[k].status = "settled" => ledger'[k] = ledger[k]]_vars
    BY SettledRowsKept
  <1> QED
    BY <1>1, SystemInvariant, SystemNextIsStep, PTL DEF SystemSpec, SettledIsFinal

(* Neither server posts a settle call for a key that is settled, unless a  *)
(* rerun has freed it.                                                     *)
THEOREM SystemNoSecondSettle == SystemSpec => NoSettleAfterSettled
  <1> DEFINE A == \A k \in Keys \ freed : ledger[k].status = "settled" =>
                    \A c \in posted' : c.key = k => c \in posted
  <1>1. TypeOK /\ IndInv /\ Step => [A]_vars
    BY NoNewCalls DEF IndInv
  <1> QED
    BY <1>1, SystemInvariant, SystemNextIsStep, PTL DEF SystemSpec, NoSettleAfterSettled

(* Both servers together implement the lease of a key: an upstream that    *)
(* throws loses it, as a crash does, and does not give it back; the rerun  *)
(* that finds the other server's claim breaks it.                          *)
THEOREM SystemRefinement == SystemSpec => ImplementsLease
  <1>1. TypeOK /\ IndInv /\ Step => [Lease!Next]_(Lease!vars)
    BY LeaseStep DEF IndInv
  <1> QED
    BY <1>1, LeaseInit, SystemInvariant, SystemNextIsStep, PTL
       DEF SystemSpec, ImplementsLease, Lease!Spec
=============================================================================
