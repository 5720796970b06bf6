------------------------------ MODULE PaidMcp ------------------------------
(***************************************************************************)
(* The paid MCP server of packages/paymcp/src/mcp/server.ts, next to an    *)
(* HTTP paywall over the same ledger file and settler, each a process of   *)
(* its own.  A tool call goes through the payment as an HTTP request does, *)
(* so that its actions are those of Paywall for the requests of McpReqs,   *)
(* with what differs: a tool call pays by x402 only, it calls the upstream *)
(* itself, with a fetch that may throw, and it answers every error of the  *)
(* settler, so that nothing runs it again.                                 *)
(***************************************************************************)
EXTENDS Paywall

CONSTANTS
  McpReqs,       \* the tool calls; the other requests come over HTTP
  UpstreamDown   \* may callUpstream throw (no connection to the upstream)?

HttpReqs == Reqs \ McpReqs

ASSUME McpAssumption ==
  /\ McpReqs \subseteq Reqs
  /\ UpstreamDown \in BOOLEAN
  /\ Proc = [r \in Reqs |-> IF r \in McpReqs THEN "mcp" ELSE "http"]

-----------------------------------------------------------------------------
(* A tool call, from CallToolRequestSchema's handler on.                   *)

CallTool(r, k, o) == o.rail = "x402" /\ Arrive(r, k, o)

(* Not on the allowlist, or no tool of that name.                          *)
ToolDenied(r) == pc[r] = "hook" /\ Refuse(r)

ToolBudget(r) == CheckBudget(r)

(* preparePayment: a challenge, for no, an undecodable or a mismatched     *)
(* paymentSignature, ...                                                   *)
Challenged(r) == pc[r] = "admitted" /\ Refuse(r)

(* ... the claim and its three kinds, ...                                  *)
PreparePayment(r) == Claim(r)

(* ... then verify, whose failures all give the claim back.                *)
PaymentReady(r) == VerifyAccepts(r)

PaymentInvalid(r) == VerifyFails(r) /\ reply'[r] # "error"

UpstreamReplies(r, status) == HandlerReplies(r, status)

(* Mutant: the exception is caught and the claim given back.               *)
UpstreamThrowsCaught(r) ==
  /\ UpstreamDown
  /\ pc[r] = "handling"
  /\ IF receipt[r] = NoTx THEN Record(r, "failed", NoTx) ELSE UNCHANGED ledger
  /\ Finish(r, "502")
  /\ UNCHANGED <<key, offer, upstream, attempts, receipt, extVars, envVars>>

(* callUpstream throws: the tool call fails with the exception, and        *)
(* nothing is recorded for the key it has claimed.                         *)
UpstreamThrows(r) ==
  /\ UpstreamDown
  /\ pc[r] = "handling"
  /\ Cut({r})
  /\ UNCHANGED crashes

(* The key was settled before: its receipt goes with the upstream's reply. *)
PriorResult(r) == SendPrior(r)

UpstreamFailed(r) == ReleaseOnError(r)

ToolSettles(r) == PostSettle(r)

(* settle throws, whatever it throws: the key is given back.               *)
ToolSettleThrows(r) == SettleThrows(r)

ToolSettleRefused(r) == SettleRefused(r)

ToolSettled(r) == SettleSucceeds(r)

ToolPaid(r) == Notify(r)

ServeTool(r) ==
  \/ ToolDenied(r)
  \/ ToolBudget(r)
  \/ Challenged(r)
  \/ PreparePayment(r)
  \/ PaymentReady(r)
  \/ PaymentInvalid(r)
  \/ \E status \in {"2xx", "error"} : UpstreamReplies(r, status)
  \/ UpstreamThrows(r)
  \/ PriorResult(r)
  \/ UpstreamFailed(r)
  \/ ToolSettles(r)
  \/ SettleRetries(r)
  \/ ToolSettleThrows(r)
  \/ ToolSettleRefused(r)
  \/ ToolSettled(r)
  \/ ToolPaid(r)

-----------------------------------------------------------------------------
(* The two servers are two processes: each may stop without the other, and *)
(* the one goes on while the other is about to run its hook again.         *)
SystemNext ==
  \/ \E r \in HttpReqs, k \in Keys : \E o \in Offers[k] : Turn(r) /\ Arrive(r, k, o)
  \/ \E r \in McpReqs, k \in Keys : \E o \in Offers[k] : Turn(r) /\ CallTool(r, k, o)
  \/ \E r \in HttpReqs : Turn(r) /\ Serve(r)
  \/ \E r \in McpReqs : Turn(r) /\ ServeTool(r)
  \/ \E c \in posted : SettlerExecutes(c)
  \/ \E r \in Reqs : BillingHears(r)
  \/ Crash(HttpReqs)
  \/ Crash(McpReqs)
  \/ Tick

SystemSpec == Init /\ [][SystemNext]_vars

(* Neither server leaves a request alone, and every call to the settler    *)
(* ends: it is answered or given up on, which a settler that never ends    *)
(* the body of an answer can prevent (SettlerClient).  The settler need    *)
(* not act.                                                                *)
FairSystem ==
  /\ SystemSpec
  /\ \A r \in HttpReqs : WF_vars(Turn(r) /\ Serve(r))
  /\ \A r \in McpReqs : WF_vars(Turn(r) /\ ServeTool(r))
=============================================================================
