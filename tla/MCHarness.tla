----------------------------- MODULE MCHarness -----------------------------
(***************************************************************************)
(* Values for the constants of HarnessRules: two requests of one operation *)
(* and one of another.                                                     *)
(***************************************************************************)
EXTENDS HarnessRules, TLC

CONSTANTS o1, o2, c1, c2, c3, k1

OpOf == c1 :> o1 @@ c2 :> o1 @@ c3 :> o2

Raw(k, padded) == [key |-> k, padded |-> padded]

Response(c, s) == [type |-> "http_response", call |-> c, status |-> s]

Settle(c, k, success, after) ==
  [type |-> "settle", call |-> c, key |-> k, success |-> success, after |-> after]

Request(priced, k, secret) ==
  [type |-> "http_request", priced |-> priced, key |-> k, secret |-> secret]

Budget(spent, requested, allowed) ==
  [type |-> "budget_check", max |-> 2, spent |-> spent,
   requested |-> requested, allowed |-> allowed]

(* Both sides of 200 and 300, a padded key and a blank one.                *)
SomeEvents ==
  {Response(c, s) : c \in {c1, c2}, s \in {200, 300}}
  \cup {Response(c3, 199), Response(c3, 299)}
  \cup {Settle(c, Raw(k1, FALSE), TRUE, None) : c \in Calls}
  \cup {Settle(c1, Raw(k1, TRUE), TRUE, a) : a \in {200, 300}}
  \cup {Settle(c2, Raw(k1, FALSE), FALSE, None),
        Settle(c1, Raw(None, TRUE), TRUE, None), Settle(c1, None, FALSE, None)}
  \cup {Request(TRUE, Raw(None, FALSE), FALSE), Request(TRUE, Raw(k1, TRUE), TRUE),
        Request(FALSE, None, FALSE)}
  \cup {Budget(1, 1, TRUE), Budget(2, 1, TRUE), Budget(2, 1, FALSE)}
  \cup {[type |-> "log", secret |-> s] : s \in BOOLEAN}
=============================================================================
