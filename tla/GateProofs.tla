----------------------------- MODULE GateProofs -----------------------------
(***************************************************************************)
(* What RequestGate promises holds for any number of requests, addresses,  *)
(* nonces and configurations: its types, that it fails closed, the bounds  *)
(* of the rate limiter and of the budgets, and the rejection of replays.   *)
(***************************************************************************)
EXTENDS RequestGate, FiniteSetTheorems, SequenceTheorems, WellFoundedInduction, TLAPS

-----------------------------------------------------------------------------
(* The headers of a signature.                                             *)

(* Where every member is a TAP signature, the first one is picked.         *)
LEMMA FirstIsPicked ==
  ASSUME NEW s \in Signature, Parsed(s)
  PROVE  /\ Picked(s) = 1 /\ pickTapInput(s) = s.inputs[1]
         /\ s.inputs[1] \in Input /\ s.inputs[1].tag \in TapTags
         /\ \A n \in DOMAIN s.inputs : s.inputs[n].tag \in TapTags
<1>1. s.inputs \in Seq(Input) /\ s.inputs # <<>>
  BY DEF Signature, Parsed, parseSignatureInputHeader
<1>2. 1 \in DOMAIN s.inputs /\ \A n \in DOMAIN s.inputs : n \in Nat /\ n >= 1
  BY <1>1
<1>3. \A n \in DOMAIN s.inputs : s.inputs[n].tag \in TapTags
  BY DEF Parsed, parseSignatureInputHeader, WellFormed
<1>4. {n \in DOMAIN s.inputs : s.inputs[n].tag \in TapTags} = DOMAIN s.inputs
  BY <1>3
<1>5. Picked(s) = CHOOSE n \in DOMAIN s.inputs : \A m \in DOMAIN s.inputs : n <= m
  BY <1>4 DEF Picked
<1>6. Picked(s) = 1
  BY <1>2, <1>5
<1>7. QED
  BY <1>1, <1>2, <1>3, <1>6 DEF pickTapInput

-----------------------------------------------------------------------------
(* Where a request is, and what it has shown by then.                      *)

Places == {"idle", "looking", "gate", "admitted", "paying"} \cup Answers

(* TypeOK but for the nonce cache.                                         *)
Typed ==
  /\ config \in Configs /\ now \in Nat
  /\ pc \in [Reqs -> Places]
  /\ req \in [Reqs -> Arrivals]
  /\ tap \in [Reqs -> BOOLEAN]
  /\ rail \in [Reqs -> {None, "x402", "visa"}]
  /\ passed \in [Reqs -> Nat \cup {None}]
  /\ hits \in [Addrs \X Ops -> [count : Nat, resetAt : Nat]]
  /\ settled \subseteq Reqs

NoncesTyped == nonces \in Seq(Entry) /\ Len(nonces) <= MaxEntries

(* The header for the rail it pays on says what the server asks for.       *)
HeaderMatches(r) ==
  /\ rail[r] = "visa" => req[r].visa # None /\ req[r].visa.amount
  /\ rail[r] # "visa" => req[r].x402 # None /\ req[r].x402.amount /\ req[r].x402.terms

FlowRow(r) ==
  /\ pc[r] = "looking" =>
       config.tapKeys /\ req[r].sig # None /\ Parsed(req[r].sig)
  /\ pc[r] \in {"idle", "looking", "gate", "admitted"} =>
       rail[r] = None /\ passed[r] = None
  /\ pc[r] \notin {"idle", "looking", "401", "500"} =>
       tap[r] \/ (req[r].sig = None /\ ~ config.tapRequired) \/ ~ config.tapKeys
  /\ tap[r] =>
       /\ pc[r] \notin {"idle", "looking"}
       /\ req[r].sig # None /\ Parsed(req[r].sig)
       /\ pickTapInput(req[r].sig).genuine
       /\ pickTapInput(req[r].sig).tag \in config.tags
  /\ config.rail = "auto" /\ rail[r] = "visa" => tap[r]
  /\ pc[r] \in {"paying", "paid"} => HeaderMatches(r)
  /\ r \in settled <=> pc[r] = "paid"

FlowInv == \A r \in Reqs : FlowRow(r)

(* A step of r is about the row of r alone.                                *)
Elsewhere(r) ==
  /\ config' = config /\ now' = now
  /\ \A q \in Reqs : q # r =>
       /\ pc'[q] = pc[q] /\ req'[q] = req[q] /\ tap'[q] = tap[q]
       /\ rail'[q] = rail[q] /\ passed'[q] = passed[q]
       /\ (q \in settled' <=> q \in settled)

Act(r) ==
  \/ \E q \in Arrivals : Arrive(r, q)
  \/ Reject(r) \/ LookupThrows(r) \/ Recognise(r)
  \/ CheckControls(r) \/ Pass(r) \/ RateLimit(r) \/ Pay(r)

LEMMA ActMoves ==
  ASSUME Typed, NEW r \in Reqs, Act(r)
  PROVE  Elsewhere(r)
<1>1. ASSUME NEW q \in Arrivals, Arrive(r, q)
      PROVE  Elsewhere(r)
  BY <1>1 DEF Arrive, Unhooked, Unsigned, Signed, Goto, Elsewhere, Typed
<1>2. CASE Reject(r) \/ LookupThrows(r) \/ RateLimit(r) \/ CheckControls(r)
  <2>1. /\ \E place : Goto(r, place)
        /\ UNCHANGED <<config, now, req, tap, rail, passed, settled>>
    BY <1>2 DEF Reject, LookupThrows, RateLimit, CheckControls
  <2>2. QED
    BY <2>1 DEF Goto, Elsewhere, Typed
<1>3. CASE Recognise(r)
  <2>1. /\ \E place : Goto(r, place)
        /\ tap' = tap \/ tap' = [tap EXCEPT ![r] = TRUE]
        /\ UNCHANGED <<config, now, req, rail, passed, settled>>
    BY <1>3 DEF Recognise
  <2>2. QED
    BY <2>1 DEF Goto, Elsewhere, Typed
<1>4. CASE Pass(r)
  <2>1. /\ \E place : Goto(r, place)
        /\ \E chosen : rail' = [rail EXCEPT ![r] = chosen]
        /\ passed' = [passed EXCEPT ![r] = now]
        /\ UNCHANGED <<config, now, req, tap, settled>>
    BY <1>4 DEF Pass
  <2>2. QED
    BY <2>1 DEF Goto, Elsewhere, Typed
<1>5. CASE Pay(r)
  <2>1. /\ \E place : Goto(r, place)
        /\ settled' = settled \/ settled' = settled \cup {r}
        /\ UNCHANGED <<config, now, req, tap, rail, passed>>
    BY <1>5 DEF Pay
  <2>2. QED
    BY <2>1 DEF Goto, Elsewhere, Typed
<1>6. QED
  BY <1>1, <1>2, <1>3, <1>4, <1>5 DEF Act

LEMMA RequestsTyped ==
  ASSUME Typed, NEW r \in Reqs
  PROVE  /\ req[r] \in Request /\ (req[r].sig # None => req[r].sig \in Signature)
         /\ req[r].x402 # None => req[r].x402 \in Payment
         /\ req[r].visa # None => req[r].visa \in Payment
         /\ req[r].addr \in Addrs /\ req[r].op \in Ops
  BY GateAssumption DEF Typed, Request

LEMMA ConfigTyped ==
  ASSUME Typed
  PROVE  config \in Config /\ config.rail \in {"x402", "visa", "auto"}
         /\ config.rateMax \in Nat /\ config.visa \in BOOLEAN
  BY GateAssumption DEF Typed, Config

(* resolveSettlementRail: without a Visa settler the rail is not chosen,   *)
(* and with `auto' a request that is not recognised pays by x402.          *)
LEMMA RailIs ==
  ASSUME Typed, NEW t \in BOOLEAN
  PROVE  LET chosen == resolveSettlementRail(config, t)
         IN  /\ chosen \in {None, "x402", "visa"}
             /\ config.rail = "auto" /\ chosen = "visa" => t
  BY ConfigTyped DEF resolveSettlementRail

(* Where the rail and the payment header take a request.                   *)
Turn(r, chosen) ==
  CASE chosen = None   -> "503"
    [] chosen = "x402" -> PresentX402(req[r].x402)
    [] chosen = "visa" -> PresentVisa(req[r].visa)

LEMMA TurnIs ==
  ASSUME Typed, NEW r \in Reqs, NEW chosen \in {None, "x402", "visa"}
  PROVE  /\ Turn(r, chosen) \in {"503", "402", "400", "paying"}
         /\ Turn(r, chosen) = "paying" =>
              \/ /\ chosen = "visa" /\ req[r].visa # None /\ req[r].visa.amount
              \/ /\ chosen = "x402" /\ req[r].x402 # None
                 /\ req[r].x402.amount /\ req[r].x402.terms
<1>1. None # "x402" /\ None # "visa"
  BY GateAssumption
<1>2. CASE chosen = None
  BY <1>1, <1>2 DEF Turn
<1>3. CASE chosen = "x402"
  <2>1. Turn(r, chosen) = PresentX402(req[r].x402)
    BY <1>1, <1>3 DEF Turn
  <2>2. QED
    BY <1>3, <2>1 DEF PresentX402, acceptMatches
<1>4. CASE chosen = "visa"
  <2>1. Turn(r, chosen) = PresentVisa(req[r].visa)
    BY <1>1, <1>4 DEF Turn
  <2>2. QED
    BY <1>4, <2>1 DEF PresentVisa
<1>5. QED
  BY <1>2, <1>3, <1>4

LEMMA GotoTyped ==
  ASSUME Typed, NEW r \in Reqs, NEW place \in Places, Goto(r, place)
  PROVE  pc' \in [Reqs -> Places] /\ pc'[r] = place
  BY DEF Goto, Typed

LEMMA ArriveRow ==
  ASSUME Typed, NEW r \in Reqs, FlowRow(r), NEW q \in Arrivals, Arrive(r, q)
  PROVE  Typed' /\ FlowRow(r)'
<1>1. /\ UNCHANGED <<config, now, tap, rail, passed, hits, settled>>
      /\ req' = [req EXCEPT ![r] = q] /\ pc[r] = "idle"
      /\ \E place \in {"gate", "401", "looking"} :
           /\ Goto(r, place)
           /\ place = "gate" => ~ config.tapKeys \/ (q.sig = None /\ ~ config.tapRequired)
           /\ place = "looking" => config.tapKeys /\ q.sig # None /\ Parsed(q.sig)
  BY DEF Arrive, Unhooked, Unsigned, Signed
<1>2. PICK place \in {"gate", "401", "looking"} :
        /\ Goto(r, place)
        /\ place = "gate" => ~ config.tapKeys \/ (q.sig = None /\ ~ config.tapRequired)
        /\ place = "looking" => config.tapKeys /\ q.sig # None /\ Parsed(q.sig)
  BY <1>1
<1>3. pc'[r] = place /\ req'[r] = q /\ pc' \in [Reqs -> Places] /\ req' \in [Reqs -> Arrivals]
  BY <1>1, <1>2 DEF Goto, Typed, Places, Answers
<1>4. Typed'
  BY <1>1, <1>3 DEF Typed
<1>5. tap[r] = FALSE /\ ~ r \in settled /\ rail[r] = None
  BY <1>1 DEF FlowRow, Typed
<1>6. FlowRow(r)'
  BY <1>1, <1>2, <1>3, <1>5, GateAssumption DEF FlowRow
<1>7. QED
  BY <1>4, <1>6

LEMMA RecogniseRow ==
  ASSUME Typed, NEW r \in Reqs, FlowRow(r), Recognise(r)
  PROVE  Typed' /\ FlowRow(r)'
<1> DEFINE input == pickTapInput(req[r].sig)
<1>1. /\ UNCHANGED <<config, now, req, rail, passed, hits, settled>> /\ pc[r] = "looking"
      /\ input.genuine
      /\ \/ Goto(r, "gate") /\ tap' = [tap EXCEPT ![r] = TRUE] /\ input.tag \in config.tags
         \/ Goto(r, "401") /\ UNCHANGED tap
  BY DEF Recognise
<1> HIDE DEF input
<1>2. CASE Goto(r, "gate") /\ tap' = [tap EXCEPT ![r] = TRUE] /\ input.tag \in config.tags
  <2>1. /\ pc'[r] = "gate" /\ tap'[r] = TRUE
        /\ pc' \in [Reqs -> Places] /\ tap' \in [Reqs -> BOOLEAN]
    BY <1>2 DEF Goto, Typed, Places
  <2>2. Typed'
    BY <1>1, <2>1 DEF Typed
  <2>3. FlowRow(r)'
    BY <1>1, <1>2, <2>1 DEF FlowRow, input
  <2>4. QED
    BY <2>2, <2>3
<1>3. CASE Goto(r, "401") /\ UNCHANGED tap
  <2>1. pc'[r] = "401" /\ pc' \in [Reqs -> Places]
    BY <1>3 DEF Goto, Typed, Places, Answers
  <2>2. Typed'
    BY <1>1, <1>3, <2>1 DEF Typed
  <2>3. FlowRow(r)'
    BY <1>1, <1>3, <2>1 DEF FlowRow, HeaderMatches
  <2>4. QED
    BY <2>2, <2>3
<1>4. QED
  BY <1>1, <1>2, <1>3

LEMMA TurnedAwayRow ==
  ASSUME Typed, NEW r \in Reqs, FlowRow(r),
         Reject(r) \/ LookupThrows(r) \/ CheckControls(r) \/ RateLimit(r)
  PROVE  Typed' /\ FlowRow(r)'
<1>1. /\ UNCHANGED <<config, now, req, tap, rail, passed, hits, settled>>
      /\ \/ pc[r] = "looking" /\ (Goto(r, "401") \/ Goto(r, "500"))
         \/ pc[r] = "admitted" /\ Goto(r, "429 rate")
         \/ CheckControls(r)
  BY DEF Reject, LookupThrows, RateLimit, CheckControls
<1>2. CheckControls(r) =>
        pc[r] = "gate" /\ \E place \in {"403", "free", "admitted", "429 budget"} : Goto(r, place)
  BY DEF CheckControls
<1>3. PICK place \in {"401", "500", "429 rate", "403", "free", "admitted", "429 budget"} :
        /\ Goto(r, place)
        /\ \/ pc[r] = "looking" /\ place \in {"401", "500"}
           \/ pc[r] = "admitted" /\ place = "429 rate"
           \/ pc[r] = "gate" /\ place \notin {"401", "500"}
  <2>1. CASE pc[r] = "looking" /\ (Goto(r, "401") \/ Goto(r, "500"))
    BY <2>1
  <2>2. CASE pc[r] = "admitted" /\ Goto(r, "429 rate")
    BY <2>2
  <2>3. CASE CheckControls(r)
    BY <1>2, <2>3
  <2>4. QED
    BY <1>1, <2>1, <2>2, <2>3
<1>4. pc'[r] = place /\ pc' \in [Reqs -> Places]
  BY <1>3 DEF Goto, Typed, Places, Answers
<1>5. Typed'
  BY <1>1, <1>4 DEF Typed
<1>6. FlowRow(r)'
  BY <1>1, <1>3, <1>4 DEF FlowRow, HeaderMatches
<1>7. QED
  BY <1>5, <1>6

LEMMA AllowTyped ==
  ASSUME Typed, NEW h \in Addrs \X Ops, Allow(h)
  PROVE  hits' \in [Addrs \X Ops -> [count : Nat, resetAt : Nat]]
<1>1. hits[h].count \in Nat /\ hits[h].resetAt \in Nat
  BY DEF Typed
<1>2. CASE now >= hits[h].resetAt
  BY <1>2, GateAssumption DEF Allow, Typed
<1>3. CASE ~ now >= hits[h].resetAt
  <2>1. hits' = [hits EXCEPT ![h] = [hits[h] EXCEPT !.count = hits[h].count + 1]]
    BY <1>3 DEF Allow
  <2>2. [hits[h] EXCEPT !.count = hits[h].count + 1] \in [count : Nat, resetAt : Nat]
    BY <1>1 DEF Typed
  <2>3. QED
    BY <2>1, <2>2 DEF Typed
<1>4. QED
  BY <1>2, <1>3

LEMMA PassRow ==
  ASSUME Typed, NEW r \in Reqs, FlowRow(r), Pass(r)
  PROVE  Typed' /\ FlowRow(r)'
<1> DEFINE chosen == resolveSettlementRail(config, tap[r])
<1>1. /\ UNCHANGED <<config, now, req, tap, nonces, settled>> /\ pc[r] = "admitted"
      /\ UNCHANGED hits \/ Allow(<<req[r].addr, req[r].op>>)
      /\ rail' = [rail EXCEPT ![r] = chosen] /\ passed' = [passed EXCEPT ![r] = now]
      /\ Goto(r, Turn(r, chosen))
  BY DEF Pass, Turn
<1>2. chosen \in {None, "x402", "visa"} /\ (config.rail = "auto" /\ chosen = "visa" => tap[r])
  BY RailIs DEF Typed
<1> HIDE DEF chosen
<1>3. /\ pc'[r] = Turn(r, chosen) /\ rail'[r] = chosen
      /\ pc' \in [Reqs -> Places] /\ rail' \in [Reqs -> {None, "x402", "visa"}]
      /\ passed' \in [Reqs -> Nat \cup {None}]
  <2>1. Turn(r, chosen) \in Places
    BY <1>2, TurnIs DEF Places, Answers
  <2>2. QED
    BY <1>1, <1>2, <2>1, GotoTyped DEF Typed
<1>4. Typed'
  BY <1>1, <1>3, RequestsTyped, AllowTyped DEF Typed
<1>5. FlowRow(r)'
  <2>1. pc'[r] \in {"503", "402", "400", "paying"} /\ pc[r] = "admitted"
    BY <1>1, <1>2, <1>3, TurnIs
  <2>2. pc'[r] = "paying" => HeaderMatches(r)'
    BY <1>1, <1>2, <1>3, TurnIs DEF HeaderMatches
  <2>3. QED
    BY <1>1, <1>2, <1>3, <2>1, <2>2 DEF FlowRow
<1>6. QED
  BY <1>4, <1>5

LEMMA PayRow ==
  ASSUME Typed, NEW r \in Reqs, FlowRow(r), Pay(r)
  PROVE  Typed' /\ FlowRow(r)'
<1>1. /\ UNCHANGED <<config, now, req, tap, rail, passed, hits>> /\ pc[r] = "paying"
      /\ \/ Goto(r, "paid") /\ settled' = settled \cup {r}
         \/ Goto(r, "unpaid") /\ UNCHANGED settled
  BY DEF Pay
<1>2. /\ pc' \in [Reqs -> Places] /\ settled' \subseteq Reqs
      /\ \/ pc'[r] = "paid" /\ r \in settled'
         \/ pc'[r] = "unpaid" /\ settled' = settled
  <2>1. "paid" \in Places /\ "unpaid" \in Places
    BY DEF Places, Answers
  <2>2. QED
    BY <1>1, <2>1, GotoTyped DEF Typed
<1>3. Typed'
  BY <1>1, <1>2 DEF Typed
<1>4. FlowRow(r)'
  BY <1>1, <1>2 DEF FlowRow, HeaderMatches
<1>5. QED
  BY <1>3, <1>4

LEMMA ActRow ==
  ASSUME Typed, NEW r \in Reqs, FlowRow(r), Act(r)
  PROVE  Typed' /\ FlowRow(r)'
  BY ArriveRow, RecogniseRow, TurnedAwayRow, PassRow, PayRow DEF Act

(* The rows of the others do not change with that of r.                    *)
LEMMA OtherRow ==
  ASSUME Typed, NEW r \in Reqs, Elsewhere(r), NEW q \in Reqs, q # r, FlowRow(q)
  PROVE  FlowRow(q)'
<1>1. /\ UNCHANGED <<config, pc[q], req[q], tap[q], rail[q], passed[q]>>
      /\ (q \in settled' <=> q \in settled)
  BY DEF Elsewhere
<1>2. QED
  BY <1>1 DEF FlowRow, HeaderMatches

LEMMA FlowInit ==
  ASSUME Init
  PROVE  Typed /\ FlowInv
<1>1. (CHOOSE q \in Arrivals : TRUE) \in Arrivals
  BY GateAssumption
<1>2. Typed
  BY <1>1 DEF Init, Typed, Places
<1>3. FlowInv
  BY GateAssumption DEF Init, FlowInv, FlowRow
<1>4. QED
  BY <1>2, <1>3

LEMMA FlowStep ==
  ASSUME Typed, FlowInv, [Next]_vars
  PROVE  Typed' /\ FlowInv'
<1>1. ASSUME NEW r \in Reqs, Act(r)
      PROVE  Typed' /\ FlowInv'
  BY <1>1, ActMoves, ActRow, OtherRow DEF FlowInv
<1>2. CASE Tick \/ UNCHANGED vars
  <2>1. UNCHANGED <<config, pc, req, tap, rail, passed, hits, settled>> /\ now' \in Nat
    BY <1>2 DEF Tick, vars, Typed
  <2>2. QED
    BY <2>1 DEF Typed, FlowInv, FlowRow, HeaderMatches
<1>3. QED
  BY <1>1, <1>2 DEF Next, Act

(* In every state, where a request is tells what it has shown so far to    *)
(* the TAP hook and to the paywall's.                                      *)
THEOREM FlowInvariant == Spec => [](Typed /\ FlowInv)
  BY FlowInit, FlowStep, PTL DEF Spec

LEMMA FlowFailsClosed ==
  ASSUME Typed, FlowInv
  PROVE  FailsClosed
<1> SUFFICES ASSUME NEW r \in Reqs
             PROVE  /\ tap[r] => /\ \A n \in DOMAIN req[r].sig.inputs :
                                      req[r].sig.inputs[n].tag \in TapTags
                                 /\ req[r].sig.inputs[1].genuine
                                 /\ req[r].sig.inputs[1].tag \in config.tags
                    /\ pc[r] \notin {"idle", "looking", "401", "500"} =>
                         tap[r] \/ (req[r].sig = None /\ ~ config.tapRequired)
                           \/ ~ config.tapKeys
                    /\ config.rail = "auto" /\ rail[r] = "visa" => tap[r]
                    /\ r \in settled => IF rail[r] = "visa" THEN req[r].visa.amount
                                        ELSE req[r].x402.amount /\ req[r].x402.terms
  BY DEF FailsClosed
<1>1. FlowRow(r)
  BY DEF FlowInv
<1>2. tap[r] => req[r].sig \in Signature /\ Parsed(req[r].sig)
  BY <1>1, RequestsTyped DEF FlowRow
<1>3. tap[r] => /\ pickTapInput(req[r].sig) = req[r].sig.inputs[1]
                /\ \A n \in DOMAIN req[r].sig.inputs : req[r].sig.inputs[n].tag \in TapTags
  BY <1>2, FirstIsPicked
<1>4. QED
  BY <1>1, <1>3 DEF FlowRow, HeaderMatches

(* Whoever gets past the TAP hook is recognised by a genuine signature of  *)
(* an accepted kind, or has shown none and need not: for every set of      *)
(* requests, signatures and configurations.                                *)
THEOREM GateFailsClosed == Spec => []FailsClosed
  BY FlowInvariant, FlowFailsClosed, PTL

-----------------------------------------------------------------------------
(* The nonce cache: a map, in the order of insertion.                      *)

Distinct(cache) == \A i, j \in DOMAIN cache : cache[i].nonce = cache[j].nonce => i = j

(* Every entry of cache but those of nonce is in later.                    *)
Keeps(cache, later, nonce) ==
  \A i \in DOMAIN cache : cache[i].nonce # nonce =>
    \E j \in DOMAIN later : later[j] = cache[i]

LEMMA WithoutIs ==
  ASSUME NoncesTyped, NEW nonce
  PROVE  /\ Without(nonce) \in Seq(Entry) /\ Len(Without(nonce)) <= Len(nonces)
         /\ Keeps(nonces, Without(nonce), nonce)
         /\ Distinct(nonces) => /\ Distinct(Without(nonce))
                                /\ \A j \in DOMAIN Without(nonce) :
                                     Without(nonce)[j].nonce # nonce
<1>1. CASE Known(nonce) = {}
  BY <1>1 DEF Without, Keeps, NoncesTyped, Known
<1>2. CASE Known(nonce) # {}
  <2> DEFINE at == CHOOSE i \in Known(nonce) : TRUE
             before == SubSeq(nonces, 1, at - 1)
             after == SubSeq(nonces, at + 1, Len(nonces))
             cache == before \o after
  <2>1. at \in 1 .. Len(nonces) /\ nonces[at].nonce = nonce
    BY <1>2 DEF Known, NoncesTyped
  <2>2. Without(nonce) = cache
    BY <1>2 DEF Without
  <2> HIDE DEF at
  <2>3. /\ before \in Seq(Entry) /\ Len(before) = at - 1
        /\ \A i \in 1 .. at - 1 : before[i] = nonces[i]
    BY <2>1, SubSeqProperties DEF NoncesTyped
  <2>4. /\ after \in Seq(Entry) /\ Len(after) = Len(nonces) - at
        /\ \A i \in 1 .. Len(nonces) - at : after[i] = nonces[at + i]
    <3>1. /\ after \in Seq(Entry)
          /\ Len(after) = IF at + 1 <= Len(nonces) THEN Len(nonces) - (at + 1) + 1 ELSE 0
          /\ \A i \in 1 .. Len(nonces) - (at + 1) + 1 : after[i] = nonces[at + 1 + i - 1]
      BY <2>1, SubSeqProperties DEF NoncesTyped
    <3>2. QED
      BY <2>1, <3>1 DEF NoncesTyped
  <2> HIDE DEF before, after
  <2>5. /\ cache \in Seq(Entry) /\ Len(cache) = Len(nonces) - 1
        /\ \A j \in 1 .. Len(nonces) - 1 :
             cache[j] = IF j < at THEN nonces[j] ELSE nonces[j + 1]
    <3>1. /\ cache \in Seq(Entry) /\ Len(cache) = Len(before) + Len(after)
          /\ \A j \in 1 .. Len(before) + Len(after) :
               cache[j] = IF j <= Len(before) THEN before[j] ELSE after[j - Len(before)]
      BY <2>3, <2>4, ConcatProperties
    <3>2. Len(nonces) \in Nat /\ Len(before) + Len(after) = Len(nonces) - 1
      BY <2>1, <2>3, <2>4 DEF NoncesTyped
    <3> HIDE DEF cache
    <3>3. ASSUME NEW j \in 1 .. Len(nonces) - 1
          PROVE  cache[j] = IF j < at THEN nonces[j] ELSE nonces[j + 1]
      <4>1. CASE j < at
        BY <2>1, <2>3, <3>1, <3>2, <4>1
      <4>2. CASE ~ j < at
        <5>1. j - (at - 1) \in 1 .. Len(nonces) - at /\ at + (j - (at - 1)) = j + 1
          BY <2>1, <3>2, <4>2
        <5>2. cache[j] = after[j - (at - 1)]
          BY <2>1, <2>3, <3>1, <3>2, <4>2
        <5>3. QED
          BY <2>4, <4>2, <5>1, <5>2
      <4>3. QED
        BY <4>1, <4>2
    <3>4. QED
      BY <3>1, <3>2, <3>3
  <2> HIDE DEF cache
  <2>6. Keeps(nonces, cache, nonce)
    <3> SUFFICES ASSUME NEW i \in DOMAIN nonces, nonces[i].nonce # nonce
                 PROVE  \E j \in DOMAIN cache : cache[j] = nonces[i]
      BY DEF Keeps
    <3>1. i \in 1 .. Len(nonces) /\ i # at
      BY <2>1 DEF NoncesTyped
    <3>2. CASE i < at
      BY <2>1, <2>5, <3>1, <3>2
    <3>3. CASE i > at
      <4>1. i - 1 \in 1 .. Len(nonces) - 1 /\ ~ (i - 1 < at) /\ (i - 1) + 1 = i
        BY <2>1, <3>1, <3>3
      <4>2. QED
        BY <2>5, <4>1
    <3>4. QED
      BY <2>1, <3>1, <3>2, <3>3
  <2>7. ASSUME Distinct(nonces)
        PROVE  Distinct(cache) /\ \A j \in DOMAIN cache : cache[j].nonce # nonce
    <3>1. \A j \in DOMAIN cache :
            \E i \in DOMAIN nonces \ {at} :
              cache[j] = nonces[i] /\ i = (IF j < at THEN j ELSE j + 1)
      BY <2>1, <2>5 DEF NoncesTyped
    <3>2. \A j \in DOMAIN cache : j \in Nat
      BY <2>5
    <3>3. Distinct(cache)
      BY <2>1, <2>7, <3>1, <3>2 DEF Distinct
    <3>4. \A j \in DOMAIN cache : cache[j].nonce # nonce
      BY <2>1, <2>7, <3>1 DEF Distinct, NoncesTyped
    <3>5. QED
      BY <3>3, <3>4
  <2>8. QED
    BY <2>2, <2>5, <2>6, <2>7 DEF NoncesTyped
<1>3. QED
  BY <1>1, <1>2

LEMMA RememberIs ==
  ASSUME NoncesTyped, NEW nonce \in Nonces, NEW expires \in Nat
  PROVE  LET cache == rememberNonce(nonce, expires)
         IN  /\ cache \in Seq(Entry) /\ Len(cache) <= MaxEntries
             /\ Len(cache) <= Len(nonces) + 1
             /\ \E j \in DOMAIN cache : cache[j] = [nonce |-> nonce, expires |-> expires]
             /\ Len(nonces) < MaxEntries => Keeps(nonces, cache, nonce)
             /\ Distinct(nonces) => Distinct(cache)
<1> DEFINE kept == IF Len(nonces) >= MaxEntries THEN Tail(nonces) ELSE nonces
           e == [nonce |-> nonce, expires |-> expires]
           known == {i \in DOMAIN kept : kept[i].nonce = nonce}
           cache == rememberNonce(nonce, expires)
<1>1. cache = IF known = {} THEN Append(kept, e)
              ELSE [kept EXCEPT ![CHOOSE i \in known : TRUE] = e]
  BY DEF rememberNonce
<1>2. /\ kept \in Seq(Entry) /\ Len(kept) < MaxEntries /\ Len(kept) <= Len(nonces)
      /\ Len(nonces) < MaxEntries => kept = nonces
      /\ Distinct(nonces) => Distinct(kept)
  <2>1. CASE Len(nonces) >= MaxEntries
    <3>1. nonces \in Seq(Entry) /\ nonces # <<>> /\ Len(nonces) = MaxEntries
      BY <2>1, GateAssumption DEF NoncesTyped
    <3>2. /\ kept \in Seq(Entry) /\ Len(kept) = Len(nonces) - 1
          /\ \A i \in 1 .. Len(kept) : kept[i] = nonces[i + 1]
      BY <2>1, <3>1, HeadTailProperties
    <3>3. Distinct(nonces) => Distinct(kept)
      <4> HIDE DEF kept
      <4>1. DOMAIN kept = 1 .. Len(kept) /\ DOMAIN nonces = 1 .. Len(nonces)
            /\ Len(nonces) \in Nat
        BY <3>1, <3>2
      <4>2. SUFFICES ASSUME Distinct(nonces), NEW i \in 1 .. Len(kept), NEW j \in 1 .. Len(kept),
                            kept[i].nonce = kept[j].nonce
                     PROVE  i = j
        BY <4>1 DEF Distinct
      <4>3. i + 1 \in DOMAIN nonces /\ j + 1 \in DOMAIN nonces
            /\ kept[i] = nonces[i + 1] /\ kept[j] = nonces[j + 1]
        BY <3>2, <4>1
      <4>4. i + 1 = j + 1
        BY <4>2, <4>3 DEF Distinct
      <4>5. QED
        BY <4>4
    <3>4. QED
      BY <2>1, <3>1, <3>2, <3>3, GateAssumption
  <2>2. CASE ~ Len(nonces) >= MaxEntries
    BY <2>2, GateAssumption DEF NoncesTyped
  <2>3. QED
    BY <2>1, <2>2
<1> HIDE DEF cache, kept
<1>3. e \in Entry /\ e.nonce = nonce
  BY DEF Entry
<1>4. CASE known = {}
  <2>1. /\ cache \in Seq(Entry) /\ Len(cache) = Len(kept) + 1
        /\ cache[Len(kept) + 1] = e /\ \A i \in 1 .. Len(kept) : cache[i] = kept[i]
    BY <1>1, <1>2, <1>3, <1>4
  <2>2. DOMAIN cache = 1 .. Len(kept) + 1 /\ DOMAIN kept = 1 .. Len(kept) /\ Len(kept) \in Nat
    BY <1>2, <2>1
  <2>3. Keeps(kept, cache, nonce)
    BY <2>1, <2>2 DEF Keeps
  <2>4. Distinct(kept) => Distinct(cache)
    <3>1. \A i \in 1 .. Len(kept) : cache[i].nonce # nonce
      BY <1>4, <2>1, <2>2
    <3>2. QED
      BY <1>3, <2>1, <2>2, <3>1 DEF Distinct
  <2>5. \E j \in DOMAIN cache : cache[j] = e
    BY <2>1, <2>2
  <2>6. QED
    BY <1>2, <2>1, <2>3, <2>4, <2>5, GateAssumption DEF NoncesTyped, cache
<1>5. CASE known # {}
  <2>1. PICK at \in known : cache = [kept EXCEPT ![at] = e]
    BY <1>1, <1>5
  <2>2. at \in DOMAIN kept /\ kept[at].nonce = nonce
    OBVIOUS
  <2>3. /\ cache \in Seq(Entry) /\ Len(cache) = Len(kept) /\ DOMAIN cache = DOMAIN kept
        /\ cache[at] = e /\ \A i \in DOMAIN kept : i # at => cache[i] = kept[i]
    BY <1>2, <1>3, <2>1, <2>2
  <2> HIDE DEF known
  <2>4. Keeps(kept, cache, nonce)
    BY <2>2, <2>3 DEF Keeps
  <2>5. Distinct(kept) => Distinct(cache)
    BY <1>3, <2>2, <2>3 DEF Distinct
  <2>6. QED
    BY <1>2, <2>2, <2>3, <2>4, <2>5, GateAssumption DEF NoncesTyped, cache
<1>6. QED
  BY <1>4, <1>5

-----------------------------------------------------------------------------
(* What the cache remembers.                                               *)

Presented(r) == pickTapInput(req[r].sig)

(* The requests whose signature has been judged: one entry for each, at    *)
(* most.                                                                   *)
Judged == {r \in Reqs : pc[r] \notin {"idle", "looking"} /\ req[r].sig # None}

(* The nonce of q is remembered until the signature of q ends, as long as  *)
(* no other request can have replaced or evicted it.                       *)
Held(q) ==
  \/ \E j \in DOMAIN nonces : nonces[j] = [nonce   |-> Presented(q).nonce,
                                           expires |-> Presented(q).expires]
  \/ Presented(q).expires < now

NonceInv ==
  /\ NoncesTyped /\ Distinct(nonces)
  /\ IsFiniteSet(HaveSigned) /\ Len(nonces) <= Cardinality(Judged)
  /\ \A q \in Reqs : /\ tap[q] /\ Remembered(Presented(q).nonce) = {q}
                     /\ Cardinality(HaveSigned) <= MaxEntries
                     => Held(q)

(* A request shows its signature once, and is judged once.                 *)
Onward(r) ==
  /\ pc[r] \notin Answers /\ pc'[r] # "idle"
  /\ pc[r] # "idle" => req'[r] = req[r] /\ pc'[r] # "looking"
  /\ tap[r] => tap'[r]

LEMMA ActOnward ==
  ASSUME Typed, NEW r \in Reqs, Act(r)
  PROVE  Onward(r)
<1>1. ASSUME NEW q \in Arrivals, Arrive(r, q)
      PROVE  Onward(r)
  BY <1>1 DEF Arrive, Unhooked, Unsigned, Signed, Goto, Onward, Typed, Answers
<1>2. ASSUME pc[r] \in {"looking", "gate", "admitted", "paying"}, UNCHANGED req,
             NEW place \in Places \ {"idle", "looking"}, Goto(r, place),
             UNCHANGED tap \/ tap' = [tap EXCEPT ![r] = TRUE]
      PROVE  Onward(r)
  BY <1>2 DEF Goto, Onward, Typed, Answers
<1>3. CASE Recognise(r)
  <2>1. /\ pc[r] = "looking" /\ UNCHANGED req
        /\ Goto(r, "gate") \/ Goto(r, "401")
        /\ UNCHANGED tap \/ tap' = [tap EXCEPT ![r] = TRUE]
    BY <1>3 DEF Recognise
  <2>2. QED
    BY <1>2, <2>1 DEF Places, Answers
<1>4. CASE Reject(r) \/ LookupThrows(r) \/ RateLimit(r)
  <2>1. /\ pc[r] \in {"looking", "admitted"} /\ UNCHANGED <<req, tap>>
        /\ Goto(r, "401") \/ Goto(r, "500") \/ Goto(r, "429 rate")
    BY <1>4 DEF Reject, LookupThrows, RateLimit
  <2>2. QED
    BY <1>2, <2>1 DEF Places, Answers
<1>5. CASE CheckControls(r)
  <2>1. /\ pc[r] = "gate" /\ UNCHANGED <<req, tap>>
        /\ \E place \in {"403", "free", "admitted", "429 budget"} : Goto(r, place)
    BY <1>5 DEF CheckControls
  <2>2. QED
    BY <1>2, <2>1 DEF Places, Answers
<1>6. CASE Pass(r)
  <2> DEFINE chosen == resolveSettlementRail(config, tap[r])
  <2>1. pc[r] = "admitted" /\ UNCHANGED <<req, tap>> /\ Goto(r, Turn(r, chosen))
    BY <1>6 DEF Pass, Turn
  <2>2. chosen \in {None, "x402", "visa"}
    BY RailIs DEF Typed
  <2> HIDE DEF chosen
  <2>3. Turn(r, chosen) \in {"503", "402", "400", "paying"}
    BY <2>2, TurnIs
  <2>4. QED
    BY <1>2, <2>1, <2>3 DEF Places, Answers
<1>7. CASE Pay(r)
  <2>1. pc[r] = "paying" /\ UNCHANGED <<req, tap>> /\ (Goto(r, "paid") \/ Goto(r, "unpaid"))
    BY <1>7 DEF Pay
  <2>2. QED
    BY <1>2, <2>1 DEF Places, Answers
<1>8. QED
  BY <1>1, <1>3, <1>4, <1>5, <1>6, <1>7 DEF Act

(* What is known of the signatures grows.                                  *)
LEMMA SignedGrow ==
  ASSUME Typed, FlowInv, NEW r \in Reqs, Elsewhere(r), Onward(r)
  PROVE  /\ Judged \subseteq Judged' /\ Judged' \subseteq Judged \cup {r}
         /\ HaveSigned \subseteq HaveSigned' /\ HaveSigned' \subseteq HaveSigned \cup {r}
         /\ \A nonce : Remembered(nonce) \subseteq Remembered(nonce)'
<1>1. \A q \in Reqs : q # r => pc'[q] = pc[q] /\ req'[q] = req[q] /\ tap'[q] = tap[q]
  BY DEF Elsewhere
<1>2. /\ pc'[r] # "idle" /\ pc[r] # "401"
      /\ pc[r] # "idle" => req'[r] = req[r] /\ pc'[r] # "looking"
      /\ tap[r] => tap'[r] /\ pc[r] # "idle"
  BY DEF Onward, FlowInv, FlowRow, Answers
<1>3. config' = config
  BY DEF Elsewhere
<1>4. /\ Judged \subseteq Judged' /\ Judged' \subseteq Judged \cup {r}
      /\ HaveSigned \subseteq HaveSigned' /\ HaveSigned' \subseteq HaveSigned \cup {r}
  BY <1>1, <1>2 DEF Judged, HaveSigned
<1>5. ASSUME NEW nonce, NEW q \in Remembered(nonce)
      PROVE  q \in Remembered(nonce)'
  <2>1. q \in Reqs
    BY DEF Remembered
  <2>2. req'[q] = req[q]
    BY <1>1, <1>2, <2>1 DEF Remembered
  <2>3. tap[q] \/ pc[q] = "401" => tap'[q] \/ pc'[q] = "401"
    BY <1>1, <1>2, <2>1
  <2>4. tap[q] => tap'[q]
    BY <1>1, <1>2, <2>1
  <2>5. pc[q] = "401" => pc'[q] = "401"
    BY <1>1, <1>2, <2>1
  <2>6. QED
    BY <1>3, <2>1, <2>2, <2>4, <2>5 DEF Remembered
<1>6. QED
  BY <1>4, <1>5

(* What the step does to the cache: it forgets an expired nonce, remembers *)
(* that of r, or leaves it.                                                *)
LEMMA ActCache ==
  ASSUME NEW r \in Reqs, Act(r)
  PROVE  \/ /\ pc[r] = "idle"
            /\ \E nonce : ~ seenNonce(nonce) /\ nonces' = Without(nonce)
         \/ Recognise(r)
         \/ UNCHANGED nonces
<1>1. ASSUME NEW q \in Arrivals, Arrive(r, q)
      PROVE  \/ /\ pc[r] = "idle"
                /\ \E nonce : ~ seenNonce(nonce) /\ nonces' = Without(nonce)
             \/ UNCHANGED nonces
  BY <1>1 DEF Arrive, Unhooked, Unsigned, Signed
<1>2. CASE Reject(r) \/ LookupThrows(r) \/ CheckControls(r) \/ Pass(r) \/ RateLimit(r) \/ Pay(r)
  BY <1>2 DEF Reject, LookupThrows, CheckControls, Pass, RateLimit, Pay
<1>3. QED
  BY <1>1, <1>2 DEF Act

(* An expired entry is nobody's protection, and the others stay.           *)
LEMMA ForgetKeepsHeld ==
  ASSUME NonceInv, NEW nonce, ~ seenNonce(nonce), nonces' = Without(nonce),
         now \in Nat, now' = now,
         NEW q \in Reqs, Held(q), Presented(q)' = Presented(q)
  PROVE  Held(q)'
<1>1. Keeps(nonces, nonces', nonce)
  BY WithoutIs DEF NonceInv
<1>2. CASE Presented(q).expires < now
  BY <1>2 DEF Held
<1>3. ASSUME NEW i \in DOMAIN nonces,
             nonces[i] = [nonce   |-> Presented(q).nonce,
                          expires |-> Presented(q).expires],
             ~ Presented(q).expires < now
      PROVE  Held(q)'
  <2>1. nonces[i].nonce # nonce
    <3>1. nonces[i].expires >= now => seenNonce(nonces[i].nonce)
      BY DEF seenNonce, Known
    <3>2. nonces[i].expires \in Nat /\ now \in Nat => nonces[i].expires >= now
      BY <1>3
    <3>3. nonces[i] \in Entry
      BY DEF NonceInv, NoncesTyped
    <3>4. QED
      BY <3>1, <3>2, <3>3 DEF Entry
  <2>2. \E j \in DOMAIN nonces' : nonces'[j] = nonces[i]
    BY <1>1, <2>1 DEF Keeps
  <2>3. QED
    BY <1>3, <2>2 DEF Held
<1>4. QED
  BY <1>2, <1>3 DEF Held

LEMMA JudgedFinite ==
  ASSUME NonceInv
  PROVE  IsFiniteSet(Judged) /\ Cardinality(Judged) \in Nat
         /\ Cardinality(HaveSigned) \in Nat
<1>1. Judged \subseteq HaveSigned
  BY DEF Judged, HaveSigned
<1>2. QED
  BY <1>1, FS_Subset, FS_CardinalityType DEF NonceInv

(* As long as not more have signed than the cache holds, the signature     *)
(* that is being judged finds room in it.                                  *)
LEMMA RoomForOne ==
  ASSUME NonceInv, NEW r \in Reqs, pc[r] = "looking", req[r].sig # None,
         Cardinality(HaveSigned) <= MaxEntries
  PROVE  Len(nonces) < MaxEntries
<1>1. r \in HaveSigned /\ r \notin Judged /\ Judged \cup {r} \subseteq HaveSigned
  BY DEF HaveSigned, Judged
<1>2. Cardinality(Judged \cup {r}) = Cardinality(Judged) + 1
  BY <1>1, JudgedFinite, FS_AddElement
<1>3. Cardinality(Judged \cup {r}) <= Cardinality(HaveSigned)
  BY <1>1, FS_Subset DEF NonceInv
<1>4. QED
  BY <1>2, <1>3, JudgedFinite, GateAssumption DEF NonceInv, NoncesTyped

LEMMA SignedStillFew ==
  ASSUME NonceInv, NEW r \in Reqs,
         HaveSigned \subseteq HaveSigned', HaveSigned' \subseteq HaveSigned \cup {r},
         Judged \subseteq Judged', Judged' \subseteq Judged \cup {r}
  PROVE  /\ IsFiniteSet(HaveSigned)'
         /\ Cardinality(HaveSigned) <= Cardinality(HaveSigned)'
         /\ Cardinality(Judged) <= Cardinality(Judged)'
         /\ Cardinality(Judged)' \in Nat /\ Cardinality(HaveSigned)' \in Nat
<1>1. IsFiniteSet(HaveSigned') /\ IsFiniteSet(Judged')
  <2>1. IsFiniteSet(HaveSigned \cup {r}) /\ IsFiniteSet(Judged \cup {r})
    BY JudgedFinite, FS_AddElement DEF NonceInv
  <2>2. QED
    BY <2>1, FS_Subset
<1>2. QED
  BY <1>1, FS_Subset, FS_CardinalityType

LEMMA RecogniseCache ==
  ASSUME Typed, FlowInv, NonceInv, NEW r \in Reqs, Recognise(r)
  PROVE  /\ Presented(r) \in Input
         /\ nonces' = rememberNonce(Presented(r).nonce, Presented(r).expires)
         /\ NoncesTyped' /\ Distinct(nonces)'
         /\ Len(nonces') <= Len(nonces) + 1
         /\ \E j \in DOMAIN nonces' : nonces'[j] = [nonce   |-> Presented(r).nonce,
                                                     expires |-> Presented(r).expires]
         /\ Len(nonces) < MaxEntries => Keeps(nonces, nonces', Presented(r).nonce)
         /\ r \in Judged' /\ r \notin Judged
         /\ r \in Remembered(Presented(r).nonce)' /\ ~ tap[r]
         /\ Presented(r)' = Presented(r)
<1>1. pc[r] = "looking" /\ req[r].sig # None /\ Parsed(req[r].sig) /\ ~ tap[r]
  BY DEF Recognise, FlowInv, FlowRow
<1>2. Presented(r) \in Input /\ Presented(r).nonce \in Nonces /\ Presented(r).expires \in Nat
  <2>1. Presented(r) \in Input
    BY <1>1, RequestsTyped, FirstIsPicked DEF Presented
  <2>2. QED
    BY <2>1 DEF Input
<1>3. nonces' = rememberNonce(Presented(r).nonce, Presented(r).expires)
  BY DEF Recognise, Presented
<1>4. /\ req' = req /\ config' = config
      /\ \/ tap' = [tap EXCEPT ![r] = TRUE] /\ Goto(r, "gate")
         \/ Goto(r, "401") /\ UNCHANGED tap /\ Presented(r).tag \notin config.tags
  BY DEF Recognise, Presented
<1>5. /\ pc'[r] \notin {"idle", "looking"}
      /\ tap'[r] \/ (pc'[r] = "401" /\ Presented(r).tag \notin config.tags)
  <2>1. CASE tap' = [tap EXCEPT ![r] = TRUE] /\ Goto(r, "gate")
    BY <2>1 DEF Goto, Typed
  <2>2. CASE Goto(r, "401") /\ Presented(r).tag \notin config.tags
    BY <2>2 DEF Goto, Typed
  <2>3. QED
    BY <1>4, <2>1, <2>2
<1>6. r \in Judged' /\ r \notin Judged /\ r \in Remembered(Presented(r).nonce)'
  BY <1>1, <1>4, <1>5 DEF Judged, Remembered, Presented
<1>7. /\ nonces' \in Seq(Entry) /\ Len(nonces') <= MaxEntries /\ Distinct(nonces')
      /\ Len(nonces') <= Len(nonces) + 1
      /\ \E j \in DOMAIN nonces' : nonces'[j] = [nonce   |-> Presented(r).nonce,
                                                  expires |-> Presented(r).expires]
      /\ Len(nonces) < MaxEntries => Keeps(nonces, nonces', Presented(r).nonce)
  BY <1>2, <1>3, RememberIs DEF NonceInv
<1>8. NoncesTyped' /\ Distinct(nonces)'
  BY <1>7 DEF NoncesTyped, Distinct
<1>9. Presented(r)' = Presented(r)
  BY <1>4 DEF Presented
<1>10. QED
  BY <1>1, <1>2, <1>3, <1>6, <1>7, <1>8, <1>9

(* What is remembered of q survives the step of r.                         *)
LEMMA HeldStep ==
  ASSUME Typed, FlowInv, NonceInv, NEW r \in Reqs, Act(r), NEW q \in Reqs, tap'[q],
         Remembered(Presented(q).nonce)' = {q}, Cardinality(HaveSigned)' <= MaxEntries
  PROVE  Held(q)'
<1>1. Elsewhere(r) /\ Onward(r)
  BY ActMoves, ActOnward
<1>2. /\ HaveSigned \subseteq HaveSigned' /\ HaveSigned' \subseteq HaveSigned \cup {r}
      /\ Judged \subseteq Judged' /\ Judged' \subseteq Judged \cup {r}
      /\ \A nonce : Remembered(nonce) \subseteq Remembered(nonce)'
  BY <1>1, SignedGrow
<1>3. Cardinality(HaveSigned) <= MaxEntries
  <2>1. Cardinality(HaveSigned) <= Cardinality(HaveSigned)'
        /\ Cardinality(HaveSigned)' \in Nat
    BY <1>2, SignedStillFew
  <2>2. QED
    BY <2>1, JudgedFinite, GateAssumption
<1>4. now' = now /\ now \in Nat
  BY <1>1 DEF Elsewhere, Typed
<1>5. CASE ~ tap[q]
  <2>1. q = r /\ Recognise(r)
    <3>1. q = r
      BY <1>1, <1>5 DEF Elsewhere
    <3>2. ~ UNCHANGED tap
      BY <1>5
    <3>3. QED
      BY <3>1, <3>2 DEF Act, Arrive, Reject, LookupThrows, CheckControls, Pass, RateLimit, Pay
  <2>2. Presented(r)' = Presented(r)
    BY <2>1 DEF Recognise, Presented
  <2>3. QED
    BY <2>1, <2>2, RecogniseCache DEF Held
<1>6. CASE tap[q]
  <2>1. pc[q] \notin {"idle", "looking"} /\ q \in Remembered(Presented(q).nonce)
    BY <1>6 DEF FlowInv, FlowRow, Remembered, Presented
  <2>2. req'[q] = req[q]
    BY <1>1, <2>1 DEF Elsewhere, Onward
  <2>3. Presented(q)' = Presented(q)
    BY <2>2 DEF Presented
  <2>4. Remembered(Presented(q).nonce) = {q}
    BY <1>2, <2>1, <2>3
  <2>5. Held(q)
    BY <1>3, <1>6, <2>4 DEF NonceInv
  <2>6. CASE UNCHANGED nonces
    BY <1>4, <2>3, <2>5, <2>6 DEF Held
  <2>7. ASSUME NEW nonce, ~ seenNonce(nonce), nonces' = Without(nonce)
        PROVE  Held(q)'
    BY <1>4, <2>3, <2>5, <2>7, ForgetKeepsHeld
  <2>8. CASE Recognise(r)
    <3>1. r # q
      BY <2>1, <2>8 DEF Recognise
    <3>2. Presented(r).nonce # Presented(q).nonce
      <4>1. r \in Remembered(Presented(r).nonce)' /\ Presented(r)' = Presented(r)
        BY <2>8, RecogniseCache
      <4>2. Presented(r).nonce = Presented(q).nonce => r \in Remembered(Presented(q).nonce)'
        BY <2>3, <4>1 DEF Remembered
      <4>3. QED
        BY <3>1, <4>2
    <3>3. Keeps(nonces, nonces', Presented(r).nonce)
      <4>1. pc[r] = "looking" /\ req[r].sig # None
        BY <2>8 DEF Recognise, FlowInv, FlowRow
      <4>2. QED
        BY <1>3, <2>8, <4>1, RoomForOne, RecogniseCache
    <3>4. QED
      BY <1>4, <2>3, <2>5, <3>2, <3>3 DEF Held, Keeps
  <2>9. QED
    BY <2>6, <2>7, <2>8, ActCache
<1>7. QED
  BY <1>5, <1>6

LEMMA NonceStep ==
  ASSUME Typed, FlowInv, NonceInv, NEW r \in Reqs, Act(r)
  PROVE  NonceInv'
<1>1. Elsewhere(r) /\ Onward(r)
  BY ActMoves, ActOnward
<1>2. /\ HaveSigned \subseteq HaveSigned' /\ HaveSigned' \subseteq HaveSigned \cup {r}
      /\ Judged \subseteq Judged' /\ Judged' \subseteq Judged \cup {r}
  BY <1>1, SignedGrow
<1>3. /\ IsFiniteSet(HaveSigned)' /\ Cardinality(Judged) <= Cardinality(Judged)'
      /\ Cardinality(Judged)' \in Nat /\ Cardinality(Judged) \in Nat
  BY <1>2, SignedStillFew, JudgedFinite
<1>4. NoncesTyped' /\ Distinct(nonces)' /\ Len(nonces)' <= Cardinality(Judged)'
  <2>1. CASE UNCHANGED nonces
    BY <1>3, <2>1 DEF NonceInv, NoncesTyped, Distinct
  <2>2. ASSUME NEW nonce, nonces' = Without(nonce)
        PROVE  NoncesTyped' /\ Distinct(nonces)' /\ Len(nonces)' <= Cardinality(Judged)'
    <3>1. nonces' \in Seq(Entry) /\ Len(nonces') <= Len(nonces) /\ Distinct(nonces')
      BY <2>2, WithoutIs DEF NonceInv
    <3>2. Distinct(nonces)'
      BY <3>1 DEF Distinct
    <3>3. QED
      BY <1>3, <3>1, <3>2, GateAssumption DEF NonceInv, NoncesTyped
  <2>3. CASE Recognise(r)
    <3>1. /\ NoncesTyped' /\ Distinct(nonces)' /\ Len(nonces') <= Len(nonces) + 1
          /\ r \in Judged' /\ r \notin Judged
      BY <2>3, RecogniseCache
    <3>2. Judged' = Judged \cup {r}
      BY <1>2, <3>1
    <3>3. Cardinality(Judged)' = Cardinality(Judged) + 1
      BY <3>1, <3>2, JudgedFinite, FS_AddElement
    <3>4. QED
      BY <1>3, <3>1, <3>3 DEF NonceInv, NoncesTyped
  <2>4. QED
    BY <2>1, <2>2, <2>3, ActCache
<1>5. ASSUME NEW q \in Reqs, tap'[q], Remembered(Presented(q).nonce)' = {q},
             Cardinality(HaveSigned)' <= MaxEntries
      PROVE  Held(q)'
  BY <1>5, HeldStep
<1>6. QED
  BY <1>3, <1>4, <1>5 DEF NonceInv

LEMMA NonceTick ==
  ASSUME Typed, NonceInv, Tick \/ UNCHANGED vars
  PROVE  NonceInv'
<1>1. /\ UNCHANGED <<config, pc, req, tap, nonces>>
      /\ now' \in Nat /\ now' >= now
  BY DEF Tick, vars, Typed
<1>2. /\ UNCHANGED <<Judged, HaveSigned>> /\ \A nonce : UNCHANGED Remembered(nonce)
      /\ \A q \in Reqs : UNCHANGED Presented(q)
  BY <1>1 DEF Judged, HaveSigned, Remembered, Presented
<1>3. NoncesTyped' /\ Distinct(nonces)' /\ IsFiniteSet(HaveSigned)'
      /\ Len(nonces)' <= Cardinality(Judged)'
  BY <1>1, <1>2 DEF NonceInv, NoncesTyped, Distinct
<1>4. ASSUME NEW q \in Reqs, tap'[q], Remembered(Presented(q).nonce)' = {q},
             Cardinality(HaveSigned)' <= MaxEntries
      PROVE  Held(q)'
  <2>1. tap[q] /\ Presented(q)' = Presented(q)
    BY <1>1, <1>2, <1>4
  <2>2. Remembered(Presented(q).nonce) = {q}
    BY <1>2, <1>4
  <2>3. Held(q)
    BY <1>2, <1>4, <2>1, <2>2 DEF NonceInv
  <2>4. Presented(q).expires \in Nat
    <3>1. Presented(q) \in Input
      BY <2>2, RequestsTyped, FirstIsPicked DEF Remembered, Presented
    <3>2. QED
      BY <3>1 DEF Input
  <2>5. QED
    BY <1>1, <2>1, <2>3, <2>4 DEF Held, Typed
<1>5. QED
  BY <1>3, <1>4 DEF NonceInv

LEMMA NonceInit ==
  ASSUME Init
  PROVE  NonceInv
<1>1. HaveSigned = {} /\ Judged = {} /\ nonces = <<>>
  BY DEF Init, HaveSigned, Judged
<1>2. IsFiniteSet(HaveSigned) /\ Cardinality(Judged) = 0
  BY <1>1, FS_EmptySet
<1>3. NoncesTyped /\ Distinct(nonces) /\ Len(nonces) <= Cardinality(Judged)
  BY <1>1, <1>2, GateAssumption DEF NoncesTyped, Distinct
<1>4. \A q \in Reqs : ~ tap[q]
  BY DEF Init
<1>5. QED
  BY <1>2, <1>3, <1>4 DEF NonceInv

(* In every state, the cache holds an accepted nonce until it expires,     *)
(* unless another request has replaced or evicted it.                      *)
THEOREM NonceInvariant == Spec => []NonceInv
<1>1. Init => NonceInv
  BY NonceInit
<1>2. Typed /\ FlowInv /\ NonceInv /\ [Next]_vars => NonceInv'
  <2> SUFFICES ASSUME Typed, FlowInv, NonceInv, [Next]_vars
               PROVE  NonceInv'
    OBVIOUS
  <2>1. ASSUME NEW r \in Reqs, Act(r)
        PROVE  NonceInv'
    BY <2>1, NonceStep
  <2>2. CASE Tick \/ UNCHANGED vars
    BY <2>2, NonceTick
  <2>3. QED
    BY <2>1, <2>2 DEF Next, Act
<1>3. QED
  BY <1>1, <1>2, FlowInvariant, PTL DEF Spec

LEMMA InvTypes ==
  ASSUME Typed, NonceInv
  PROVE  TypeOK
  BY DEF Typed, NonceInv, NoncesTyped, TypeOK, Places

(* The types of the gate's state; the nonce cache never holds more than    *)
(* MaxEntries.                                                             *)
THEOREM GateTypeCorrect == Spec => []TypeOK
  BY FlowInvariant, NonceInvariant, InvTypes, PTL

(* The cache is a map: no nonce is in it twice, so that forgetting one     *)
(* entry forgets the nonce.                                                *)
THEOREM NonceCacheIsAMap == Spec => []Distinct(nonces)
<1>1. NonceInv => Distinct(nonces)
  BY DEF NonceInv
<1>2. QED
  BY <1>1, NonceInvariant, PTL

(* Who is let through to the lookup of its key shows a nonce that is not   *)
(* in the cache, or has expired there.                                     *)
LEMMA LookedUpIsFresh ==
  ASSUME Typed, FlowInv, NonceInv, [Next]_vars,
         NEW r \in Reqs, NEW q \in Reqs, pc[r] = "idle", pc'[r] = "looking", tap[q],
         Remembered(pickTapInput(req'[r].sig).nonce) = {q},
         Cardinality(HaveSigned) <= MaxEntries
  PROVE  pickTapInput(req[q].sig).expires < now
<1> DEFINE nonce == pickTapInput(req'[r].sig).nonce
<1>1. \E p \in Reqs : Act(p)
  BY DEF Next, Act, Tick, vars
<1>2. Act(r)
  <2>1. PICK p \in Reqs : Act(p)
    BY <1>1
  <2>2. p = r
    BY <2>1, ActMoves DEF Elsewhere
  <2>3. QED
    BY <2>1, <2>2
<1>3. ~ seenNonce(nonce)
  <2>1. PICK x \in Arrivals : Arrive(r, x)
    BY <1>2 DEF Act, Reject, LookupThrows, Recognise, CheckControls, Pass, RateLimit, Pay
  <2>2. req'[r] = x
    BY <2>1 DEF Arrive, Typed
  <2>3. CASE Unhooked(r, x) \/ Unsigned(r, x)
    BY <2>3 DEF Unhooked, Unsigned, Goto, Typed
  <2>4. CASE Signed(r, x)
    BY <2>2, <2>4 DEF Signed, Goto, Typed
  <2>5. QED
    BY <2>1, <2>3, <2>4 DEF Arrive
<1>4. Presented(q).nonce = nonce
  BY DEF Remembered, Presented
<1>5. Held(q)
  BY <1>4 DEF NonceInv
<1>6. Presented(q).expires \in Nat /\ now \in Nat
  <2>1. Presented(q) \in Input
    BY RequestsTyped, FirstIsPicked DEF Remembered, Presented
  <2>2. QED
    BY <2>1 DEF Input, Typed
<1>7. CASE Presented(q).expires < now
  BY <1>7 DEF Presented
<1>8. ASSUME NEW j \in DOMAIN nonces,
             nonces[j] = [nonce |-> Presented(q).nonce, expires |-> Presented(q).expires]
      PROVE  Presented(q).expires < now
  <2>1. nonces[j].nonce = nonce /\ nonces[j].expires = Presented(q).expires
    BY <1>4, <1>8
  <2>2. QED
    BY <1>3, <1>6, <2>1 DEF seenNonce, Known
<1>9. QED
  BY <1>5, <1>7, <1>8 DEF Held, Presented

(* `nonce already used': a nonce that one request has been accepted with   *)
(* is not verified again as long as its signature is in force, for any     *)
(* number of requests, nonces and interleavings, while the cache has room  *)
(* for all that have signed.                                               *)
THEOREM ReplaysAreRejected == Spec => ReplayRejected
<1>1. Typed /\ FlowInv /\ NonceInv /\ [Next]_vars =>
        [\A r, q \in Reqs :
           /\ pc[r] = "idle" /\ pc'[r] = "looking"
           /\ tap[q] /\ Remembered(pickTapInput(req'[r].sig).nonce) = {q}
           /\ Cardinality(HaveSigned) <= MaxEntries
           => pickTapInput(req[q].sig).expires < now]_vars
  BY LookedUpIsFresh
<1>2. QED
  BY <1>1, FlowInvariant, NonceInvariant, PTL DEF Spec, ReplayRejected

-----------------------------------------------------------------------------
(* The rate limiter.                                                       *)

(* The requests that were let through to an operation for an address.      *)
Through(h) ==
  {r \in Reqs : passed[r] # None /\ req[r].addr = h[1] /\ req[r].op = h[2]}

Between(h, from, to) == {r \in Through(h) : passed[r] >= from /\ passed[r] <= to}

(* Where the current window begins.                                        *)
Start(h) == hits[h].resetAt - RateWindow

(* The requests in the current window are counted; before it, no more than *)
(* the maximum are as near as another window.                              *)
RateRow(h) ==
  /\ IsFiniteSet(Through(h)) /\ Start(h) <= now
  /\ \A r \in Through(h) : passed[r] <= now /\ passed[r] < hits[h].resetAt
  /\ hits[h].count <= config.rateMax
  /\ Cardinality(Between(h, Start(h), now)) <= hits[h].count
  /\ Cardinality(Between(h, Start(h) - RateWindow + 1, Start(h) - 1)) <= config.rateMax
  /\ \A t \in Nat :
       Cardinality(Between(h, t, t + RateWindow - 1)) <= 2 * config.rateMax

RateInv == config.rateMax > 0 => \A h \in Addrs \X Ops : RateRow(h)

LEMMA ThroughTyped ==
  ASSUME Typed, NEW h \in Addrs \X Ops
  PROVE  /\ \A q \in Through(h) : q \in Reqs /\ passed[q] \in Nat
         /\ Start(h) \in Int /\ hits[h].count \in Nat /\ hits[h].resetAt \in Nat
         /\ now \in Nat /\ config.rateMax \in Nat /\ RateWindow \in Nat /\ RateWindow > 0
<1>1. \A q \in Through(h) : q \in Reqs /\ passed[q] \in Nat
  BY DEF Typed, Through
<1>2. hits[h].count \in Nat /\ hits[h].resetAt \in Nat
  BY DEF Typed
<1>3. QED
  BY <1>1, <1>2, ConfigTyped, GateAssumption DEF Typed, Start

LEMMA BetweenFinite ==
  ASSUME NEW h, IsFiniteSet(Through(h)), NEW from, NEW to
  PROVE  /\ IsFiniteSet(Between(h, from, to)) /\ Cardinality(Between(h, from, to)) \in Nat
         /\ \A T : T \subseteq Between(h, from, to) =>
              /\ IsFiniteSet(T) /\ Cardinality(T) \in Nat
              /\ Cardinality(T) <= Cardinality(Between(h, from, to))
<1>1. Between(h, from, to) \subseteq Through(h)
  BY DEF Between
<1>2. QED
  BY <1>1, FS_Subset, FS_CardinalityType

(* Time alone lets nobody through.                                         *)
LEMMA RateSame ==
  ASSUME Typed, NEW h \in Addrs \X Ops, RateRow(h), hits'[h] = hits[h], config' = config,
         Through(h)' = Through(h), \A q \in Through(h) : passed'[q] = passed[q],
         now' \in Nat, now' >= now
  PROVE  RateRow(h)'
<1>1. Start(h)' = Start(h)
  BY DEF Start
<1>3. Between(h, Start(h), now)' = Between(h, Start(h), now)
  BY <1>1, ThroughTyped DEF Between, RateRow
<1>4. Between(h, Start(h) - RateWindow + 1, Start(h) - 1)'
        = Between(h, Start(h) - RateWindow + 1, Start(h) - 1)
  BY <1>1 DEF Between
<1>5. \A t \in Nat : Between(h, t, t + RateWindow - 1)' = Between(h, t, t + RateWindow - 1)
  BY DEF Between
<1>6. Start(h)' <= now' /\ \A q \in Through(h)' : passed'[q] <= now'
  BY <1>1, ThroughTyped DEF RateRow
<1>7. QED
  BY <1>1, <1>3, <1>4, <1>5, <1>6 DEF RateRow

(* Between two given times, after a step.                                  *)
Later(h, from, to) == {q \in Through(h)' : passed'[q] >= from /\ passed'[q] <= to}

(* Who gets through now joins those between two times that hold now ...    *)
LEMMA Joins ==
  ASSUME Typed, NEW h \in Addrs \X Ops, NEW r \in Reqs, IsFiniteSet(Through(h)),
         r \notin Through(h), Through(h)' = Through(h) \cup {r}, passed'[r] = now,
         \A q \in Through(h) : passed'[q] = passed[q],
         NEW from \in Int, NEW to \in Int, from <= now, now <= to
  PROVE  Cardinality(Later(h, from, to)) = Cardinality(Between(h, from, to)) + 1
<1>1. r \notin Between(h, from, to)
  BY DEF Between
<1>2. Later(h, from, to) = Between(h, from, to) \cup {r}
  BY DEF Typed, Between, Later
<1>3. IsFiniteSet(Between(h, from, to))
  BY BetweenFinite
<1>4. QED
  BY <1>1, <1>2, <1>3, FS_AddElement

(* ... and no others.                                                      *)
LEMMA StaysOut ==
  ASSUME Typed, NEW h \in Addrs \X Ops, NEW r \in Reqs,
         Through(h)' = Through(h) \cup {r}, passed'[r] = now,
         \A q \in Through(h) : passed'[q] = passed[q],
         NEW from \in Int, NEW to \in Int, ~ (from <= now /\ now <= to), r \notin Through(h)
  PROVE  Later(h, from, to) = Between(h, from, to)
  BY DEF Typed, Between, Later

(* The stretches that hold now, when a new window begins: the rest of them *)
(* lies in the old one.                                                    *)
LEMMA StretchOfNew ==
  ASSUME Typed, NEW h \in Addrs \X Ops, RateRow(h), now >= hits[h].resetAt,
         NEW t \in Int, t + RateWindow - 1 >= now
  PROVE  /\ Cardinality(Between(h, t, t + RateWindow - 1)) <= config.rateMax
         /\ Cardinality(Between(h, now - RateWindow + 1, now - 1)) <= config.rateMax
<1>1. Between(h, t, t + RateWindow - 1) \subseteq Between(h, Start(h), now)
      /\ Between(h, now - RateWindow + 1, now - 1) \subseteq Between(h, Start(h), now)
  BY ThroughTyped DEF Between, RateRow, Start
<1>2. IsFiniteSet(Between(h, Start(h), now))
      /\ Cardinality(Between(h, Start(h), now)) <= config.rateMax
      /\ Cardinality(Between(h, Start(h), now)) \in Nat
  BY ThroughTyped, BetweenFinite DEF RateRow
<1>3. QED
  BY <1>1, <1>2, FS_Subset, FS_CardinalityType, ThroughTyped

(* ... and while the window lasts: the rest lies in the window or so near  *)
(* before it that it has been counted there.                               *)
LEMMA StretchOfOld ==
  ASSUME Typed, NEW h \in Addrs \X Ops, RateRow(h),
         NEW t \in Int, t + RateWindow - 1 >= now
  PROVE  Cardinality(Between(h, t, t + RateWindow - 1)) <= hits[h].count + config.rateMax
<1> DEFINE old == Between(h, Start(h) - RateWindow + 1, Start(h) - 1)
           new == Between(h, Start(h), now)
<1>1. Between(h, t, t + RateWindow - 1) \subseteq old \cup new
  BY ThroughTyped DEF Between, RateRow
<1>2. /\ IsFiniteSet(old) /\ IsFiniteSet(new)
      /\ Cardinality(old) \in Nat /\ Cardinality(new) \in Nat
      /\ Cardinality(old) <= config.rateMax /\ Cardinality(new) <= hits[h].count
  BY BetweenFinite DEF RateRow
<1> HIDE DEF old, new
<1>3. /\ IsFiniteSet(old \cup new) /\ Cardinality(old \cup new) \in Nat
      /\ Cardinality(old \cap new) \in Nat
      /\ Cardinality(old \cup new) = Cardinality(old) + Cardinality(new)
                                       - Cardinality(old \cap new)
  BY <1>2, FS_Union, FS_Intersection, FS_CardinalityType
<1>4. Cardinality(Between(h, t, t + RateWindow - 1)) <= Cardinality(old \cup new)
      /\ Cardinality(Between(h, t, t + RateWindow - 1)) \in Nat
  BY <1>1, <1>3, FS_Subset, FS_CardinalityType
<1>5. QED
  BY <1>2, <1>3, <1>4, ThroughTyped

LEMMA AllowIs ==
  ASSUME Typed, NEW h \in Addrs \X Ops, Allow(h)
  PROVE  /\ \A g \in Addrs \X Ops : g # h => hits'[g] = hits[g]
         /\ \/ /\ now >= hits[h].resetAt
               /\ hits'[h].count = 1 /\ hits'[h].resetAt = now + RateWindow
            \/ /\ now < hits[h].resetAt /\ hits[h].count < config.rateMax
               /\ hits'[h].count = hits[h].count + 1 /\ hits'[h].resetAt = hits[h].resetAt
<1>1. CASE now >= hits[h].resetAt
  BY <1>1 DEF Allow, Typed
<1>2. CASE ~ now >= hits[h].resetAt
  <2>1. hits' = [hits EXCEPT ![h] = [hits[h] EXCEPT !.count = hits[h].count + 1]]
        /\ hits[h].count < config.rateMax
    BY <1>2 DEF Allow
  <2>2. hits[h] \in [count : Nat, resetAt : Nat]
    BY DEF Typed
  <2>3. QED
    BY <1>2, <2>1, <2>2 DEF Typed
<1>3. QED
  BY <1>1, <1>2

LEMMA JoinKeepsRate ==
  ASSUME Typed, NEW h \in Addrs \X Ops, RateRow(h), Allow(h), config.rateMax > 0,
         NEW r \in Reqs, r \notin Through(h), Through(h)' = Through(h) \cup {r},
         passed'[r] = now, \A q \in Through(h) : passed'[q] = passed[q],
         now' = now, config' = config
  PROVE  RateRow(h)'
<1> USE ThroughTyped
<1>1. IsFiniteSet(Through(h)) /\ IsFiniteSet(Through(h)')
  BY FS_AddElement DEF RateRow
<1>2. \A q \in Through(h) : passed[q] <= now /\ passed[q] < hits[h].resetAt
  BY DEF RateRow
<1>3. CASE /\ now >= hits[h].resetAt
           /\ hits'[h].count = 1 /\ hits'[h].resetAt = now + RateWindow
  <2>1. Start(h)' = now
    BY <1>3 DEF Start
  <2>2. Between(h, Start(h), now)' = {r}
    BY <1>2, <1>3, <2>1 DEF Between
  <2>3. Cardinality(Between(h, Start(h), now)') = 1
    BY <2>2, FS_Singleton
  <2>4. Between(h, Start(h) - RateWindow + 1, Start(h) - 1)'
          = Between(h, now - RateWindow + 1, now - 1)
    BY <2>1 DEF Between
  <2>5. Cardinality(Between(h, now - RateWindow + 1, now - 1)) <= config.rateMax
    BY <1>3, StretchOfNew
  <2>6. ASSUME NEW t \in Nat
        PROVE  Cardinality(Between(h, t, t + RateWindow - 1)') <= 2 * config.rateMax
    <3>1. Between(h, t, t + RateWindow - 1)' = Later(h, t, t + RateWindow - 1)
      BY DEF Between, Later
    <3>2. CASE t <= now /\ now <= t + RateWindow - 1
      <4>1. Cardinality(Between(h, t, t + RateWindow - 1)') =
              Cardinality(Between(h, t, t + RateWindow - 1)) + 1
        BY <1>1, <3>1, <3>2, Joins
      <4>2. Cardinality(Between(h, t, t + RateWindow - 1)) <= config.rateMax
        BY <1>3, <3>2, StretchOfNew
      <4>3. QED
        BY <1>1, <4>1, <4>2, BetweenFinite
    <3>3. CASE ~ (t <= now /\ now <= t + RateWindow - 1)
      <4>1. Between(h, t, t + RateWindow - 1)' = Between(h, t, t + RateWindow - 1)
        BY <3>1, <3>3, StaysOut
      <4>2. QED
        BY <4>1 DEF RateRow
    <3>4. QED
      BY <3>2, <3>3
  <2>7. \A q \in Through(h)' : passed'[q] <= now' /\ passed'[q] < hits'[h].resetAt
    BY <1>2, <1>3
  <2>8. QED
    BY <1>1, <1>3, <2>1, <2>3, <2>4, <2>5, <2>6, <2>7 DEF RateRow
<1>4. CASE /\ now < hits[h].resetAt /\ hits[h].count < config.rateMax
           /\ hits'[h].count = hits[h].count + 1 /\ hits'[h].resetAt = hits[h].resetAt
  <2>1. Start(h)' = Start(h) /\ Start(h) <= now
    BY <1>4 DEF Start, RateRow
  <2>2. Cardinality(Between(h, Start(h), now)') = Cardinality(Between(h, Start(h), now)) + 1
    <3>1. Between(h, Start(h), now)' = Later(h, Start(h), now)
      BY <2>1 DEF Between, Later
    <3>2. QED
      BY <1>1, <2>1, <3>1, Joins
  <2>3. Cardinality(Between(h, Start(h), now)') <= hits'[h].count
    BY <1>1, <1>4, <2>2, BetweenFinite DEF RateRow
  <2>4. Between(h, Start(h) - RateWindow + 1, Start(h) - 1)'
          = Between(h, Start(h) - RateWindow + 1, Start(h) - 1)
    <3>1. Between(h, Start(h) - RateWindow + 1, Start(h) - 1)'
            = Later(h, Start(h) - RateWindow + 1, Start(h) - 1)
      BY <2>1 DEF Between, Later
    <3>2. QED
      BY <2>1, <3>1, StaysOut
  <2>5. ASSUME NEW t \in Nat
        PROVE  Cardinality(Between(h, t, t + RateWindow - 1)') <= 2 * config.rateMax
    <3>1. Between(h, t, t + RateWindow - 1)' = Later(h, t, t + RateWindow - 1)
      BY DEF Between, Later
    <3>2. CASE t <= now /\ now <= t + RateWindow - 1
      <4>1. Cardinality(Between(h, t, t + RateWindow - 1)') =
              Cardinality(Between(h, t, t + RateWindow - 1)) + 1
        BY <1>1, <3>1, <3>2, Joins
      <4>2. Cardinality(Between(h, t, t + RateWindow - 1)) <= hits[h].count + config.rateMax
        BY <3>2, StretchOfOld
      <4>3. QED
        BY <1>1, <1>4, <4>1, <4>2, BetweenFinite
    <3>3. CASE ~ (t <= now /\ now <= t + RateWindow - 1)
      <4>1. Between(h, t, t + RateWindow - 1)' = Between(h, t, t + RateWindow - 1)
        BY <3>1, <3>3, StaysOut
      <4>2. QED
        BY <4>1 DEF RateRow
    <3>4. QED
      BY <3>2, <3>3
  <2>6. \A q \in Through(h)' : passed'[q] <= now' /\ passed'[q] < hits'[h].resetAt
    BY <1>2, <1>4
  <2>7. QED
    BY <1>1, <1>4, <2>1, <2>3, <2>4, <2>5, <2>6 DEF RateRow
<1>5. QED
  BY <1>3, <1>4, AllowIs

LEMMA PassKeepsRate ==
  ASSUME Typed, FlowInv, NEW r \in Reqs, Pass(r), config.rateMax > 0,
         NEW h \in Addrs \X Ops, RateRow(h)
  PROVE  RateRow(h)'
<1> DEFINE g == <<req[r].addr, req[r].op>>
<1>1. /\ Allow(g) /\ UNCHANGED <<config, now, req>>
      /\ passed' = [passed EXCEPT ![r] = now] /\ pc[r] = "admitted"
  BY DEF Pass
<1>2. g \in Addrs \X Ops /\ passed[r] = None /\ now \in Nat /\ None # now
  BY <1>1, RequestsTyped, GateAssumption DEF FlowInv, FlowRow, Typed
<1>3. /\ r \notin Through(h) /\ passed'[r] = now
      /\ \A q \in Through(h) : passed'[q] = passed[q]
  BY <1>1, <1>2 DEF Through, Typed
<1>4. CASE h = g
  <2>1. Through(h)' = Through(h) \cup {r}
    BY <1>1, <1>2, <1>4 DEF Through, Typed
  <2>2. QED
    BY <1>1, <1>3, <1>4, <2>1, JoinKeepsRate
<1>5. CASE h # g
  <2>1. Through(h)' = Through(h)
    BY <1>1, <1>2, <1>5 DEF Through, Typed
  <2>2. hits'[h] = hits[h]
    BY <1>1, <1>2, <1>5, AllowIs
  <2>3. QED
    BY <1>1, <1>2, <1>3, <2>1, <2>2, RateSame
<1>6. QED
  BY <1>4, <1>5

LEMMA OthersKeepRate ==
  ASSUME Typed, FlowInv, NEW r \in Reqs, Act(r), ~ Pass(r),
         NEW h \in Addrs \X Ops, RateRow(h)
  PROVE  RateRow(h)'
<1>1. Elsewhere(r) /\ Onward(r)
  BY ActMoves, ActOnward
<1>2. hits' = hits /\ passed' = passed
  BY DEF Act, Arrive, Reject, LookupThrows, Recognise, CheckControls, RateLimit, Pay
<1>3. passed[r] # None => req'[r] = req[r]
  BY <1>1 DEF Onward, FlowInv, FlowRow
<1>4. Through(h)' = Through(h) /\ \A q \in Through(h) : passed'[q] = passed[q]
  BY <1>1, <1>2, <1>3 DEF Through, Elsewhere
<1>5. now' = now /\ config' = config /\ now \in Nat
  BY <1>1 DEF Elsewhere, Typed
<1>6. QED
  BY <1>2, <1>4, <1>5, RateSame

LEMMA RateStep ==
  ASSUME Typed, FlowInv, RateInv, [Next]_vars
  PROVE  RateInv'
<1>1. ASSUME NEW r \in Reqs, Act(r)
      PROVE  RateInv'
  <2>1. config' = config
    BY <1>1, ActMoves DEF Elsewhere
  <2>2. QED
    BY <1>1, <2>1, PassKeepsRate, OthersKeepRate DEF RateInv
<1>2. CASE Tick \/ UNCHANGED vars
  <2>1. UNCHANGED <<config, req, passed, hits>> /\ now' \in Nat /\ now' >= now
    BY <1>2 DEF Tick, vars, Typed
  <2>2. \A h \in Addrs \X Ops : Through(h)' = Through(h)
    BY <2>1 DEF Through
  <2>3. QED
    BY <2>1, <2>2, RateSame DEF RateInv
<1>3. QED
  BY <1>1, <1>2 DEF Next, Act

LEMMA RateInit ==
  ASSUME Init
  PROVE  RateInv
<1> SUFFICES ASSUME NEW h \in Addrs \X Ops
             PROVE  RateRow(h)
  BY DEF RateInv
<1>1. Through(h) = {} /\ \A from, to : Between(h, from, to) = {}
  BY DEF Init, Through, Between
<1>2. IsFiniteSet({}) /\ Cardinality({}) = 0
  BY FS_EmptySet
<1>3. hits[h].count = 0 /\ Start(h) = 0 - RateWindow /\ now = 0
  BY DEF Init, Start
<1>4. config.rateMax \in Nat
  BY FlowInit, ConfigTyped
<1>5. RateWindow \in Nat /\ RateWindow > 0
  BY GateAssumption
<1>6. IsFiniteSet(Through(h)) /\ \A from, to : Cardinality(Between(h, from, to)) = 0
  BY <1>1, <1>2
<1>7. Start(h) <= now /\ \A q \in Through(h) : FALSE
  BY <1>1, <1>3, <1>5
<1>8. /\ Cardinality(Between(h, Start(h), now)) <= hits[h].count
      /\ Cardinality(Between(h, Start(h) - RateWindow + 1, Start(h) - 1)) <= config.rateMax
      /\ \A t \in Nat :
           Cardinality(Between(h, t, t + RateWindow - 1)) <= 2 * config.rateMax
  BY <1>3, <1>4, <1>6
<1>9. QED
  BY <1>3, <1>4, <1>6, <1>7, <1>8 DEF RateRow

LEMMA RateIsBounded ==
  ASSUME Typed, RateInv
  PROVE  RateBounded
<1> SUFFICES ASSUME config.rateMax > 0, NEW a \in Addrs, NEW op \in Ops, NEW t \in 0 .. now
             PROVE  LET through == {r \in Reqs : /\ passed[r] # None
                                                 /\ req[r].addr = a /\ req[r].op = op}
                        h == hits[<<a, op>>]
                    IN  /\ Cardinality({r \in through : passed[r] \in t..(t + RateWindow - 1)})
                             <= 2 * config.rateMax
                        /\ Cardinality({r \in through : passed[r] >= h.resetAt - RateWindow})
                             <= config.rateMax
  BY DEF RateBounded
<1> DEFINE h == <<a, op>>
<1>1. h \in Addrs \X Ops /\ RateRow(h)
  BY DEF RateInv
<1>2. Through(h) = {r \in Reqs : passed[r] # None /\ req[r].addr = a /\ req[r].op = op}
  BY DEF Through
<1> HIDE DEF h
<1>3. {r \in Through(h) : passed[r] \in t .. (t + RateWindow - 1)}
        = Between(h, t, t + RateWindow - 1)
  BY <1>1, ThroughTyped DEF Between
<1>4. {r \in Through(h) : passed[r] >= hits[h].resetAt - RateWindow}
        = Between(h, Start(h), now)
  BY <1>1, ThroughTyped DEF Between, Start, RateRow
<1>5. Cardinality(Between(h, t, t + RateWindow - 1)) <= 2 * config.rateMax
  BY <1>1, ThroughTyped DEF RateRow
<1>6. Cardinality(Between(h, Start(h), now)) <= config.rateMax
  <2>1. Cardinality(Between(h, Start(h), now)) \in Nat
    BY <1>1, BetweenFinite DEF RateRow
  <2>2. /\ Cardinality(Between(h, Start(h), now)) <= hits[h].count
        /\ hits[h].count <= config.rateMax
    BY <1>1 DEF RateRow
  <2>3. QED
    BY <1>1, <2>1, <2>2, ThroughTyped
<1>7. QED
  BY <1>2, <1>3, <1>4, <1>5, <1>6 DEF h

(* SimpleRateLimiter: within its window an address gets the maximum        *)
(* through to an operation, and in any stretch as long as the window twice *)
(* the maximum: for every window, maximum and number of requests.          *)
THEOREM RateLimiterHolds == Spec => []RateBounded
<1>1. Spec => []RateInv
  BY RateInit, RateStep, FlowInvariant, PTL DEF Spec
<1>2. QED
  BY <1>1, FlowInvariant, RateIsBounded, PTL
-----------------------------------------------------------------------------
(* The most specific limit                                                 *)

(* A set of numbers has a least one: the intervals up to them are finite,  *)
(* and strict inclusion of finite sets is well-founded.                    *)
LEMMA HasLeast ==
  ASSUME NEW T \in SUBSET Nat, T # {}
  PROVE  \E n \in T : \A m \in T : n <= m
<1> DEFINE I == {0 .. n : n \in T}
<1>1. I \subseteq FiniteSubsetsOf(Nat) /\ I # {}
  <2>1. ASSUME NEW n \in T
        PROVE  IsFiniteSet(0 .. n) /\ 0 .. n \subseteq Nat
    BY FS_Interval
  <2>2. QED
    BY <2>1 DEF FiniteSubsetsOf
<1>2. PICK i \in I : \A j \in I : ~ (<<j, i>> \in StrictSubsetOrdering(Nat))
  <2> HIDE DEF I
  <2>1. QED
    BY <1>1, FS_StrictSubsetOrderingWellFounded, WFMin
<1>3. PICK n \in T : i = 0 .. n
  OBVIOUS
<1>4. ASSUME NEW m \in T, m < n
      PROVE  FALSE
  <2>1. 0 .. m \in I /\ 0 .. m \subseteq 0 .. n /\ 0 .. m # 0 .. n
    BY <1>4
  <2>2. 0 .. m \in SUBSET Nat /\ 0 .. n \in SUBSET Nat
    OBVIOUS
  <2>3. <<0 .. m, i>> \in StrictSubsetOrdering(Nat)
    BY <1>3, <2>1, <2>2 DEF StrictSubsetOrdering
  <2>4. QED
    BY <1>2, <2>1, <2>3
<1>5. QED
  BY <1>4

(* The first of a sequence of options that is set, or None.                *)
First(s) ==
  LET set == {i \in DOMAIN s : s[i] # None}
  IN  IF set = {} THEN None ELSE s[CHOOSE i \in set : \A j \in set : i <= j]

LEMMA FirstIs ==
  ASSUME NEW S, NEW s \in Seq(S)
  PROVE  \/ First(s) = None /\ \A i \in DOMAIN s : s[i] = None
         \/ \E k \in DOMAIN s : /\ s[k] # None /\ First(s) = s[k]
                                /\ \A i \in DOMAIN s : i < k => s[i] = None
<1> DEFINE set == {i \in DOMAIN s : s[i] # None}
<1>1. CASE set = {}
  BY <1>1 DEF First
<1>2. CASE set # {}
  <2>1. set \in SUBSET Nat
    OBVIOUS
  <2>2. \E n \in set : \A m \in set : n <= m
    BY <1>2, <2>1, HasLeast
  <2> DEFINE k == CHOOSE n \in set : \A m \in set : n <= m
  <2>3. k \in set /\ \A m \in set : k <= m
    BY <2>2
  <2>4. First(s) = s[k]
    BY <1>2 DEF First
  <2> HIDE DEF k
  <2>5. QED
    BY <2>1, <2>3, <2>4
<1>3. QED
  BY <1>1, <1>2

LEMMA FirstIsThe ==
  ASSUME NEW S, NEW s \in Seq(S), NEW k \in DOMAIN s, s[k] # None,
         \A i \in DOMAIN s : i < k => s[i] = None
  PROVE  First(s) = s[k]
<1>1. PICK j \in DOMAIN s : /\ s[j] # None /\ First(s) = s[j]
                            /\ \A i \in DOMAIN s : i < j => s[i] = None
  BY FirstIs
<1>2. j = k
  BY <1>1
<1>3. QED
  BY <1>1, <1>2

LEMMA FirstOfBoth ==
  ASSUME NEW S, NEW s \in Seq(S), NEW t \in Seq(S)
  PROVE  First(s \o t) = Or(First(s), First(t))
<1> DEFINE u == s \o t
<1>1. /\ u \in Seq(S) /\ DOMAIN u = 1 .. Len(s) + Len(t)
      /\ \A i \in 1 .. Len(s) : u[i] = s[i]
      /\ \A i \in 1 .. Len(t) : u[Len(s) + i] = t[i]
      /\ DOMAIN s = 1 .. Len(s) /\ DOMAIN t = 1 .. Len(t) /\ Len(s) \in Nat /\ Len(t) \in Nat
  BY ConcatProperties
<1> HIDE DEF u
<1>2. CASE First(s) = None /\ \A i \in DOMAIN s : s[i] = None
  <2>1. CASE First(t) = None /\ \A i \in DOMAIN t : t[i] = None
    <3>1. \A i \in DOMAIN u : u[i] = None
      <4>1. \A i \in DOMAIN u : i \in 1 .. Len(s) \/ (i - Len(s) \in 1 .. Len(t) /\ i = Len(s) + (i - Len(s)))
        BY <1>1
      <4>2. QED
        BY <1>1, <1>2, <2>1, <4>1
    <3>2. First(u) = None
      BY <1>1, <3>1, FirstIs
    <3>3. QED
      BY <1>2, <2>1, <3>2 DEF Or, u
  <2>2. ASSUME NEW k \in DOMAIN t, t[k] # None, First(t) = t[k],
               \A i \in DOMAIN t : i < k => t[i] = None
        PROVE  First(u) = Or(First(s), First(t))
    <3>1. Len(s) + k \in DOMAIN u /\ u[Len(s) + k] = t[k]
      BY <1>1
    <3>2. ASSUME NEW i \in DOMAIN u, i < Len(s) + k
          PROVE  u[i] = None
      <4>1. CASE i \in 1 .. Len(s)
        BY <1>1, <1>2, <4>1
      <4>2. CASE i \notin 1 .. Len(s)
        <5>1. i - Len(s) \in 1 .. Len(t) /\ i = Len(s) + (i - Len(s)) /\ i - Len(s) < k
          BY <1>1, <3>2, <4>2
        <5>2. QED
          BY <1>1, <2>2, <5>1
      <4>3. QED
        BY <4>1, <4>2
    <3>3. First(u) = t[k]
      BY <1>1, <2>2, <3>1, <3>2, FirstIsThe
    <3>4. QED
      BY <1>2, <2>2, <3>3 DEF Or
  <2>3. QED
    BY <2>1, <2>2, FirstIs DEF u
<1>3. ASSUME NEW k \in DOMAIN s, s[k] # None, First(s) = s[k],
             \A i \in DOMAIN s : i < k => s[i] = None
      PROVE  First(u) = Or(First(s), First(t))
  <2>1. k \in DOMAIN u /\ u[k] = s[k] /\ \A i \in DOMAIN u : i < k => u[i] = None
    BY <1>1, <1>3
  <2>2. First(u) = s[k]
    BY <1>1, <1>3, <2>1, FirstIsThe
  <2>3. QED
    BY <1>3, <2>2 DEF Or
<1>4. QED
  BY <1>2, <1>3, FirstIs DEF u

LEMMA FirstOfNone == <<>> \in Seq(Limit) /\ First(<<>>) = None
<1>1. <<>> \in Seq(Limit) /\ DOMAIN <<>> = {}
  OBVIOUS
<1>2. QED
  BY <1>1, FirstIs

LEMMA FirstOfOne ==
  ASSUME NEW a \in Limit
  PROVE  <<a>> \in Seq(Limit) /\ First(<<a>>) = a
<1> DEFINE s == <<a>>
<1>1. s \in Seq(Limit) /\ DOMAIN s = {1} /\ s[1] = a
  OBVIOUS
<1> HIDE DEF s
<1>2. First(s) = a
  BY <1>1, FirstIs
<1>3. QED
  BY <1>1, <1>2 DEF s

LEMMA FirstOfTwo ==
  ASSUME NEW a \in Limit, NEW b \in Limit
  PROVE  <<a, b>> \in Seq(Limit) /\ First(<<a, b>>) = Or(a, b)
<1> DEFINE s == <<a, b>>
<1>1. s \in Seq(Limit) /\ DOMAIN s = {1, 2} /\ s[1] = a /\ s[2] = b
  OBVIOUS
<1> HIDE DEF s
<1>2. CASE a # None
  BY <1>1, <1>2, FirstIsThe DEF Or
<1>3. CASE a = None
  BY <1>1, <1>3, FirstIs DEF Or
<1>4. QED
  BY <1>1, <1>2, <1>3 DEF s

LEMMA FirstTyped ==
  ASSUME NEW s \in Seq(Limit)
  PROVE  First(s) \in Limit
<1>1. None \in Limit /\ \A i \in DOMAIN s : s[i] \in Limit
  BY DEF Limit
<1>2. QED
  BY <1>1, FirstIs

(* Four sources: the operations' limits of the two files go together, and  *)
(* so do the defaults.                                                     *)
LEMMA FirstOfFour ==
  ASSUME NEW m \in Seq(Limit), NEW f \in Seq(Limit), NEW p \in Seq(Limit),
         NEW d \in Seq(Limit)
  PROVE  LET max == Or(First(m), Or(Or(First(f), First(p)), First(d)))
         IN  First(m \o f \o p \o d) = max /\ max \in Limit
<1>1. m \o f \in Seq(Limit) /\ First(m \o f) = Or(First(m), First(f))
  BY FirstOfBoth
<1>2. m \o f \o p \in Seq(Limit) /\ First(m \o f \o p) = Or(First(m \o f), First(p))
  <2> DEFINE s == m \o f
  <2>1. s \in Seq(Limit)
    BY <1>1
  <2> HIDE DEF s
  <2>2. s \o p \in Seq(Limit) /\ First(s \o p) = Or(First(s), First(p))
    BY <2>1, FirstOfBoth
  <2>3. QED
    BY <2>2 DEF s
<1>3. First(m \o f \o p \o d) = Or(First(m \o f \o p), First(d))
  <2> DEFINE s == m \o f \o p
  <2>1. s \in Seq(Limit)
    BY <1>2
  <2> HIDE DEF s
  <2>2. First(s \o d) = Or(First(s), First(d))
    BY <2>1, FirstOfBoth
  <2>3. QED
    BY <2>2 DEF s
<1>4. First(m) \in Limit /\ First(f) \in Limit /\ First(p) \in Limit /\ First(d) \in Limit
  BY FirstTyped
<1>5. QED
  BY <1>1, <1>2, <1>3, <1>4 DEF Or

LEMMA LimitTyped ==
  ASSUME Typed, NEW op \in Ops
  PROVE  /\ config.envDefault \in Limit /\ config.fileDefault \in Limit
         /\ config.budgets[op] \in Limit
         /\ config.prices[op] # None => /\ config.prices[op].max \in Limit
                                        /\ config.prices[op].amount \in Nat
         /\ config.openapi[op] # None => config.openapi[op].amount \in Nat
         /\ \A t \in Tenants :
              config.tenants[t] # None => /\ config.tenants[t].ops[op] \in Limit
                                          /\ config.tenants[t].default \in Limit
<1>1. config \in Config
  BY ConfigTyped
<1>2. /\ config.envDefault \in Limit /\ config.fileDefault \in Limit
      /\ config.budgets \in OperationBudgets
      /\ config.prices \in [Ops -> PriceEntry \cup {None}]
      /\ config.openapi \in [Ops -> Extension \cup {None}]
      /\ config.tenants \in [Tenants -> TenantBudgets \cup {None}]
  BY <1>1 DEF Config
<1>3. /\ config.budgets[op] \in Limit
      /\ config.prices[op] \in PriceEntry \cup {None}
      /\ config.openapi[op] \in Extension \cup {None}
      /\ \A t \in Tenants : config.tenants[t] \in TenantBudgets \cup {None}
  BY <1>2 DEF OperationBudgets
<1>4. /\ \A p \in PriceEntry : p.max \in Limit /\ p.amount \in Nat
      /\ \A x \in Extension : x.amount \in Nat
      /\ \A b \in TenantBudgets : b.ops[op] \in Limit /\ b.default \in Limit
  BY DEF PriceEntry, Extension, TenantBudgets, OperationBudgets
<1>5. QED
  BY <1>2, <1>3, <1>4

(* resolveMaxDailyAtomic, source by source, is the first that is set.      *)
LEMMA ResolvesMostSpecific ==
  ASSUME Typed, NEW op \in Ops, NEW tenant \in Tenants \cup {None}
  PROVE  /\ MostSpecific(op, tenant) = resolveMaxDailyAtomic(config, op, tenant)
         /\ resolveMaxDailyAtomic(config, op, tenant) \in Limit
<1> DEFINE own  == IF tenant = None THEN None ELSE config.tenants[tenant]
           mine == IF own = None THEN <<>> ELSE <<own.ops[op], own.default>>
           file == <<config.budgets[op]>>
           list == IF config.prices[op] = None THEN <<>> ELSE <<config.prices[op].max>>
           rest == <<config.envDefault, config.fileDefault>>
           mineMax == IF own = None THEN None ELSE Or(own.ops[op], own.default)
           listMax == IF config.prices[op] = None THEN None ELSE config.prices[op].max
<1>1. /\ config.envDefault \in Limit /\ config.fileDefault \in Limit
      /\ config.budgets[op] \in Limit /\ None \in Limit
      /\ config.prices[op] # None => config.prices[op].max \in Limit
      /\ own # None => own.ops[op] \in Limit /\ own.default \in Limit
  <2>1. own # None => tenant \in Tenants /\ own = config.tenants[tenant]
    OBVIOUS
  <2>2. QED
    BY <2>1, LimitTyped DEF Limit
<1>2. MostSpecific(op, tenant) = First(mine \o file \o list \o rest)
  BY DEF MostSpecific, First
<1>3. resolveMaxDailyAtomic(config, op, tenant)
        = Or(mineMax, Or(Or(config.budgets[op], listMax),
                         Or(config.envDefault, config.fileDefault)))
  BY DEF resolveMaxDailyAtomic, byOperationId, defaultMaxDailyAtomic
<1>4. mine \in Seq(Limit) /\ First(mine) = mineMax
  <2>1. CASE own = None
    <3>1. mine = <<>> /\ mineMax = None
      BY <2>1
    <3>2. QED
      BY <3>1, FirstOfNone
  <2>2. CASE own # None
    <3> DEFINE a == own.ops[op]
               b == own.default
    <3>1. mine = <<a, b>> /\ mineMax = Or(a, b) /\ a \in Limit /\ b \in Limit
      BY <1>1, <2>2
    <3> HIDE DEF a, b, mine, mineMax
    <3>2. QED
      BY <3>1, FirstOfTwo
  <2>3. QED
    BY <2>1, <2>2
<1>5. list \in Seq(Limit) /\ First(list) = listMax
  <2>1. CASE config.prices[op] = None
    <3>1. list = <<>> /\ listMax = None
      BY <2>1
    <3>2. QED
      BY <3>1, FirstOfNone
  <2>2. CASE config.prices[op] # None
    <3>1. list = <<listMax>> /\ listMax \in Limit
      BY <1>1, <2>2
    <3> HIDE DEF list, listMax
    <3>2. QED
      BY <3>1, FirstOfOne
  <2>3. QED
    BY <2>1, <2>2
<1>6. file \in Seq(Limit) /\ First(file) = config.budgets[op]
  BY <1>1, FirstOfOne
<1>7. rest \in Seq(Limit) /\ First(rest) = Or(config.envDefault, config.fileDefault)
  BY <1>1, FirstOfTwo
<1> HIDE DEF mine, file, list, rest, mineMax, listMax
<1>8. QED
  BY <1>2, <1>3, <1>4, <1>5, <1>6, <1>7, FirstOfFour

-----------------------------------------------------------------------------
(* Budgets                                                                 *)

(* The requests of a tenant for an operation that have paid, and those     *)
(* that have, or have passed the check of the budget and may.              *)
Own(op, tenant) ==
  {r \in Reqs : pc[r] = "paid" /\ req[r].op = op /\ req[r].tenant = tenant}

Booked(op, tenant) ==
  {r \in Reqs : /\ pc[r] \in {"admitted", "paying", "paid"}
                /\ req[r].op = op /\ req[r].tenant = tenant}

Price(op) == priceOf(config, op).amount
LimitOf(op, tenant) == resolveMaxDailyAtomic(config, op, tenant)

WithinLimit(n, op, tenant) ==
  LimitOf(op, tenant) # None =>
    Price(op) * n <= LimitOf(op, tenant) + Price(op) * (MaxInFlight - 1)

(* What has been paid and what may still be stays within the bound.        *)
LimitRow(op, tenant) ==
  Booked(op, tenant) # {} =>
    /\ Price(op) \in Nat
    /\ WithinLimit(Cardinality(Booked(op, tenant)), op, tenant)

LimitInv ==
  /\ IsFiniteSet(settled)
  /\ IsFiniteSet(InFlight) /\ Cardinality(InFlight) <= MaxInFlight
  /\ \A op \in Ops, tenant \in Tenants \cup {None} : LimitRow(op, tenant)

LEMMA TimesMonotone ==
  ASSUME NEW p \in Nat, NEW x \in Nat, NEW y \in Nat, x <= y
  PROVE  p * x \in Nat /\ p * y \in Nat /\ p * x <= p * y
<1>1. PICK d \in Nat : y = x + d
  <2>1. y - x \in Nat /\ y = x + (y - x)
    OBVIOUS
  <2>2. QED
    BY <2>1
<1>2. p * x \in Nat /\ p * d \in Nat
  OBVIOUS
<1>3. p * y = p * x + p * d
  BY <1>1
<1>4. QED
  BY <1>2, <1>3

LEMMA LimitIs ==
  ASSUME Typed, NEW op \in Ops, NEW tenant \in Tenants \cup {None}
  PROVE  /\ LimitOf(op, tenant) \in Limit
         /\ isOperationPaid(config, op) => Price(op) \in Nat
<1>1. isOperationPaid(config, op) => Price(op) \in Nat
  <2>1. CASE config.prices[op] # None
    BY <2>1, LimitTyped DEF Price, priceOf, Or
  <2>2. CASE config.prices[op] = None
    BY <2>2, LimitTyped DEF Price, priceOf, Or, isOperationPaid, compiled
  <2>3. QED
    BY <2>1, <2>2
<1>2. QED
  BY <1>1, ResolvesMostSpecific DEF LimitOf

LEMMA TenantIs ==
  ASSUME Typed, NEW r \in Reqs
  PROVE  req[r].tenant \in Tenants \cup {None} /\ req[r].op \in Ops
  BY RequestsTyped DEF Request

(* Fewer than those that are within the limit are, too.                    *)
LEMMA FewerWithin ==
  ASSUME Typed, NEW op \in Ops, NEW tenant \in Tenants \cup {None}, Price(op) \in Nat,
         NEW x \in Nat, NEW y \in Nat, x <= y, WithinLimit(y, op, tenant)
  PROVE  WithinLimit(x, op, tenant)
<1> SUFFICES ASSUME LimitOf(op, tenant) # None
             PROVE  Price(op) * x <= LimitOf(op, tenant) + Price(op) * (MaxInFlight - 1)
  BY DEF WithinLimit
<1>1. LimitOf(op, tenant) \in Nat /\ Price(op) * (MaxInFlight - 1) \in Nat
  BY LimitIs, GateAssumption DEF Limit
<1>2. Price(op) * x \in Nat /\ Price(op) * y \in Nat /\ Price(op) * x <= Price(op) * y
  BY TimesMonotone
<1>3. Price(op) * y <= LimitOf(op, tenant) + Price(op) * (MaxInFlight - 1)
  BY DEF WithinLimit
<1>4. QED
  BY <1>1, <1>2, <1>3

LEMMA BookedFinite ==
  ASSUME Typed, FlowInv, LimitInv, NEW op, NEW tenant
  PROVE  /\ IsFiniteSet(Booked(op, tenant)) /\ Cardinality(Booked(op, tenant)) \in Nat
         /\ IsFiniteSet(Own(op, tenant)) /\ Cardinality(Own(op, tenant)) \in Nat
         /\ Cardinality(Own(op, tenant)) <= Cardinality(Booked(op, tenant))
         /\ Own(op, tenant) = {r \in settled : req[r].op = op /\ req[r].tenant = tenant}
<1>1. IsFiniteSet(settled \cup InFlight)
  BY FS_Union DEF LimitInv
<1>2. Booked(op, tenant) \subseteq settled \cup InFlight
  BY DEF Booked, InFlight, FlowInv, FlowRow
<1>3. Own(op, tenant) \subseteq Booked(op, tenant)
  BY DEF Own, Booked
<1>4. Own(op, tenant) = {r \in settled : req[r].op = op /\ req[r].tenant = tenant}
  BY DEF Own, FlowInv, FlowRow, Typed
<1>5. QED
  BY <1>1, <1>2, <1>3, <1>4, FS_Subset, FS_CardinalityType

(* Nobody new is booked.                                                   *)
LEMMA LimitQuiet ==
  ASSUME Typed, FlowInv, LimitInv, config' = config,
         NEW op \in Ops, NEW tenant \in Tenants \cup {None},
         Booked(op, tenant)' \subseteq Booked(op, tenant)
  PROVE  LimitRow(op, tenant)'
<1> DEFINE b == Cardinality(Booked(op, tenant))
           c == Cardinality(Booked(op, tenant)')
<1>1. b \in Nat /\ c \in Nat /\ c <= b
  BY BookedFinite, FS_Subset, FS_CardinalityType
<1>2. Price(op)' = Price(op) /\ LimitOf(op, tenant)' = LimitOf(op, tenant)
  BY DEF Price, LimitOf
<1>3. CASE Booked(op, tenant)' # {}
  <2>1. Price(op) \in Nat /\ WithinLimit(b, op, tenant)
    BY <1>3 DEF LimitInv, LimitRow
  <2>2. WithinLimit(c, op, tenant)
    BY <1>1, <2>1, FewerWithin
  <2>3. QED
    BY <1>2, <2>1, <2>2 DEF LimitRow, WithinLimit
<1>4. QED
  BY <1>3 DEF LimitRow

(* A request that passes the check: what its tenant has paid leaves room   *)
(* for one price, and the others that may pay are in flight with it.       *)
LEMMA LimitAdmits ==
  ASSUME Typed, FlowInv, LimitInv, config' = config, NEW r \in InFlight,
         BudgetOk(req[r]), NEW op, NEW tenant, op = req[r].op, tenant = req[r].tenant,
         isOperationPaid(config, op),
         Booked(op, tenant)' = Booked(op, tenant) \cup {r}
  PROVE  LimitRow(op, tenant)'
<1> DEFINE own == Own(op, tenant)
           max == LimitOf(op, tenant)
           p == Price(op)
<1>1. /\ r \in Reqs /\ op \in Ops /\ tenant \in Tenants \cup {None}
      /\ p \in Nat /\ max \in Limit /\ MaxInFlight \in Nat \ {0}
  BY TenantIs, LimitIs, GateAssumption DEF InFlight
<1>2. /\ IsFiniteSet(own) /\ Cardinality(own) \in Nat
      /\ IsFiniteSet(InFlight) /\ Cardinality(InFlight) \in Nat
      /\ Cardinality(InFlight) <= MaxInFlight
  BY BookedFinite, FS_CardinalityType DEF LimitInv
<1>3. Booked(op, tenant)' \subseteq own \cup InFlight
  <2>1. Booked(op, tenant) \subseteq own \cup InFlight
    BY DEF Booked, Own, InFlight
  <2>2. QED
    BY <2>1
<1> DEFINE n == Cardinality(Booked(op, tenant)')
<1>4. n \in Nat /\ n <= Cardinality(own) + MaxInFlight
  <2> HIDE DEF own
  <2>1. /\ IsFiniteSet(own \cup InFlight) /\ Cardinality(own \cup InFlight) \in Nat
        /\ Cardinality(own \cap InFlight) \in Nat
        /\ Cardinality(own \cup InFlight) = Cardinality(own) + Cardinality(InFlight)
                                              - Cardinality(own \cap InFlight)
    BY <1>2, FS_Union, FS_Intersection, FS_CardinalityType
  <2>2. n \in Nat /\ n <= Cardinality(own \cup InFlight)
    BY <1>3, <2>1, FS_Subset, FS_CardinalityType
  <2>3. QED
    BY <1>1, <1>2, <2>1, <2>2
<1>5. max # None => p * Cardinality(own) + p <= max
  <2> SUFFICES ASSUME max # None PROVE p * Cardinality(own) + p <= max
    OBVIOUS
  <2> DEFINE all == {q \in settled : req[q].op = op /\ tenant \in {None, req[q].tenant}}
  <2>1. p * Cardinality(all) + p <= max
    BY DEF BudgetOk, Spent, LimitOf, Price
  <2>2. own \subseteq all /\ all \subseteq settled
    BY BookedFinite
  <2>3. /\ Cardinality(all) \in Nat /\ Cardinality(own) <= Cardinality(all)
    BY <2>2, FS_Subset, FS_CardinalityType DEF LimitInv
  <2> HIDE DEF all, own, p, max
  <2>4. /\ p * Cardinality(own) \in Nat /\ p * Cardinality(all) \in Nat
        /\ p * Cardinality(own) <= p * Cardinality(all)
    BY <1>1, <1>2, <2>3, TimesMonotone
  <2>5. max \in Nat
    BY <1>1 DEF Limit
  <2>6. QED
    BY <1>1, <2>1, <2>4, <2>5
<1>6. WithinLimit(Cardinality(own) + MaxInFlight, op, tenant)
  <2> SUFFICES ASSUME max # None
               PROVE  p * (Cardinality(own) + MaxInFlight) <= max + p * (MaxInFlight - 1)
    BY DEF WithinLimit
  <2> DEFINE c == Cardinality(own)
  <2>1. c \in Nat /\ p * c + p <= max /\ max \in Nat
    BY <1>1, <1>2, <1>5 DEF Limit
  <2> HIDE DEF own, c, p, max
  <2>2. p * (c + MaxInFlight) = p * c + p * MaxInFlight
    BY <1>1, <2>1
  <2>3. p * (MaxInFlight - 1) = p * MaxInFlight - p
    BY <1>1
  <2>4. p * c \in Nat /\ p * MaxInFlight \in Nat
    BY <1>1, <2>1
  <2>5. QED
    <3>1. p * (c + MaxInFlight) <= max + p * (MaxInFlight - 1)
      BY <1>1, <2>1, <2>2, <2>3, <2>4
    <3>2. QED
      BY <3>1 DEF c
<1>7. WithinLimit(n, op, tenant)
  <2>1. Cardinality(own) + MaxInFlight \in Nat
    BY <1>1, <1>2
  <2> HIDE DEF n, own, p, max
  <2>2. QED
    BY <1>1, <1>4, <1>6, <2>1, FewerWithin DEF p
<1>8. QED
  <2>1. Price(op)' = p /\ LimitOf(op, tenant)' = max
    BY <1>1 DEF Price, LimitOf
  <2>2. QED
    BY <1>1, <1>7, <2>1 DEF LimitRow, WithinLimit

(* A request is booked when its check has found room for it.               *)
LEMMA ActBooks ==
  ASSUME Typed, NEW r \in Reqs, Act(r)
  PROVE  /\ pc[r] = "idle" => Cardinality(InFlight) < MaxInFlight
         /\ pc'[r] \in {"admitted", "paying", "paid"} =>
              \/ pc[r] \in {"admitted", "paying"}
              \/ /\ pc[r] = "gate" /\ pc'[r] = "admitted" /\ BudgetOk(req[r])
                 /\ isOperationPaid(config, req[r].op)
<1>1. CASE \E q \in Arrivals : Arrive(r, q)
  BY <1>1 DEF Arrive, Unhooked, Unsigned, Signed, Goto, Typed
<1>2. CASE Reject(r) \/ LookupThrows(r) \/ RateLimit(r) \/ Recognise(r)
  BY <1>2 DEF Reject, LookupThrows, RateLimit, Recognise, Goto, Typed
<1>3. CASE CheckControls(r)
  BY <1>3 DEF CheckControls, Goto, Typed
<1>4. CASE Pass(r) \/ Pay(r)
  BY <1>4 DEF Pass, Pay
<1>5. QED
  BY <1>1, <1>2, <1>3, <1>4 DEF Act

LEMMA FlightStep ==
  ASSUME Typed, FlowInv, LimitInv, NEW r \in Reqs, Act(r)
  PROVE  /\ IsFiniteSet(settled)'
         /\ IsFiniteSet(InFlight)' /\ Cardinality(InFlight)' <= MaxInFlight
<1>1. Elsewhere(r) /\ Onward(r) /\ Typed'
  BY ActMoves, ActOnward, ActRow DEF FlowInv
<1>2. settled' \subseteq settled \cup {r}
  BY <1>1 DEF Elsewhere, Typed
<1>3. IsFiniteSet(settled)'
  BY <1>2, FS_AddElement, FS_Subset DEF LimitInv
<1>4. InFlight' \subseteq InFlight \cup {r}
  BY <1>1 DEF InFlight, Elsewhere
<1>5. /\ IsFiniteSet(InFlight \cup {r}) /\ Cardinality(InFlight \cup {r}) \in Nat
      /\ Cardinality(InFlight) \in Nat /\ MaxInFlight \in Nat
      /\ Cardinality(InFlight \cup {r})
           = IF r \in InFlight THEN Cardinality(InFlight) ELSE Cardinality(InFlight) + 1
  BY FS_AddElement, FS_CardinalityType, GateAssumption DEF LimitInv
<1>6. r \in InFlight \/ Cardinality(InFlight) < MaxInFlight
  <2>1. pc[r] = "idle" \/ r \in InFlight
    BY <1>1 DEF Onward, InFlight, Typed, Places
  <2>2. QED
    BY <2>1, ActBooks
<1>7. Cardinality(InFlight \cup {r}) <= MaxInFlight
  BY <1>5, <1>6 DEF LimitInv
<1>8. /\ IsFiniteSet(InFlight)' /\ Cardinality(InFlight)' \in Nat
      /\ Cardinality(InFlight)' <= Cardinality(InFlight \cup {r})
  BY <1>4, <1>5, FS_Subset, FS_CardinalityType
<1>9. QED
  BY <1>3, <1>5, <1>7, <1>8

LEMMA LimitAct ==
  ASSUME Typed, FlowInv, LimitInv, NEW r \in Reqs, Act(r),
         NEW op \in Ops, NEW tenant \in Tenants \cup {None}
  PROVE  LimitRow(op, tenant)'
<1>1. Elsewhere(r) /\ Onward(r) /\ config' = config
  BY ActMoves, ActOnward DEF Elsewhere
<1>2. CASE pc[r] = "gate" /\ pc'[r] = "admitted" /\ op = req[r].op /\ tenant = req[r].tenant
  <2>1. BudgetOk(req[r]) /\ isOperationPaid(config, op) /\ r \in InFlight
    BY <1>2, ActBooks DEF InFlight
  <2>2. Booked(op, tenant)' = Booked(op, tenant) \cup {r}
    BY <1>1, <1>2 DEF Booked, Elsewhere, Onward
  <2>3. QED
    BY <1>1, <1>2, <2>1, <2>2, LimitAdmits
<1>3. CASE ~ (pc[r] = "gate" /\ pc'[r] = "admitted" /\ op = req[r].op /\ tenant = req[r].tenant)
  <2>1. r \in Booked(op, tenant)' => r \in Booked(op, tenant)
    BY <1>1, <1>3, ActBooks DEF Booked, Onward
  <2>2. Booked(op, tenant)' \subseteq Booked(op, tenant)
    BY <1>1, <2>1 DEF Booked, Elsewhere
  <2>3. QED
    BY <1>1, <2>2, LimitQuiet
<1>4. QED
  BY <1>2, <1>3

LEMMA LimitStep ==
  ASSUME Typed, FlowInv, LimitInv, [Next]_vars
  PROVE  LimitInv'
<1>1. ASSUME NEW r \in Reqs, Act(r)
      PROVE  LimitInv'
  BY <1>1, FlightStep, LimitAct DEF LimitInv
<1>2. CASE Tick \/ UNCHANGED vars
  <2>1. UNCHANGED <<config, pc, req, settled>>
    BY <1>2 DEF Tick, vars
  <2>2. InFlight' = InFlight /\ \A op, tenant : Booked(op, tenant)' = Booked(op, tenant)
    BY <2>1 DEF InFlight, Booked
  <2>3. \A op \in Ops, tenant \in Tenants \cup {None} : LimitRow(op, tenant)'
    BY <2>1, <2>2, LimitQuiet
  <2>4. QED
    BY <2>1, <2>2, <2>3 DEF LimitInv
<1>3. QED
  BY <1>1, <1>2 DEF Next, Act

LEMMA LimitInit ==
  ASSUME Init
  PROVE  LimitInv
<1>1. InFlight = {} /\ settled = {} /\ \A op, tenant : Booked(op, tenant) = {}
  BY DEF Init, InFlight, Booked
<1>2. MaxInFlight \in Nat
  BY GateAssumption
<1>3. QED
  BY <1>1, <1>2, FS_EmptySet DEF LimitInv, LimitRow

LEMMA LimitsFollow ==
  ASSUME Typed, FlowInv, LimitInv
  PROVE  LimitsKept
<1> SUFFICES ASSUME NEW op \in Ops, NEW tenant \in Tenants \cup {None},
                    MostSpecific(op, tenant) # None,
                    {r \in settled : req[r].op = op /\ req[r].tenant = tenant} # {}
             PROVE  priceOf(config, op).amount *
                      Cardinality({r \in settled : req[r].op = op /\ req[r].tenant = tenant})
                      <= MostSpecific(op, tenant)
                           + priceOf(config, op).amount * (MaxInFlight - 1)
  BY DEF LimitsKept
<1>0. /\ {r \in settled : req[r].op = op /\ req[r].tenant = tenant} = Own(op, tenant)
      /\ priceOf(config, op).amount = Price(op)
  BY BookedFinite DEF Price
<1>1. Booked(op, tenant) # {}
  BY <1>0 DEF Own, Booked
<1>2. Price(op) \in Nat /\ WithinLimit(Cardinality(Booked(op, tenant)), op, tenant)
  BY <1>1 DEF LimitInv, LimitRow
<1>3. WithinLimit(Cardinality(Own(op, tenant)), op, tenant)
  BY <1>2, BookedFinite, FewerWithin
<1>4. LimitOf(op, tenant) = MostSpecific(op, tenant)
  BY ResolvesMostSpecific DEF LimitOf
<1>5. QED
  BY <1>0, <1>3, <1>4 DEF WithinLimit

(* Budgets are independent per operation and tenant: what the requests of  *)
(* a tenant have spent stays within its most specific limit but for the    *)
(* requests in flight together, for every configuration and any number of  *)
(* requests.                                                               *)
THEOREM LimitsAreKept == Spec => []LimitsKept
<1>1. Spec => []LimitInv
  BY LimitInit, LimitStep, FlowInvariant, PTL DEF Spec
<1>2. QED
  BY <1>1, FlowInvariant, LimitsFollow, PTL
=============================================================================
