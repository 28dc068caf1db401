------------------------- MODULE MomoClient_proofs -------------------------
(***************************************************************************)
(* Theorems about MomoClient for any number of callers, any timeout, any   *)
(* margin of at least two timeouts, and any longer lifetimes.              *)
(***************************************************************************)
EXTENDS MomoClient, TLAPS

-----------------------------------------------------------------------------
(* Type correctness *)

LEMMA SlotKinds ==
    ASSUME NEW q \in Request
    PROVE  /\ q.kind = "asking" => q \in AskingReq
           /\ q.kind = "issued" => q \in IssuedReq
           /\ q.kind = "sent" => q \in SentReq
           /\ q.kind = "answered" => q \in AnsweredReq
           /\ q.kind \notin {"asking", "issued", "sent", "answered"} => q = Idle
           /\ (q = Idle) <=> (q.kind = "idle")
BY DEF Request, Idle, AskingReq, IssuedReq, SentReq, AnsweredReq

LEMMA TimeoutIsSpan == Timeout \in Spans
BY MomoAssumption DEF Spans

LEMMA LifeOfType == ASSUME NEW e \in Nat PROVE LifeOf(e) \in Nat
BY MomoAssumption DEF LifeOf

\* What the client takes a token to live is no more than it lives.
LEMMA ToldLife ==
    ASSUME NEW l \in Lifetimes, NEW e \in Told(l)
    PROVE  /\ l \in Nat /\ e \in Nat
           /\ LifeOf(e) \in Nat /\ LifeOf(e) > 2 * Timeout /\ l >= LifeOf(e)
<1>1. l \in Nat /\ l > 2 * Timeout /\ l # 0
  BY MomoAssumption
<1>2. e = l \/ (e = 0 /\ l >= DefaultLifetime)
  BY DEF Told, Untold
<1>3. DefaultLifetime \in Nat /\ DefaultLifetime > 2 * Timeout
  BY MomoAssumption
<1>4. CASE e = l
  <2>1. LifeOf(e) = l
    BY <1>1, <1>4 DEF LifeOf, Untold
  <2> QED BY <1>1, <1>4, <2>1
<1>5. CASE e = 0 /\ l >= DefaultLifetime
  <2>1. LifeOf(e) = DefaultLifetime
    BY <1>5 DEF LifeOf, Untold
  <2> QED BY <1>1, <1>3, <1>5, <2>1
<1> QED BY <1>2, <1>4, <1>5

LEMMA FreshForType == ASSUME NEW l \in Nat PROVE FreshFor(l) \in Nat
BY MomoAssumption DEF FreshFor

\* A slot that becomes older keeps its kind, and loses one unit of each span.
LEMMA OlderSlot ==
    ASSUME NEW q \in Request, q # Idle => q.timer > 0
    PROVE  /\ Older(q) \in Request
           /\ Older(q).kind = q.kind
           /\ q # Idle => Older(q).timer = q.timer - 1
           /\ q.kind \in {"issued", "sent"} => Older(q).valid = Less(q.valid)
           /\ q.kind = "issued" => Older(q).expiresIn = q.expiresIn
<1>1. CASE q = Idle
  BY <1>1 DEF Older, Idle, Request
<1>2. CASE q \in AskingReq
  <2>1. Older(q) = [q EXCEPT !.timer = @ - 1]
    BY <1>2 DEF Older, AskingReq
  <2>2. q # Idle /\ q.timer - 1 \in Spans
    BY <1>2, MomoAssumption DEF Idle, AskingReq, Spans
  <2> QED BY <1>2, <2>1, <2>2 DEF AskingReq, Request
<1>3. CASE q \in AnsweredReq
  <2>1. Older(q) = [q EXCEPT !.timer = @ - 1]
    BY <1>3 DEF Older, AnsweredReq
  <2>2. q # Idle /\ q.timer - 1 \in Spans
    BY <1>3, MomoAssumption DEF Idle, AnsweredReq, Spans
  <2> QED BY <1>3, <2>1, <2>2 DEF AnsweredReq, Request
<1>4. CASE q \in IssuedReq
  <2>1. Older(q) = [q EXCEPT !.timer = @ - 1, !.valid = Less(@)]
    BY <1>4 DEF Older, IssuedReq
  <2>2. q # Idle /\ q.timer - 1 \in Spans /\ Less(q.valid) \in Nat
    BY <1>4, MomoAssumption DEF Idle, IssuedReq, Spans, Less
  <2> QED BY <1>4, <2>1, <2>2 DEF IssuedReq, Request
<1>5. CASE q \in SentReq
  <2>1. Older(q) = [q EXCEPT !.timer = @ - 1, !.valid = Less(@)]
    BY <1>5 DEF Older, SentReq
  <2>2. q # Idle /\ q.timer - 1 \in Spans /\ Less(q.valid) \in Nat
    BY <1>5, MomoAssumption DEF Idle, SentReq, Spans, Less
  <2> QED BY <1>5, <2>1, <2>2 DEF SentReq, Request
<1> QED BY <1>1, <1>2, <1>3, <1>4, <1>5 DEF Request

LEMMA NextType == MomoTypeOK /\ [Next]_vars => MomoTypeOK'
<1> SUFFICES ASSUME MomoTypeOK, [Next]_vars PROVE MomoTypeOK'
  OBVIOUS
<1> USE TimeoutIsSpan
<1>1. ASSUME NEW r \in Requests, UseCached(r) PROVE MomoTypeOK'
  BY <1>1 DEF UseCached, Send, Continue, MomoTypeOK, Request, SentReq
<1>2. ASSUME NEW r \in Requests, AskToken(r) PROVE MomoTypeOK'
  BY <1>2 DEF AskToken, Continue, MomoTypeOK, Request, AskingReq
<1>3. ASSUME NEW r \in Requests, IssueToken(r) PROVE MomoTypeOK'
  <2>1. requests[r] \in AskingReq
    BY <1>3, SlotKinds DEF IssueToken, MomoTypeOK
  <2>l. PICK l \in Lifetimes : \E e \in Told(l) :
          Continue(r, [kind |-> "issued", timer |-> requests[r].timer,
                       expiresIn |-> e, valid |-> l])
    BY <1>3 DEF IssueToken
  <2>2. PICK e \in Told(l) :
          Continue(r, [kind |-> "issued", timer |-> requests[r].timer,
                       expiresIn |-> e, valid |-> l])
    BY <2>l
  <2>3. l \in Nat /\ e \in Nat
    BY ToldLife
  <2> QED BY <1>3, <2>1, <2>2, <2>3
          DEF IssueToken, Continue, MomoTypeOK, Request, AskingReq, IssuedReq
<1>4. ASSUME NEW r \in Requests, ReceiveToken(r) PROVE MomoTypeOK'
  <2>1. requests[r] \in IssuedReq
    BY <1>4, SlotKinds DEF ReceiveToken, MomoTypeOK
  <2>2. FreshFor(LifeOf(requests[r].expiresIn)) \in Nat /\ requests[r].valid \in Nat
    BY <2>1, LifeOfType, FreshForType DEF IssuedReq
  <2> QED BY <1>4, <2>2
          DEF ReceiveToken, RefuseNumber, Send, Continue, MomoTypeOK, Request, SentReq
<1>5. ASSUME NEW r \in Requests, Answer(r) PROVE MomoTypeOK'
  <2>1. requests[r] \in SentReq
    BY <1>5, SlotKinds DEF Answer, MomoTypeOK
  <2> QED BY <1>5, <2>1 DEF Answer, Continue, MomoTypeOK, Request, SentReq, AnsweredReq
<1>6. ASSUME NEW r \in Requests, Return(r) \/ Fail(r) PROVE MomoTypeOK'
  BY <1>6 DEF Return, Fail, Continue, MomoTypeOK, Request
<1>7. CASE Tick
  <2>1. \A r \in Requests : Older(requests[r]) \in Request
    BY <1>7, OlderSlot DEF Tick, MomoTypeOK
  <2>2. Less(tokenCache.fresh) \in Nat /\ Less(tokenCache.valid) \in Nat
    BY DEF MomoTypeOK, Less
  <2> QED BY <1>7, <2>1, <2>2 DEF Tick, MomoTypeOK
<1>8. CASE Restart
  BY <1>8 DEF Restart, MomoTypeOK, Request
<1>9. CASE UNCHANGED vars
  BY <1>9 DEF vars, MomoTypeOK
<1> QED BY <1>1, <1>2, <1>3, <1>4, <1>5, <1>6, <1>7, <1>8, <1>9 DEF Next, Call

\* The spans of the cache and of the callers stay in their ranges
\* (mtn-momo.service.ts:39, 52).
THEOREM TypeCorrect == Spec => []MomoTypeOK
<1>1. Init => MomoTypeOK
  BY DEF Init, MomoTypeOK, Request
<1> QED BY <1>1, NextType, PTL DEF Spec

-----------------------------------------------------------------------------
(* Tokens are honoured *)

\* A token in the cache has a timeout more to live than it looks fresh.
CacheHasTime == tokenCache.fresh > 0 => tokenCache.valid >= tokenCache.fresh + Timeout

\* A token on its way to the client has lost no more than the client waited.
IssuedHasTime ==
    \A r \in Requests :
        requests[r].kind = "issued" =>
            /\ LifeOf(requests[r].expiresIn) > 2 * Timeout
            /\ requests[r].valid >= LifeOf(requests[r].expiresIn) - Timeout + requests[r].timer

\* A token on its way to MTN outlives the timeout of the request.
SentHasTime ==
    \A r \in Requests :
        requests[r].kind = "sent" => requests[r].valid > requests[r].timer

Inv == MomoTypeOK /\ CacheHasTime /\ IssuedHasTime /\ SentHasTime

LEMMA OthersKeep ==
    ASSUME Inv, NEW r \in Requests, NEW slot \in Request, Continue(r, slot),
           slot.kind = "issued" =>
                /\ LifeOf(slot.expiresIn) > 2 * Timeout
                /\ slot.valid >= LifeOf(slot.expiresIn) - Timeout + slot.timer,
           slot.kind = "sent" => slot.valid > slot.timer
    PROVE  IssuedHasTime' /\ SentHasTime'
BY DEF Inv, MomoTypeOK, Continue, IssuedHasTime, SentHasTime

LEMMA NextTime == Inv /\ [Next]_vars => CacheHasTime' /\ IssuedHasTime' /\ SentHasTime'
<1> SUFFICES ASSUME Inv, [Next]_vars PROVE CacheHasTime' /\ IssuedHasTime' /\ SentHasTime'
  OBVIOUS
<1> USE TimeoutIsSpan
<1>1. ASSUME NEW r \in Requests, UseCached(r)
      PROVE  CacheHasTime' /\ IssuedHasTime' /\ SentHasTime'
  <2> DEFINE slot == [kind |-> "sent", timer |-> Timeout, valid |-> tokenCache.valid]
  <2>1. slot \in Request /\ Continue(r, slot)
    BY <1>1 DEF UseCached, Send, Inv, MomoTypeOK, Request, SentReq
  <2>2. tokenCache.valid > Timeout
    BY <1>1, MomoAssumption DEF UseCached, Fresh, Inv, MomoTypeOK, CacheHasTime
  <2>3. IssuedHasTime' /\ SentHasTime'
    BY <2>1, <2>2, OthersKeep
  <2> QED BY <1>1, <2>3 DEF UseCached, Inv, CacheHasTime
<1>2. ASSUME NEW r \in Requests, AskToken(r)
      PROVE  CacheHasTime' /\ IssuedHasTime' /\ SentHasTime'
  <2> DEFINE slot == [kind |-> "asking", timer |-> Timeout]
  <2>1. slot \in Request /\ Continue(r, slot)
    BY <1>2 DEF AskToken, Request, AskingReq
  <2>2. IssuedHasTime' /\ SentHasTime'
    BY <2>1, OthersKeep
  <2> QED BY <1>2, <2>2 DEF AskToken, Inv, CacheHasTime
<1>3. ASSUME NEW r \in Requests, IssueToken(r)
      PROVE  CacheHasTime' /\ IssuedHasTime' /\ SentHasTime'
  <2>1. requests[r] \in AskingReq
    BY <1>3, SlotKinds DEF IssueToken, Inv, MomoTypeOK
  <2>l. PICK l \in Lifetimes : \E e \in Told(l) :
          Continue(r, [kind |-> "issued", timer |-> requests[r].timer,
                       expiresIn |-> e, valid |-> l])
    BY <1>3 DEF IssueToken
  <2>2. PICK e \in Told(l) :
          Continue(r, [kind |-> "issued", timer |-> requests[r].timer,
                       expiresIn |-> e, valid |-> l])
    BY <2>l
  <2> DEFINE slot == [kind |-> "issued", timer |-> requests[r].timer,
                     expiresIn |-> e, valid |-> l]
  <2>3. /\ l \in Nat /\ e \in Nat
        /\ LifeOf(e) \in Nat /\ LifeOf(e) > 2 * Timeout /\ l >= LifeOf(e)
    BY ToldLife
  <2>4. slot \in Request
    BY <2>1, <2>3 DEF Request, AskingReq, IssuedReq
  <2>5. l >= LifeOf(e) - Timeout + requests[r].timer
    BY <2>1, <2>3, MomoAssumption DEF AskingReq, Spans
  <2>6. IssuedHasTime' /\ SentHasTime'
    BY <2>2, <2>3, <2>4, <2>5, OthersKeep
  <2> QED BY <1>3, <2>6 DEF IssueToken, Inv, CacheHasTime
<1>4. ASSUME NEW r \in Requests, ReceiveToken(r)
      PROVE  CacheHasTime' /\ IssuedHasTime' /\ SentHasTime'
  <2> DEFINE q == requests[r]
             slot == [kind |-> "sent", timer |-> Timeout, valid |-> q.valid]
  <2>1. q \in IssuedReq
    BY <1>4, SlotKinds DEF ReceiveToken, Inv, MomoTypeOK
  <2>2. /\ LifeOf(q.expiresIn) \in Nat /\ q.valid \in Nat /\ q.timer \in Nat
        /\ LifeOf(q.expiresIn) > 2 * Timeout /\ q.valid >= LifeOf(q.expiresIn) - Timeout + q.timer
    BY <1>4, <2>1, LifeOfType DEF ReceiveToken, Inv, IssuedHasTime, IssuedReq, Spans
  <2>3. q.valid > Timeout
    BY <2>2, MomoAssumption
  <2>4. FreshFor(LifeOf(q.expiresIn)) > 0 => q.valid >= FreshFor(LifeOf(q.expiresIn)) + Timeout
    BY <2>2, MomoAssumption DEF FreshFor
  <2>5. CacheHasTime'
    BY <1>4, <2>4 DEF ReceiveToken, CacheHasTime
  <2>6. slot \in Request /\ Idle \in Request
    BY <2>2 DEF Request, SentReq
  <2>7. Continue(r, slot) \/ Continue(r, Idle)
    BY <1>4 DEF ReceiveToken, RefuseNumber, Send
  <2>8. CASE Continue(r, slot)
    <3>1. IssuedHasTime' /\ SentHasTime'
      BY <2>3, <2>6, <2>8, OthersKeep
    <3> QED BY <2>5, <3>1
  <2>9. CASE Continue(r, Idle)
    <3>1. IssuedHasTime' /\ SentHasTime'
      BY <2>6, <2>9, OthersKeep DEF Idle
    <3> QED BY <2>5, <3>1
  <2> QED BY <2>7, <2>8, <2>9
<1>5. ASSUME NEW r \in Requests, Answer(r)
      PROVE  CacheHasTime' /\ IssuedHasTime' /\ SentHasTime'
  <2> DEFINE slot == [kind |-> "answered", timer |-> requests[r].timer]
  <2>1. requests[r] \in SentReq
    BY <1>5, SlotKinds DEF Answer, Inv, MomoTypeOK
  <2>2. slot \in Request /\ Continue(r, slot)
    BY <1>5, <2>1 DEF Answer, Request, SentReq, AnsweredReq
  <2>3. IssuedHasTime' /\ SentHasTime'
    BY <2>2, OthersKeep
  <2> QED BY <1>5, <2>3 DEF Answer, Inv, CacheHasTime
<1>6. ASSUME NEW r \in Requests, Return(r) \/ Fail(r)
      PROVE  CacheHasTime' /\ IssuedHasTime' /\ SentHasTime'
  <2>1. Idle \in Request /\ Continue(r, Idle)
    BY <1>6 DEF Return, Fail, Request
  <2>2. IssuedHasTime' /\ SentHasTime'
    BY <2>1, OthersKeep DEF Idle
  <2> QED BY <1>6, <2>2 DEF Return, Fail, Inv, CacheHasTime
<1>7. CASE Tick
  <2>1. CacheHasTime'
    <3>1. /\ tokenCache'.fresh = Less(tokenCache.fresh)
          /\ tokenCache'.valid = Less(tokenCache.valid)
      BY <1>7 DEF Tick
    <3> QED BY <3>1, MomoAssumption DEF Inv, MomoTypeOK, CacheHasTime, Less
  <2>2. ASSUME NEW r \in Requests
        PROVE  /\ requests'[r] = Older(requests[r])
               /\ requests[r] \in Request
               /\ requests[r] # Idle => requests[r].timer > 0
    BY <1>7 DEF Tick, Inv, MomoTypeOK
  <2>3. ASSUME NEW r \in Requests, requests'[r].kind = "issued"
        PROVE  /\ LifeOf(requests'[r].expiresIn) > 2 * Timeout
               /\ requests'[r].valid >=
                     LifeOf(requests'[r].expiresIn) - Timeout + requests'[r].timer
    <3> DEFINE q == requests[r]
    <3>1. q.kind = "issued" /\ q # Idle /\ q \in IssuedReq
      BY <2>2, <2>3, OlderSlot, SlotKinds DEF Idle
    <3>2. /\ requests'[r].expiresIn = q.expiresIn /\ requests'[r].timer = q.timer - 1
          /\ requests'[r].valid = Less(q.valid)
      BY <2>2, <3>1, OlderSlot
    <3>3. LifeOf(q.expiresIn) > 2 * Timeout /\ q.valid >= LifeOf(q.expiresIn) - Timeout + q.timer
      BY <3>1 DEF Inv, IssuedHasTime
    <3>4. LifeOf(q.expiresIn) \in Nat /\ q.valid \in Nat /\ q.timer \in Nat
      BY <3>1, LifeOfType DEF IssuedReq, Spans
    <3> QED BY <3>2, <3>3, <3>4, MomoAssumption DEF Less
  <2>4. ASSUME NEW r \in Requests, requests'[r].kind = "sent"
        PROVE  requests'[r].valid > requests'[r].timer
    <3> DEFINE q == requests[r]
    <3>1. q.kind = "sent" /\ q # Idle /\ q \in SentReq
      BY <2>2, <2>4, OlderSlot, SlotKinds DEF Idle
    <3>2. requests'[r].timer = q.timer - 1 /\ requests'[r].valid = Less(q.valid)
      BY <2>2, <3>1, OlderSlot
    <3>3. q.valid > q.timer /\ q.timer > 0
      BY <2>2, <3>1 DEF Inv, SentHasTime
    <3>4. q.valid \in Nat /\ q.timer \in Nat
      BY <3>1 DEF SentReq, Spans
    <3> QED BY <3>2, <3>3, <3>4 DEF Less
  <2> QED BY <2>1, <2>3, <2>4 DEF IssuedHasTime, SentHasTime
<1>8. CASE Restart
  BY <1>8 DEF Restart, CacheHasTime, IssuedHasTime, SentHasTime, Idle
<1>9. CASE UNCHANGED vars
  BY <1>9 DEF vars, Inv, CacheHasTime, IssuedHasTime, SentHasTime
<1> QED BY <1>1, <1>2, <1>3, <1>4, <1>5, <1>6, <1>7, <1>8, <1>9 DEF Next, Call

\* Whatever the timeout is, a margin of two timeouts is enough: a request to
\* pay never carries a token MTN has given up, however many callers fetch
\* tokens and overwrite the cache (mtn-momo.service.ts:82, 108).
THEOREM TokensAreHonoured == Spec => []TokenIsHonoured
<1>1. Init => Inv
  BY DEF Init, Inv, MomoTypeOK, Request, Idle, CacheHasTime, IssuedHasTime, SentHasTime
<1>2. Inv /\ [Next]_vars => Inv'
  BY NextType, NextTime DEF Inv
<1>3. Inv => TokenIsHonoured
  <2> SUFFICES ASSUME Inv, NEW r \in Requests, requests[r].kind = "sent"
               PROVE  requests[r].valid > 0
    BY DEF TokenIsHonoured
  <2>1. requests[r] \in SentReq
    BY SlotKinds DEF Inv, MomoTypeOK
  <2> QED BY <2>1 DEF Inv, SentHasTime, SentReq, Spans
<1> QED BY <1>1, <1>2, <1>3, PTL DEF Spec

=============================================================================
