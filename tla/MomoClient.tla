----------------------------- MODULE MomoClient -----------------------------
(***************************************************************************)
(* The MTN client of mtn-momo.service.ts: one cached access token, which   *)
(* every request to pay uses while it looks fresh, and which callers that  *)
(* find it stale each replace by a new one.                                *)
(*                                                                         *)
(* Nobody tells the client when MTN issued a token: it counts the lifetime *)
(* from the arrival of the answer, and takes a margin off.  Whether the    *)
(* margin is wide enough depends on how long the two requests, for the     *)
(* token and with it, may be on their way.                                 *)
(*                                                                         *)
(* Time is kept as what is left of each span, not as a clock: Tick takes   *)
(* one unit off all of them.  A token is known by what is left of it.      *)
(***************************************************************************)
EXTENDS Integers

CONSTANTS
    Requests,    \* request slots: how many callers overlap
    Lifetimes,   \* how long the tokens live that MTN issues
    DefaultLifetime, \* what the client takes for a missing expires_in
    Timeout,     \* the timeout of the axios instance
    Margin       \* what is taken off the lifetime of a token

\* 60 s are twice 30 s, and MTN's tokens live for an hour.
ASSUME MomoAssumption ==
    /\ Timeout \in Nat \ {0}
    /\ Margin \in Nat /\ Margin >= 2 * Timeout
    /\ Lifetimes \subseteq {l \in Nat : l > 2 * Timeout}
    /\ DefaultLifetime \in Nat /\ DefaultLifetime > 2 * Timeout

VARIABLES
    tokenCache,  \* fresh: expiresAt - now; valid: what MTN will honour
    requests     \* each caller, with what is left of its timeout

vars == <<tokenCache, requests>>

Spans       == 0 .. Timeout
Idle        == [kind |-> "idle"]
AskingReq   == [kind: {"asking"}, timer: Spans]
IssuedReq   == [kind: {"issued"}, timer: Spans, expiresIn: Nat, valid: Nat]
SentReq     == [kind: {"sent"}, timer: Spans, valid: Nat]
AnsweredReq == [kind: {"answered"}, timer: Spans]
Request     == {Idle} \cup AskingReq \cup IssuedReq \cup SentReq \cup AnsweredReq

MomoTypeOK ==
    /\ tokenCache \in [fresh: Nat, valid: Nat]
    /\ requests \in [Requests -> Request]

Init ==
    /\ tokenCache = [fresh |-> 0, valid |-> 0]
    /\ requests = [r \in Requests |-> Idle]

-----------------------------------------------------------------------------

Less(n) == IF n > 0 THEN n - 1 ELSE 0

Continue(r, slot) == requests' = [requests EXCEPT ![r] = slot]

Fresh == tokenCache.fresh > 0

\* POST requesttopay, with a new reference.
Send(r, valid) ==
    Continue(r, [kind |-> "sent", timer |-> Timeout, valid |-> valid])

\* getAccessToken finds a token in the cache.
UseCached(r) ==
    /\ requests[r] = Idle
    /\ Fresh
    /\ Send(r, tokenCache.valid)
    /\ UNCHANGED tokenCache

\* It finds none and asks MTN, whoever else is asking.
AskToken(r) ==
    /\ requests[r] = Idle
    /\ ~Fresh
    /\ Continue(r, [kind |-> "asking", timer |-> Timeout])
    /\ UNCHANGED tokenCache

\* expires_in is optional in the answer; 0 and no value are the same to the
\* client.
Untold == 0

\* External: what MTN says of a token that lives l.  It is assumed to leave
\* the lifetime out only of tokens that live as long as the client will take
\* them to live.
Told(l) == {l} \cup {u \in {Untold} : l >= DefaultLifetime}

\* External: MTN issues a token, whose lifetime begins.
IssueToken(r) ==
    /\ requests[r].kind = "asking"
    /\ \E l \in Lifetimes : \E e \in Told(l) :
        Continue(r, [kind |-> "issued", timer |-> requests[r].timer,
                     expiresIn |-> e, valid |-> l])
    /\ UNCHANGED tokenCache

\* Fault: the margin covers one request.
FreshForOneTimeout(life) == life - Timeout
FreshFor(life) == IF life > Margin THEN life - Margin ELSE 0

\* expires_in || 3600.
LifeOf(expiresIn) == IF expiresIn = Untold THEN DefaultLifetime ELSE expiresIn

\* sanitizePhoneNumber finds no number of Rwanda, and nothing is sent.
RefuseNumber(r) == Continue(r, Idle)

\* The answer arrives: the cache is overwritten, and the caller goes on.
ReceiveToken(r) ==
    LET q == requests[r] IN
    /\ q.kind = "issued"
    /\ tokenCache' = [fresh |-> FreshFor(LifeOf(q.expiresIn)), valid |-> q.valid]
    /\ Send(r, q.valid) \/ RefuseNumber(r)

\* External: MTN looks at the token and answers.
Answer(r) ==
    /\ requests[r].kind = "sent"
    /\ Continue(r, [kind |-> "answered", timer |-> requests[r].timer])
    /\ UNCHANGED tokenCache

Return(r) ==
    /\ requests[r].kind = "answered"
    /\ Continue(r, Idle)
    /\ UNCHANGED tokenCache

\* Fault: only the request for a token has a timeout.
FailAsking(r) ==
    /\ requests[r].kind = "asking"
    /\ Continue(r, Idle)
    /\ UNCHANGED tokenCache

\* The timeout, a network error or a refusal of MTN: the caller gets an
\* exception, and the cache is left as it is, also when the refusal is a 401.
Fail(r) ==
    /\ requests[r] # Idle
    /\ Continue(r, Idle)
    /\ UNCHANGED tokenCache

Older(q) ==
    CASE q.kind = "idle" -> q
      [] q.kind = "issued" -> [q EXCEPT !.timer = @ - 1, !.valid = Less(@)]
      [] q.kind = "sent" -> [q EXCEPT !.timer = @ - 1, !.valid = Less(@)]
      [] OTHER -> [q EXCEPT !.timer = @ - 1]

\* Time passes until the first timeout, which is then due.
Tick ==
    /\ \A r \in Requests : requests[r] # Idle => requests[r].timer > 0
    /\ tokenCache' = [fresh |-> Less(tokenCache.fresh), valid |-> Less(tokenCache.valid)]
    /\ requests' = [r \in Requests |-> Older(requests[r])]

\* The process starts anew with an empty cache; its callers are gone.
Restart ==
    /\ tokenCache' = [fresh |-> 0, valid |-> 0]
    /\ requests' = [r \in Requests |-> Idle]

Call(r) ==
    \/ UseCached(r) \/ AskToken(r) \/ IssueToken(r) \/ ReceiveToken(r)
    \/ Answer(r) \/ Return(r) \/ Fail(r)

Next == (\E r \in Requests : Call(r)) \/ Tick \/ Restart

Spec == Init /\ [][Next]_vars

\* Time passes, and a timeout that is due fires.
FairSpec ==
    /\ Spec
    /\ WF_vars(Tick)
    /\ \A r \in Requests : WF_vars(requests[r] # Idle /\ requests[r].timer = 0 /\ Fail(r))

-----------------------------------------------------------------------------
(* Properties *)

\* As long as a request to pay is on its way, MTN still honours the token it
\* carries, although the client does not know when the token was issued,
\* callers overwrite each other's token, and both requests may take as long as
\* their timeout (mtn-momo.service.ts:82, 108).
TokenIsHonoured ==
    \A r \in Requests : requests[r].kind = "sent" => requests[r].valid > 0

\* Every call of the client ends, with an answer or an exception, also when
\* MTN is silent (mtn-momo.service.ts:52): initiatePayment never hangs.
CallsEnd == \A r \in Requests : requests[r] # Idle ~> requests[r] = Idle

=============================================================================
