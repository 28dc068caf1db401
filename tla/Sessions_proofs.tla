--------------------------- MODULE Sessions_proofs ---------------------------
(***************************************************************************)
(* Theorems about Sessions for any users and any number of overlapping     *)
(* handlers that may stop anywhere.                                        *)
(***************************************************************************)
EXTENDS Sessions, TLAPS

USE DEF Codes, Accounts

-----------------------------------------------------------------------------
(* Type correctness *)

LEMMA InitType == Init => SessionsTypeOK
BY SessionsAssumption DEF Init, SessionsTypeOK, Request

LEMMA BeginType ==
    ASSUME SessionsTypeOK, NEW r \in Requests, NEW op \in Ops, NEW u \in Users,
           NEW c \in Codes, Begin(r, op, u, c)
    PROVE  req' \in [Requests -> Request]
BY DEF SessionsTypeOK, Begin, Request

LEMMA ProceedType ==
    ASSUME SessionsTypeOK, NEW r \in Requests, NEW op \in Ops, Proceed(r, op)
    PROVE  req' \in [Requests -> Request]
BY DEF SessionsTypeOK, Proceed, Request

LEMMA EndType ==
    ASSUME SessionsTypeOK, NEW r \in Requests, End(r)
    PROVE  req' \in [Requests -> Request]
<1>1. req[r] \in Request /\ "idle" \in Ops /\ 0 \in Codes
  BY SessionsAssumption DEF SessionsTypeOK, Ops
<1>2. [req[r] EXCEPT !.op = "idle", !.code = 0] \in Request
  BY <1>1 DEF Request
<1>3. req' = [req EXCEPT ![r] = [req[r] EXCEPT !.op = "idle", !.code = 0]]
  BY DEF End, SessionsTypeOK
<1> QED BY <1>2, <1>3 DEF SessionsTypeOK

LEMMA SlotType ==
    ASSUME SessionsTypeOK, NEW r \in Requests
    PROVE  req[r].op \in Ops /\ req[r].u \in Users /\ req[r].code \in Codes
BY DEF SessionsTypeOK, Request

LEMMA CloseType ==
    ASSUME SessionsTypeOK, NEW u \in Users, Close(u)
    PROVE  session' \in [Users -> BOOLEAN] /\ closed' \subseteq Users
BY DEF SessionsTypeOK, Close

LEMMA AcceptType ==
    ASSUME SessionsTypeOK, NEW r \in Requests, NEW u \in Users, Accept(r, u)
    PROVE  SessionsTypeOK'
<1>1. 0 \in Codes /\ {"token", "create", "renew", "find", "findReset"} \subseteq Ops
  BY SessionsAssumption DEF Ops
<1>2. CASE BeginLogin(r, u)
  BY <1>1, <1>2, BeginType DEF BeginLogin, SessionsTypeOK
<1>3. CASE BeginRefresh(r, u) \/ BeginRenew(r, u)
  BY <1>1, <1>3, BeginType DEF BeginRefresh, BeginRenew, SessionsTypeOK
<1>4. ASSUME NEW c \in codes[u], FindCode(r, "find", u, c) \/ FindCode(r, "findReset", u, c)
      PROVE  SessionsTypeOK'
  <2>1. c \in Codes
    BY DEF SessionsTypeOK
  <2> QED BY <1>1, <1>4, <2>1, BeginType DEF FindCode, SessionsTypeOK
<1> QED BY <1>2, <1>3, <1>4 DEF Accept

LEMMA StepType ==
    ASSUME SessionsTypeOK, NEW r \in Requests, Step(r)
    PROVE  SessionsTypeOK'
<1>1. {"create", "clear", "token", "reset", "clearReset"} \subseteq Ops
  BY DEF Ops
<1>2. req[r].op \in Ops /\ req[r].u \in Users /\ req[r].code \in Codes
  BY SlotType
<1>3. CASE StoreToken(r)
  <2>1. spent' \subseteq Users \X Codes
    BY <1>2, <1>3 DEF StoreToken, SessionsTypeOK
  <2> QED BY <1>2, <1>3, <2>1, EndType DEF StoreToken, SessionsTypeOK
<1>4. CASE ClearBeforeRenewal(r)
  BY <1>1, <1>2, <1>4, ProceedType DEF ClearBeforeRenewal, SessionsTypeOK
<1>5. CASE CreateCode(r)
  <2>1. issued[req[r].u] \in Nat /\ issued[req[r].u] + 1 \in Codes
    BY <1>2, <1>5, SessionsAssumption DEF CreateCode, SessionsTypeOK
  <2>2. codes' \in [Users -> SUBSET Codes] /\ issued' \in [Users -> Codes]
    BY <1>2, <1>5, <2>1 DEF CreateCode, SessionsTypeOK
  <2> QED BY <1>5, <2>2, EndType DEF CreateCode, SessionsTypeOK
<1>6. CASE FindUser(r) \/ FindUserToReset(r)
  BY <1>1, <1>6, ProceedType DEF FindUser, FindUserToReset, SessionsTypeOK
<1>7. CASE ClearBeforeToken(r)
  BY <1>1, <1>2, <1>7, ProceedType DEF ClearBeforeToken, SessionsTypeOK
<1>8. CASE WritePassword(r)
  BY <1>1, <1>2, <1>8, ProceedType, CloseType DEF WritePassword, SessionsTypeOK
<1>9. CASE ClearAfterReset(r) \/ Stop(r)
  BY <1>2, <1>9, EndType DEF ClearAfterReset, Stop, SessionsTypeOK
<1> QED BY <1>3, <1>4, <1>5, <1>6, <1>7, <1>8, <1>9 DEF Step

LEMMA ChangeType ==
    ASSUME SessionsTypeOK, NEW u \in Users, Change(u)
    PROVE  SessionsTypeOK'
<1>1. CASE Logout(u)
  BY <1>1, CloseType DEF Logout, SessionsTypeOK
<1>2. CASE Switch(u)
  BY <1>2 DEF Switch, SessionsTypeOK
<1>3. CASE RemoveUser(u)
  BY <1>3, CloseType DEF RemoveUser, SessionsTypeOK
<1>4. ASSUME NEW c \in codes[u], Expire(u, c)
      PROVE  SessionsTypeOK'
  BY <1>4 DEF Expire, SessionsTypeOK
<1> QED BY <1>1, <1>2, <1>3, <1>4 DEF Change

\* Accounts, sessions, codes and the handlers in flight are well typed in every
\* reachable state.
THEOREM TypeCorrect == Spec => []SessionsTypeOK
<1>1. ASSUME SessionsTypeOK, [Next]_vars PROVE SessionsTypeOK'
  <2>1. CASE Next
    BY <1>1, <2>1, AcceptType, StepType, ChangeType DEF Next
  <2>2. CASE UNCHANGED vars
    BY <1>1, <2>2 DEF vars, SessionsTypeOK
  <2> QED BY <1>1, <2>1, <2>2
<1> QED BY InitType, <1>1, PTL DEF Spec

-----------------------------------------------------------------------------
(* Codes that led to a session *)

\* Codes are numbered as they are created, and a handler that is about to store
\* a token for a code has deleted it.
SpentInv ==
    /\ \A u \in Users : \A c \in codes[u] : 0 < c /\ c <= issued[u]
    /\ \A r \in Requests : req[r].code <= issued[req[r].u]
    /\ \A s \in spent : s[2] <= issued[s[1]]
    /\ \A r \in Requests :
         req[r].op = "token" /\ req[r].code # 0 => req[r].code \notin codes[req[r].u]
    /\ SpentIsGone

\* The slots after a handler began, went on or ended.
LEMMA BeginSlots ==
    ASSUME SessionsTypeOK, NEW r \in Requests, NEW op, NEW u, NEW c, Begin(r, op, u, c)
    PROVE  \A q \in Requests :
             req'[q] = IF q = r THEN [op |-> op, u |-> u, code |-> c] ELSE req[q]
BY DEF SessionsTypeOK, Begin

LEMMA ProceedSlots ==
    ASSUME SessionsTypeOK, NEW r \in Requests, NEW op, Proceed(r, op)
    PROVE  \A q \in Requests : /\ req'[q].op = IF q = r THEN op ELSE req[q].op
                               /\ req'[q].u = req[q].u
                               /\ req'[q].code = req[q].code
BY DEF SessionsTypeOK, Request, Proceed

LEMMA EndSlots ==
    ASSUME SessionsTypeOK, NEW r \in Requests, End(r)
    PROVE  \A q \in Requests : /\ req'[q].op = IF q = r THEN "idle" ELSE req[q].op
                               /\ req'[q].u = req[q].u
                               /\ req'[q].code = IF q = r THEN 0 ELSE req[q].code
BY DEF SessionsTypeOK, Request, End

\* No handler takes up a code that is not stored, or stores a token for one
\* that is.
SlotsUseNone ==
    \A q \in Requests :
      \/ req'[q] = req[q]
      \/ /\ req'[q].u \in Users
         /\ req'[q].code = 0 \/ req'[q].code \in codes[req'[q].u]
         /\ req'[q].op = "token" => req'[q].code = 0
      \/ /\ req'[q].u = req[q].u /\ req'[q].code = req[q].code
         /\ req'[q].op = "token" => req[q].code \notin codes'[req[q].u]

LEMMA BeginUsesNone ==
    ASSUME SessionsTypeOK, NEW r \in Requests, NEW op, NEW u \in Users, NEW c,
           op = "token" => c = 0, c = 0 \/ c \in codes[u], Begin(r, op, u, c)
    PROVE  SlotsUseNone
<1> SUFFICES ASSUME NEW q \in Requests
             PROVE  \/ req'[q] = req[q]
                    \/ req'[q] = [op |-> op, u |-> u, code |-> c]
  BY DEF SlotsUseNone
<1> QED BY BeginSlots

LEMMA ProceedUsesNone ==
    ASSUME SessionsTypeOK, NEW r \in Requests, NEW op, Proceed(r, op),
           op = "token" => req[r].code \notin codes'[req[r].u]
    PROVE  SlotsUseNone
<1> SUFFICES ASSUME NEW q \in Requests
             PROVE  \/ req'[q] = req[q]
                    \/ /\ req'[q].u = req[q].u /\ req'[q].code = req[q].code
                       /\ req'[q].op = "token" => req[q].code \notin codes'[req[q].u]
  BY DEF SlotsUseNone
<1>1. CASE q = r
  BY <1>1, ProceedSlots
<1>2. CASE q # r
  BY <1>2 DEF Proceed, SessionsTypeOK
<1> QED BY <1>1, <1>2

LEMMA EndUsesNone ==
    ASSUME SessionsTypeOK, NEW r \in Requests, End(r)
    PROVE  SlotsUseNone
<1> SUFFICES ASSUME NEW q \in Requests
             PROVE  \/ req'[q] = req[q]
                    \/ /\ req'[q].u \in Users /\ req'[q].code = 0
                       /\ req'[q].op = "idle"
  BY DEF SlotsUseNone
<1>1. CASE q = r
  BY <1>1, EndSlots, SlotType
<1>2. CASE q # r
  BY <1>2 DEF End, SessionsTypeOK
<1> QED BY <1>1, <1>2

\* A step that adds no code, uses none, and leaves the slots of handlers that
\* store tokens alone or empties them.
LEMMA FewerCodes ==
    ASSUME SessionsTypeOK, SpentInv,
           \A u \in Users : codes'[u] \subseteq codes[u],
           spent' = spent, issued' = issued,
           SlotsUseNone
    PROVE  SpentInv'
<1> USE DEF SpentInv, SessionsTypeOK, SlotsUseNone
<1>1. ASSUME NEW q \in Requests
      PROVE  /\ req'[q].code <= issued'[req'[q].u]
             /\ req'[q].op = "token" /\ req'[q].code # 0
                  => req'[q].code \notin codes'[req'[q].u]
  <2>1. req[q].u \in Users
    BY SlotType
  <2>2. CASE req'[q] = req[q]
    BY <2>1, <2>2
  <2>3. CASE /\ req'[q].u \in Users
             /\ req'[q].code = 0 \/ req'[q].code \in codes[req'[q].u]
             /\ req'[q].op = "token" => req'[q].code = 0
    BY <2>3, SessionsAssumption
  <2>4. CASE /\ req'[q].u = req[q].u /\ req'[q].code = req[q].code
             /\ req'[q].op = "token" => req[q].code \notin codes'[req[q].u]
    BY <2>4
  <2> QED BY <2>2, <2>3, <2>4
<1>2. SpentIsGone'
  BY DEF SpentIsGone
<1> QED BY <1>1, <1>2

LEMMA AcceptSpent ==
    ASSUME SessionsTypeOK, SpentInv, NEW r \in Requests, NEW u \in Users, Accept(r, u)
    PROVE  SpentInv'
<1>1. CASE BeginLogin(r, u) \/ BeginRefresh(r, u) \/ BeginRenew(r, u)
  BY <1>1, BeginUsesNone, FewerCodes DEF BeginLogin, BeginRefresh, BeginRenew
<1>2. ASSUME NEW c \in codes[u], FindCode(r, "find", u, c) \/ FindCode(r, "findReset", u, c)
      PROVE  SpentInv'
  BY <1>2, BeginUsesNone, FewerCodes DEF FindCode
<1> QED BY <1>1, <1>2 DEF Accept

LEMMA StepSpent ==
    ASSUME SessionsTypeOK, SpentInv, NEW r \in Requests, Step(r)
    PROVE  SpentInv'
<1>1. req[r].op \in Ops /\ req[r].u \in Users /\ req[r].code \in Codes
  BY SlotType
<1>2. CASE StoreToken(r)
  <2>1. \A q \in Requests : /\ req'[q].op = IF q = r THEN "idle" ELSE req[q].op
                            /\ req'[q].u = req[q].u
                            /\ req'[q].code = IF q = r THEN 0 ELSE req[q].code
    BY <1>2, EndSlots DEF StoreToken
  <2>2. codes' = codes /\ issued' = issued
    BY <1>2 DEF StoreToken
  <2>3. ASSUME NEW s \in spent'
        PROVE  s[2] <= issued[s[1]] /\ s[2] \notin codes[s[1]]
    BY <1>2 DEF StoreToken, SpentInv, SpentIsGone
  <2>4. ASSUME NEW q \in Requests
        PROVE  /\ req'[q].code <= issued'[req'[q].u]
               /\ req'[q].op = "token" /\ req'[q].code # 0
                    => req'[q].code \notin codes'[req'[q].u]
    <3>1. req[q].u \in Users /\ issued[req[q].u] \in Nat
      BY SlotType, SessionsAssumption DEF SessionsTypeOK
    <3> QED BY <2>1, <2>2, <3>1 DEF SpentInv
  <2> QED BY <2>2, <2>3, <2>4 DEF SpentInv, SpentIsGone
<1>3. CASE ClearBeforeRenewal(r) \/ ClearBeforeToken(r)
  <2>1. \A v \in Users : codes'[v] \subseteq codes[v]
    BY <1>1, <1>3 DEF ClearBeforeRenewal, ClearBeforeToken, SessionsTypeOK
  <2>2. req[r].code \notin codes'[req[r].u]
    BY <1>1, <1>3 DEF ClearBeforeRenewal, ClearBeforeToken, Deleted, SessionsTypeOK
  <2> QED BY <1>3, <2>1, <2>2, ProceedUsesNone, FewerCodes
          DEF ClearBeforeRenewal, ClearBeforeToken
<1>4. CASE CreateCode(r)
  <2> DEFINE u == req[r].u
  <2>1. /\ codes' = [codes EXCEPT ![u] = codes[u] \cup {issued[u] + 1}]
        /\ issued' = [issued EXCEPT ![u] = issued[u] + 1]
        /\ spent' = spent
    BY <1>4 DEF CreateCode
  <2>2. /\ \A v \in Users : issued[v] \in Nat /\ issued'[v] \in Nat
        /\ \A v \in Users : issued[v] <= issued'[v]
        /\ \A v \in Users : \A c \in codes'[v] :
             c \in codes[v] \/ (c = issued[v] + 1 /\ c = issued'[v])
    BY <1>1, <2>1, SessionsAssumption DEF SessionsTypeOK
  <2>3. ASSUME NEW v \in Users, NEW c \in codes'[v] PROVE 0 < c /\ c <= issued'[v]
    BY <2>2, SessionsAssumption DEF SpentInv, SessionsTypeOK
  <2>4. ASSUME NEW s \in spent' PROVE s[2] <= issued'[s[1]] /\ s[2] \notin codes'[s[1]]
    <3>1. s[1] \in Users /\ s[2] \in Nat /\ s[2] <= issued[s[1]] /\ s[2] \notin codes[s[1]]
      BY <2>1, SessionsAssumption DEF SessionsTypeOK, SpentInv, SpentIsGone
    <3> QED BY <2>2, <3>1
  <2>5. ASSUME NEW q \in Requests
        PROVE  /\ req'[q].code <= issued'[req'[q].u]
               /\ req'[q].op = "token" /\ req'[q].code # 0
                    => req'[q].code \notin codes'[req'[q].u]
    <3>1. /\ req'[q].op = IF q = r THEN "idle" ELSE req[q].op
          /\ req'[q].u = req[q].u
          /\ req'[q].code = IF q = r THEN 0 ELSE req[q].code
      BY <1>4, EndSlots DEF CreateCode
    <3>2. /\ req[q].u \in Users /\ req[q].code \in Nat
          /\ req[q].code <= issued[req[q].u]
          /\ req[q].op = "token" /\ req[q].code # 0 => req[q].code \notin codes[req[q].u]
      BY SlotType, SessionsAssumption DEF SpentInv
    <3> QED BY <2>2, <3>1, <3>2
  <2> QED BY <2>3, <2>4, <2>5 DEF SpentInv, SpentIsGone
<1>5. CASE FindUser(r) \/ FindUserToReset(r) \/ WritePassword(r)
  <2>1. codes' = codes /\ issued' = issued /\ spent' = spent
    BY <1>5 DEF FindUser, FindUserToReset, WritePassword
  <2>2. \E op \in {"clear", "reset", "clearReset"} : Proceed(r, op)
    BY <1>5 DEF FindUser, FindUserToReset, WritePassword
  <2>3. SlotsUseNone
    BY <2>2, ProceedUsesNone
  <2> QED BY <2>1, <2>3, FewerCodes
<1>6. CASE ClearAfterReset(r) \/ Stop(r)
  <2>1. issued' = issued /\ spent' = spent /\ End(r)
    BY <1>6 DEF ClearAfterReset, Stop
  <2>2. \A v \in Users : codes'[v] \subseteq codes[v]
    BY <1>1, <1>6 DEF ClearAfterReset, Stop, SessionsTypeOK
  <2> QED BY <2>1, <2>2, EndUsesNone, FewerCodes
<1> QED BY <1>2, <1>3, <1>4, <1>5, <1>6 DEF Step

LEMMA ChangeSpent ==
    ASSUME SessionsTypeOK, SpentInv, NEW u \in Users, Change(u)
    PROVE  SpentInv'
<1>1. CASE Logout(u) \/ Switch(u) \/ RemoveUser(u)
  <2>1. /\ issued' = issued /\ spent' = spent /\ req' = req
        /\ \A v \in Users : codes'[v] \subseteq codes[v]
    BY <1>1 DEF Logout, Switch, RemoveUser, SessionsTypeOK
  <2>2. SlotsUseNone
    BY <2>1 DEF SlotsUseNone
  <2> QED BY <2>1, <2>2, FewerCodes
<1>2. ASSUME NEW c \in codes[u], Expire(u, c)
      PROVE  SpentInv'
  <2>1. /\ issued' = issued /\ spent' = spent /\ req' = req
        /\ \A v \in Users : codes'[v] \subseteq codes[v]
    BY <1>2 DEF Expire, SessionsTypeOK
  <2>2. SlotsUseNone
    BY <2>1 DEF SlotsUseNone
  <2> QED BY <2>1, <2>2, FewerCodes
<1> QED BY <1>1, <1>2 DEF Change

\* A code that led to a session is stored no longer: a handler deletes all the
\* codes of the address before it stores the token, codes created later are
\* other codes, and no handler puts one back.
THEOREM SpentCodesAreGone == Spec => []SpentIsGone
<1>1. Init => SpentInv
  <2> SUFFICES ASSUME Init PROVE SpentInv
    OBVIOUS
  <2>1. \A r \in Requests : req[r].u \in Users /\ req[r].code = 0
    BY DEF Init, Request
  <2>2. \A u \in Users : codes[u] = {} /\ issued[u] = 0
    BY DEF Init
  <2> QED BY <2>1, <2>2 DEF Init, SpentInv, SpentIsGone
<1>2. ASSUME SessionsTypeOK, SpentInv, [Next]_vars PROVE SpentInv'
  <2>1. CASE Next
    BY <1>2, <2>1, AcceptSpent, StepSpent, ChangeSpent DEF Next
  <2>2. CASE UNCHANGED vars
    BY <1>2, <2>2 DEF vars, SpentInv, SpentIsGone
  <2> QED BY <1>2, <2>1, <2>2
<1>3. SpentInv => SpentIsGone
  BY DEF SpentInv
<1> QED BY <1>1, <1>2, <1>3, TypeCorrect, PTL DEF Spec

-----------------------------------------------------------------------------
(* Sessions that ended *)

\* Nobody is about to store a token for a user whose session ended for good.
ClosedInv == \A u \in closed : ~session[u] /\ ~Opening(u)

\* Beginning a handler opens no session but the one of its user.
LEMMA BeginOpening ==
    ASSUME SessionsTypeOK, NEW r \in Requests, NEW op, NEW u, NEW c, Begin(r, op, u, c)
    PROVE  \A w : Opening(w)' => Opening(w) \/ (w = u /\ op \in {"clear", "token"})
<1>1. \A q \in Requests :
        req'[q] = IF q = r THEN [op |-> op, u |-> u, code |-> c] ELSE req[q]
  BY BeginSlots
<1>2. \A q \in Requests : /\ q = r => req'[q].op = op /\ req'[q].u = u
                          /\ q # r => req'[q] = req[q]
  BY <1>1
<1> QED BY <1>2 DEF Opening

LEMMA AcceptClosed ==
    ASSUME SessionsTypeOK, ClosedInv, NEW r \in Requests, NEW u \in Users, Accept(r, u)
    PROVE  ClosedInv'
<1>1. CASE BeginLogin(r, u) /\ u \in Clients
  <2>1. Begin(r, "token", u, 0) /\ closed' = closed \ {u} /\ session' = session
    BY <1>1 DEF BeginLogin
  <2> QED BY <2>1, BeginOpening DEF ClosedInv
<1>2. ASSUME NEW op \in {"create", "renew", "find", "findReset"}, NEW c,
             Begin(r, op, u, c), closed' = closed, session' = session
      PROVE  ClosedInv'
  <2>1. \A w : Opening(w)' => Opening(w)
    BY <1>2, BeginOpening
  <2> QED BY <1>2, <2>1 DEF ClosedInv
<1>3. CASE BeginRefresh(r, u)
  <2>1. Begin(r, "token", u, 0) /\ closed' = closed /\ session' = session
    BY <1>3 DEF BeginRefresh
  <2>2. u \notin closed
    BY <1>3 DEF BeginRefresh, MayRefresh, ClosedInv
  <2> QED BY <2>1, <2>2, BeginOpening DEF ClosedInv
<1>4. CASE BeginLogin(r, u) /\ u \notin Clients
  BY <1>2, <1>4 DEF BeginLogin
<1>5. CASE BeginRenew(r, u)
  BY <1>2, <1>5 DEF BeginRenew
<1>6. ASSUME NEW c \in codes[u], FindCode(r, "find", u, c) \/ FindCode(r, "findReset", u, c)
      PROVE  ClosedInv'
  BY <1>2, <1>6 DEF FindCode
<1> QED BY <1>1, <1>3, <1>4, <1>5, <1>6 DEF Accept

LEMMA StepClosed ==
    ASSUME SessionsTypeOK, ClosedInv, NEW r \in Requests, Step(r)
    PROVE  ClosedInv'
<1>1. CASE StoreToken(r)
  <2>1. req[r].u \notin closed
    BY <1>1 DEF StoreToken, ClosedInv, Opening
  <2>2. closed' = closed /\ \A u \in closed' : ~session'[u]
    BY <1>1, <2>1 DEF StoreToken, ClosedInv, SessionsTypeOK
  <2>3. \A q \in Requests : /\ req'[q].op = IF q = r THEN "idle" ELSE req[q].op
                            /\ req'[q].u = req[q].u
    BY <1>1, EndSlots DEF StoreToken
  <2> QED BY <2>2, <2>3 DEF ClosedInv, Opening
<1>2. CASE ClearBeforeRenewal(r)
  <2>1. Proceed(r, "create") /\ closed' = closed /\ session' = session
    BY <1>2 DEF ClearBeforeRenewal
  <2> QED BY <2>1, ProceedSlots DEF ClosedInv, Opening
<1>3. CASE CreateCode(r) \/ ClearAfterReset(r) \/ Stop(r)
  <2>1. End(r) /\ closed' = closed /\ session' = session
    BY <1>3 DEF CreateCode, ClearAfterReset, Stop
  <2> QED BY <2>1, EndSlots DEF ClosedInv, Opening
<1>4. CASE FindUser(r)
  <2>1. Proceed(r, "clear") /\ closed' = closed \ {req[r].u} /\ session' = session
    BY <1>4 DEF FindUser
  <2> QED BY <2>1, ProceedSlots DEF ClosedInv, Opening
<1>5. CASE ClearBeforeToken(r)
  <2>1. Proceed(r, "token") /\ closed' = closed /\ session' = session
    BY <1>5 DEF ClearBeforeToken
  <2>2. req[r].u \notin closed
    BY <1>5 DEF ClearBeforeToken, ClosedInv, Opening
  <2> QED BY <2>1, <2>2, ProceedSlots DEF ClosedInv, Opening
<1>6. CASE FindUserToReset(r)
  <2>1. Proceed(r, "reset") /\ closed' = closed /\ session' = session
    BY <1>6 DEF FindUserToReset
  <2> QED BY <2>1, ProceedSlots DEF ClosedInv, Opening
<1>7. CASE WritePassword(r)
  <2> DEFINE u == req[r].u
  <2>1. Proceed(r, "clearReset") /\ Close(u)
    BY <1>7 DEF WritePassword
  <2>2. \A w \in Users : Opening(w)' => Opening(w)
    BY <2>1, ProceedSlots DEF Opening
  <2>3. \A w \in closed' : w \in Users /\ (w \in closed \/ (w = u /\ ~Opening(u)))
    BY <2>1, SlotType DEF Close, SessionsTypeOK
  <2>4. \A w \in Users : session'[w] = IF w = u THEN FALSE ELSE session[w]
    BY <2>1 DEF Close, SessionsTypeOK
  <2> QED BY <2>2, <2>3, <2>4 DEF ClosedInv
<1> QED BY <1>1, <1>2, <1>3, <1>4, <1>5, <1>6, <1>7 DEF Step

LEMMA ChangeClosed ==
    ASSUME SessionsTypeOK, ClosedInv, NEW u \in Users, Change(u)
    PROVE  ClosedInv'
<1>1. CASE Logout(u) \/ RemoveUser(u)
  <2>1. Close(u) /\ req' = req
    BY <1>1 DEF Logout, RemoveUser
  <2>2. \A w \in Users : Opening(w)' = Opening(w)
    BY <2>1 DEF Opening
  <2>3. \A w \in closed' : w \in Users /\ (w \in closed \/ (w = u /\ ~Opening(u)))
    BY <2>1 DEF Close, SessionsTypeOK
  <2>4. \A w \in Users : session'[w] = IF w = u THEN FALSE ELSE session[w]
    BY <2>1 DEF Close, SessionsTypeOK
  <2> QED BY <2>2, <2>3, <2>4 DEF ClosedInv
<1>2. CASE Switch(u) \/ \E c \in codes[u] : Expire(u, c)
  BY <1>2 DEF Switch, Expire, ClosedInv, Opening
<1> QED BY <1>1, <1>2 DEF Change

\* A session that ended while nobody who had passed the checks was still to
\* store a token stays ended until somebody passes them anew.
THEOREM ClosedSessionsStayClosed == Spec => []ClosedStaysClosed
<1>1. Init => ClosedInv
  BY DEF Init, ClosedInv, Opening
<1>2. ASSUME SessionsTypeOK, ClosedInv, [Next]_vars PROVE ClosedInv'
  <2>1. CASE Next
    BY <1>2, <2>1, AcceptClosed, StepClosed, ChangeClosed DEF Next
  <2>2. CASE UNCHANGED vars
    BY <1>2, <2>2 DEF vars, ClosedInv, Opening
  <2> QED BY <1>2, <2>1, <2>2
<1>3. ClosedInv => ClosedStaysClosed
  BY DEF ClosedInv, ClosedStaysClosed
<1> QED BY <1>1, <1>2, <1>3, TypeCorrect, PTL DEF Spec

=============================================================================
