------------------------------ MODULE Sessions ------------------------------
(***************************************************************************)
(* Logins, codes and sessions: auth.service.ts, with the steps of          *)
(* users.service.ts and sites.service.ts that end or lock an account.      *)
(*                                                                         *)
(* The hash of the refresh token is all that is stored of a session.       *)
(* bcrypt hashes no more than 72 bytes, which all refresh tokens of an     *)
(* account have in common, so that the column tells whether the account is *)
(* logged in, and not which token it was given last.  Passwords are left   *)
(* out: an attempt with a wrong one changes nothing.  A code is known by   *)
(* its place among the codes created for the account.                      *)
(***************************************************************************)
EXTENDS Naturals

CONSTANTS
    Users,
    Clients,   \* the users who log in without a code
    Requests,  \* slots for handlers in flight
    MaxCodes   \* bound on the codes created for one user

ASSUME SessionsAssumption == Clients \subseteq Users /\ MaxCodes \in Nat

VARIABLES
    account,  \* user -> live and active, deactivated, or removed
    session,  \* user -> whether a refreshToken is stored
    codes,    \* user -> the codes stored that have not expired
    issued,   \* user -> the number of codes created so far
    req,      \* slot -> the handler in flight
    spent,    \* history: <<user, code>> of the codes that led to a session
    closed    \* history: the users whose session ended for good: nobody who
              \* passed the checks before was still to store a token

vars == <<account, session, codes, issued, req, spent, closed>>

Accounts == {"active", "inactive", "removed"}
Codes    == 0..MaxCodes     \* 0 stands for no code

\* The call a handler is to make next.
Ops == {"idle",
        "create",             \* otp.create
        "renew",              \* otp.deleteMany, then otp.create
        "find", "findReset",  \* user.findFirst, after the code was found
        "clear",              \* otp.deleteMany, then the token
        "token",              \* user.update with the refreshToken
        "reset",              \* user.update with the password
        "clearReset"}         \* otp.deleteMany, last

Request == [op : Ops, u : Users, code : Codes]

SessionsTypeOK ==
    /\ account \in [Users -> Accounts]
    /\ session \in [Users -> BOOLEAN]
    /\ codes \in [Users -> SUBSET Codes]
    /\ issued \in [Users -> Codes]
    /\ req \in [Requests -> Request]
    /\ spent \subseteq Users \X Codes
    /\ closed \subseteq Users

Init ==
    /\ account = [u \in Users |-> "active"]
    /\ session = [u \in Users |-> FALSE]
    /\ codes = [u \in Users |-> {}]
    /\ issued = [u \in Users |-> 0]
    /\ req \in [Requests -> {q \in Request : q.op = "idle" /\ q.code = 0}]
    /\ spent = {} /\ closed = Users

Active(u) == account[u] = "active"

Begin(r, op, u, c) ==
    /\ req[r].op = "idle"
    /\ req' = [req EXCEPT ![r] = [op |-> op, u |-> u, code |-> c]]

Proceed(r, op) == req' = [req EXCEPT ![r].op = op]

End(r) == req' = [req EXCEPT ![r].op = "idle", ![r].code = 0]

\* Somebody passed the checks and is still to store a token for u.
Opening(u) == \E r \in Requests : req[r].u = u /\ req[r].op \in {"clear", "token"}

\* The session of u ends.
Close(u) ==
    /\ session' = [session EXCEPT ![u] = FALSE]
    /\ closed' = IF Opening(u) THEN closed ELSE closed \cup {u}

-----------------------------------------------------------------------------
(* login, refresh, logout *)

BeginLogin(r, u) ==
    /\ Active(u)
    /\ IF u \in Clients
       THEN Begin(r, "token", u, 0) /\ closed' = closed \ {u}
       ELSE Begin(r, "create", u, 0) /\ UNCHANGED closed
    /\ UNCHANGED <<account, session, codes, issued, spent>>

\* Fault: a missing hash refuses nobody.
MayRefreshAlways(u) == Active(u)

MayRefresh(u) == Active(u) /\ session[u]

BeginRefresh(r, u) ==
    /\ MayRefresh(u)
    /\ Begin(r, "token", u, 0)
    /\ UNCHANGED <<account, session, codes, issued, spent, closed>>

\* updateRefreshToken: the row is written by its id, whatever happened to it
\* since it was read.
StoreToken(r) ==
    /\ req[r].op = "token"
    /\ session' = [session EXCEPT ![req[r].u] = TRUE]
    /\ spent' = IF req[r].code = 0 THEN spent ELSE spent \cup {<<req[r].u, req[r].code>>}
    /\ End(r)
    /\ UNCHANGED <<account, codes, issued, closed>>

Logout(u) ==
    /\ Close(u)
    /\ UNCHANGED <<account, codes, issued, req, spent>>

-----------------------------------------------------------------------------
(* Codes *)

\* resendOtp and requestPasswordReset.
BeginRenew(r, u) ==
    /\ Active(u)
    /\ Begin(r, "renew", u, 0)
    /\ UNCHANGED <<account, session, codes, issued, spent, closed>>

ClearBeforeRenewal(r) ==
    /\ req[r].op = "renew"
    /\ codes' = [codes EXCEPT ![req[r].u] = {}]
    /\ Proceed(r, "create")
    /\ UNCHANGED <<account, session, issued, spent, closed>>

\* The mail that follows changes no table.
CreateCode(r) ==
    /\ req[r].op = "create"
    /\ LET u == req[r].u IN
       /\ issued[u] < MaxCodes
       /\ issued' = [issued EXCEPT ![u] = @ + 1]
       /\ codes' = [codes EXCEPT ![u] = @ \cup {issued[u] + 1}]
    /\ End(r)
    /\ UNCHANGED <<account, session, spent, closed>>

\* verifyOtp and resetPassword find the code first.
FindCode(r, op, u, c) ==
    /\ c \in codes[u]
    /\ Begin(r, op, u, c)
    /\ UNCHANGED <<account, session, codes, issued, spent, closed>>

FindUser(r) ==
    /\ req[r].op = "find" /\ Active(req[r].u)
    /\ Proceed(r, "clear")
    /\ closed' = closed \ {req[r].u}
    /\ UNCHANGED <<account, session, codes, issued, spent>>

\* Fault: only older codes are deleted.
DeletedOlder(r) == {c \in codes[req[r].u] : c < req[r].code}

Deleted(r) == codes[req[r].u]

ClearBeforeToken(r) ==
    /\ req[r].op = "clear"
    /\ codes' = [codes EXCEPT ![req[r].u] = @ \ Deleted(r)]
    /\ Proceed(r, "token")
    /\ UNCHANGED <<account, session, issued, spent, closed>>

FindUserToReset(r) ==
    /\ req[r].op = "findReset" /\ Active(req[r].u)
    /\ Proceed(r, "reset")
    /\ UNCHANGED <<account, session, codes, issued, spent, closed>>

WritePassword(r) ==
    /\ req[r].op = "reset"
    /\ Close(req[r].u)
    /\ Proceed(r, "clearReset")
    /\ UNCHANGED <<account, codes, issued, spent>>

ClearAfterReset(r) ==
    /\ req[r].op = "clearReset"
    /\ codes' = [codes EXCEPT ![req[r].u] = {}]
    /\ End(r)
    /\ UNCHANGED <<account, session, issued, spent, closed>>

\* Five minutes after its creation; expired rows stay but are not found.
Expire(u, c) ==
    /\ c \in codes[u]
    /\ codes' = [codes EXCEPT ![u] = @ \ {c}]
    /\ UNCHANGED <<account, session, issued, req, spent, closed>>

-----------------------------------------------------------------------------
(* Accounts *)

\* users.service.ts, update, and sites.service.ts, remove: isActive is written
\* and the token stays.
Switch(u) ==
    /\ account[u] # "removed"
    /\ account' = [account EXCEPT ![u] = IF @ = "active" THEN "inactive" ELSE "active"]
    /\ UNCHANGED <<session, codes, issued, req, spent, closed>>

\* users.service.ts, remove, in one transaction.
RemoveUser(u) ==
    /\ account[u] # "removed"
    /\ account' = [account EXCEPT ![u] = "removed"]
    /\ codes' = [codes EXCEPT ![u] = {}]
    /\ Close(u)
    /\ UNCHANGED <<issued, req, spent>>

\* A call of the handler fails, its account is not found, or the process ends.
Stop(r) ==
    /\ req[r].op # "idle"
    /\ End(r)
    /\ UNCHANGED <<account, session, codes, issued, spent, closed>>

Accept(r, u) ==
    \/ BeginLogin(r, u) \/ BeginRefresh(r, u) \/ BeginRenew(r, u)
    \/ \E c \in codes[u] : FindCode(r, "find", u, c) \/ FindCode(r, "findReset", u, c)

Step(r) ==
    \/ StoreToken(r)
    \/ ClearBeforeRenewal(r) \/ CreateCode(r)
    \/ FindUser(r) \/ ClearBeforeToken(r)
    \/ FindUserToReset(r) \/ WritePassword(r) \/ ClearAfterReset(r)
    \/ Stop(r)

Change(u) ==
    \/ Logout(u) \/ Switch(u) \/ RemoveUser(u)
    \/ \E c \in codes[u] : Expire(u, c)

Next ==
    \/ \E r \in Requests : Step(r) \/ \E u \in Users : Accept(r, u)
    \/ \E u \in Users : Change(u)

Spec == Init /\ [][Next]_vars

-----------------------------------------------------------------------------
(* Properties *)

\* A code that led to a session is stored no longer, however many handlers use,
\* renew and expire codes of the account meanwhile, and wherever they stop:
\* verifyOtp deletes the codes before it stores the token
\* (auth.service.ts:85-88).
SpentIsGone == \A s \in spent : s[2] \notin codes[s[1]]

\* A session that ended while nobody who had passed the checks was still to
\* store a token stays ended until somebody passes them anew: a refresh needs a
\* session, and everything that ends one ends all there is of it
\* (auth.service.ts:147, 160, 239; users.service.ts:497).
ClosedStaysClosed == \A u \in closed : ~session[u]

=============================================================================
