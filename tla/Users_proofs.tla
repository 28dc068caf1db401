---------------------------- MODULE Users_proofs ----------------------------
(***************************************************************************)
(* Theorems about Users for any addresses, sites and bodies of requests,   *)
(* and any number of overlapping handlers that may stop anywhere.          *)
(***************************************************************************)
EXTENDS Users, SequenceTheorems, TLAPS

-----------------------------------------------------------------------------
(* Type correctness *)

Request == {Idle} \cup MailReq \cup FlagReq \cup UpdateReq \cup RemoveReq \cup SiteReq
             \cup ReplyReq

LEMMA SlotKinds ==
    ASSUME NEW q \in Request
    PROVE  /\ q.op \in {"mail", "create"} => q \in MailReq
           /\ q.op = "flag" => q \in FlagReq
           /\ q.op = "update" => q \in UpdateReq
           /\ q.op = "remove" => q \in RemoveReq
           /\ q.op = "removeSite" => q \in SiteReq
           /\ q.op \in {"reply", "replied"} => q \in ReplyReq
           /\ q = Idle => q.op = "idle"
BY DEF Request, Idle, MailReq, FlagReq, UpdateReq, RemoveReq, SiteReq, ReplyReq

LEMMA CompleteType ==
    ASSUME NEW row \in Row
    PROVE  Complete(row) \in BOOLEAN
BY DEF Complete, Row

LEMMA InitType == Init => UsersTypeOK
<1> SUFFICES ASSUME Init PROVE UsersTypeOK
  OBVIOUS
<1>1. NoRow \in Row /\ [NoRow EXCEPT !.life = "live", !.role = "SUPER_ADMIN",
                          !.named = TRUE, !.active = TRUE] \in Row
  BY DEF NoRow, Row, Lives, Roles, Homes, Accounts, Passwords
<1> QED BY <1>1 DEF Init, UsersTypeOK, Lives

LEMMA BeginType ==
    ASSUME UsersTypeOK, NEW r \in Requests, NEW x \in Request, Begin(r, x)
    PROVE  req' \in [Requests -> Request] /\ alone' \subseteq Requests
BY DEF UsersTypeOK, Begin, Request

LEMMA ProceedType ==
    ASSUME UsersTypeOK, NEW r \in Requests, NEW x \in Request, Proceed(r, x)
    PROVE  req' \in [Requests -> Request] /\ alone' \subseteq Requests
BY DEF UsersTypeOK, Proceed, Request

LEMMA EndType ==
    ASSUME UsersTypeOK, NEW r \in Requests, End(r)
    PROVE  req' \in [Requests -> Request] /\ alone' \subseteq Requests
BY DEF UsersTypeOK, End, Request

LEMMA FormType ==
    ASSUME NEW r \in Requests, NEW f \in Forms, NEW by
    PROVE  NewRow(r, f, by) \in Row
<1>1. f \in Form
  BY UsersAssumption
<1>2. RoleOf(f) \in Roles /\ AccountOf(f) \in Accounts
  BY <1>1 DEF Form, RoleOf, AccountOf, Roles, Accounts
<1>3. PasswordOf(r, f, by) \in Passwords
  BY DEF PasswordOf, Passwords
<1> QED BY <1>1, <1>2, <1>3 DEF NewRow, Row, Form, Lives

LEMMA ChangedType ==
    ASSUME NEW row \in Row, NEW c \in Changes
    PROVE  Changed(row, c) \in Row
<1>1. c \in Change
  BY UsersAssumption
<1>2. /\ Or(c.role, row.role) \in Roles /\ Or(c.account, row.account) \in Accounts
      /\ Or(c.named, row.named) \in BOOLEAN /\ Or(c.active, row.active) \in BOOLEAN
      /\ Or(c.password, row.password) \in Passwords
  BY <1>1 DEF Change, Or, Row, Passwords
<1> QED BY <1>2 DEF Changed, Row

\* Beginning a handler keeps the types.
LEMMA AcceptType ==
    ASSUME UsersTypeOK, NEW r \in Requests, Accept(r)
    PROVE  UsersTypeOK'
<1> USE DEF UsersTypeOK
<1>1. ASSUME NEW f \in Forms, NEW by \in Addresses \cup {NoUser}, NEW u \in Addresses,
             BeginRegister(r, f, by, u)
      PROVE  UsersTypeOK'
  <2> DEFINE x == [op |-> IF PasswordOf(r, f, by) = r THEN "mail" ELSE "create",
                   u |-> u, row |-> NewRow(r, f, by)]
  <2>1. x \in Request
    BY FormType DEF Request, MailReq
  <2>2. Begin(r, x) /\ UNCHANGED <<user, site, vendor>>
    BY <1>1 DEF BeginRegister
  <2> HIDE DEF x
  <2> QED BY <2>1, <2>2, BeginType DEF Request
<1>2. ASSUME NEW u \in Addresses, BeginProfile(r, u) PROVE UsersTypeOK'
  <2>1. [op |-> "flag", u |-> u, complete |-> Complete(user[u])] \in Request
    BY CompleteType DEF Request, FlagReq
  <2> QED BY <1>2, <2>1, BeginType DEF BeginProfile, Request
<1>3. ASSUME NEW by \in Addresses, NEW u \in Addresses, NEW c \in Changes,
             BeginUpdate(r, by, u, c)
      PROVE  UsersTypeOK'
  <2>1. [op |-> "update", u |-> u, change |-> c] \in Request
    BY DEF Request, UpdateReq
  <2> QED BY <1>3, <2>1, BeginType DEF BeginUpdate, Request
<1>4. ASSUME NEW by \in Addresses, NEW u \in Addresses, BeginRemove(r, by, u)
      PROVE  UsersTypeOK'
  <2>1. [op |-> "remove", u |-> u, role |-> user[u].role, home |-> user[u].home] \in Request
    BY DEF Request, RemoveReq, Row
  <2> QED BY <1>4, <2>1, BeginType DEF BeginRemove, Request
<1>5. ASSUME NEW s \in Sites, BeginRemoveSite(r, s) PROVE UsersTypeOK'
  <2>1. [op |-> "removeSite", s |-> s, managed |-> site[s].manager # NoUser] \in Request
    BY DEF Request, SiteReq
  <2> QED BY <1>5, <2>1, BeginType DEF BeginRemoveSite, Request
<1>6. CASE BeginReply(r)
  <2>1. [op |-> "reply", v |-> Len(vendor)] \in Request
    BY DEF Request, ReplyReq
  <2> QED BY <1>6, <2>1, BeginType DEF BeginReply, Request
<1> QED BY <1>1, <1>2, <1>3, <1>4, <1>5, <1>6 DEF Accept

\* What a handler writes keeps the types.
LEMMA StepType ==
    ASSUME UsersTypeOK, NEW r \in Requests, Step(r)
    PROVE  UsersTypeOK'
<1> USE DEF UsersTypeOK
<1>0. req[r] \in Request
  BY DEF Request
<1>1. CASE SendCredentials(r)
  <2>1. req[r] \in MailReq
    BY <1>0, <1>1, SlotKinds DEF SendCredentials
  <2>2. [req[r] EXCEPT !.op = "create"] \in Request
    BY <2>1 DEF Request, MailReq
  <2>3. req' \in [Requests -> Request] /\ alone' \subseteq Requests
    BY <1>1, <2>2, ProceedType DEF SendCredentials
  <2> QED BY <1>1, <2>3 DEF SendCredentials, Request
<1>2. CASE CreateUser(r)
  <2>1. req[r] \in MailReq
    BY <1>0, <1>2, SlotKinds DEF CreateUser
  <2>2. [op |-> "flag", u |-> req[r].u, complete |-> Complete(req[r].row)] \in Request
    BY <2>1, CompleteType DEF Request, MailReq, FlagReq
  <2>3. req' \in [Requests -> Request] /\ alone' \subseteq Requests
    BY <1>2, <2>2, ProceedType, EndType DEF CreateUser
  <2>4. user' \in [Addresses -> Row]
    BY <1>2, <2>1 DEF CreateUser, MailReq
  <2> QED BY <1>2, <2>3, <2>4 DEF CreateUser, Request
<1>3. CASE WriteUpdate(r)
  <2>1. req[r] \in UpdateReq
    BY <1>0, <1>3, SlotKinds DEF WriteUpdate
  <2> DEFINE u == req[r].u
             row == Changed(user[u], req[r].change)
  <2>2. u \in Addresses /\ row \in Row
    BY <2>1, ChangedType DEF UpdateReq
  <2>3. [op |-> "flag", u |-> u, complete |-> Recompute(user[u], row)] \in Request
    BY <2>2, CompleteType DEF Request, FlagReq, Recompute
  <2>4. /\ Proceed(r, [op |-> "flag", u |-> u, complete |-> Recompute(user[u], row)])
        /\ user' = [user EXCEPT ![u] = row]
        /\ UNCHANGED <<site, vendor>>
    BY <1>3 DEF WriteUpdate
  <2> HIDE DEF u, row
  <2>5. req' \in [Requests -> Request] /\ alone' \subseteq Requests
    BY <2>3, <2>4, ProceedType
  <2> QED BY <2>2, <2>4, <2>5 DEF Request
<1>4. CASE WriteFlag(r)
  <2>1. req[r] \in FlagReq
    BY <1>0, <1>4, SlotKinds DEF WriteFlag
  <2>2. user' \in [Addresses -> Row]
    BY <1>4, <2>1 DEF WriteFlag, FlagReq, Row
  <2> QED BY <1>4, <2>2, EndType DEF WriteFlag, Request
<1>5. CASE Remove(r)
  <2>1. req[r] \in RemoveReq
    BY <1>0, <1>5, SlotKinds DEF Remove
  <2>2. req[r].u \in Addresses
    BY <2>1 DEF RemoveReq
  <2>4. ASSUME NEW row \in Row PROVE [row EXCEPT !.life = "deleted", !.active = FALSE] \in Row
    BY DEF Row, Lives
  <2>5. user' \in [Addresses -> Row]
    BY <1>5, <2>2, <2>4 DEF Remove
  <2>3. site' \in [Sites -> [life : Lives, manager : Addresses \cup {NoUser}]]
    BY <1>5 DEF Remove
  <2> QED BY <1>5, <2>3, <2>5, EndType DEF Remove, Request
<1>6. CASE RemoveSite(r)
  <2>1. req[r] \in SiteReq
    BY <1>0, <1>6, SlotKinds DEF RemoveSite
  <2> DEFINE u == site[req[r].s].manager
  <2>4. u \in Addresses \cup {NoUser}
    BY <2>1 DEF SiteReq
  <2>5. ASSUME NEW row \in Row PROVE [row EXCEPT !.active = FALSE] \in Row
    BY DEF Row
  <2>6. user' = user \/ (u # NoUser /\ user' = [user EXCEPT ![u].active = FALSE])
    BY <1>6 DEF RemoveSite
  <2> HIDE DEF u
  <2>2. user' \in [Addresses -> Row]
    BY <2>4, <2>5, <2>6
  <2>3. site' \in [Sites -> [life : Lives, manager : Addresses \cup {NoUser}]]
    BY <1>6, <2>1 DEF RemoveSite, SiteReq, Lives
  <2> QED BY <1>6, <2>2, <2>3, EndType DEF RemoveSite, Request
<1>7. CASE RecordReply(r)
  <2>1. req[r] \in ReplyReq
    BY <1>0, <1>7, SlotKinds DEF RecordReply
  <2>2. [req[r] EXCEPT !.op = "replied"] \in Request
    BY <2>1 DEF Request, ReplyReq
  <2> DEFINE answer == [status |-> "APPROVED", replyMessage |-> r]
  <2>3. vendor' \in Seq(VendorRequest)
    <3>1. vendor' = [vendor EXCEPT ![req[r].v] = answer] /\ answer \in VendorRequest
      BY <1>7 DEF RecordReply, VendorRequest, Replies, Statuses
    <3> HIDE DEF answer
    <3>2. CASE req[r].v \in 1..Len(vendor)
      BY <3>1, <3>2, ExceptSeq
    <3>3. CASE req[r].v \notin 1..Len(vendor)
      <4>1. vendor \in [1..Len(vendor) -> VendorRequest]
        BY LenProperties
      <4>2. DOMAIN vendor = 1..Len(vendor)
        BY <4>1
      <4>3. [vendor EXCEPT ![req[r].v] = answer] = vendor
        BY <3>3, <4>1, <4>2
      <4> QED BY <3>1, <4>3
    <3> QED BY <3>2, <3>3
  <2> QED BY <1>7, <2>2, <2>3, ProceedType DEF RecordReply, Request
<1>8. CASE SendReply(r)
  <2>1. req[r] \in ReplyReq
    BY <1>0, <1>8, SlotKinds DEF SendReply
  <2> QED BY <1>8, <2>1, EndType DEF SendReply, Request, ReplyReq
<1>9. CASE Stop(r)
  BY <1>9, EndType DEF Stop, Request
<1> QED BY <1>1, <1>2, <1>3, <1>4, <1>5, <1>6, <1>7, <1>8, <1>9 DEF Step

LEMMA NextType == UsersTypeOK /\ [Next]_vars => UsersTypeOK'
<1> SUFFICES ASSUME UsersTypeOK, [Next]_vars PROVE UsersTypeOK'
  OBVIOUS
<1>1. CASE \E r \in Requests : Accept(r) \/ Step(r)
  BY <1>1, AcceptType, StepType
<1>2. ASSUME NEW s \in Sites, NEW u \in Addresses \cup {NoUser}, CreateSite(s, u)
      PROVE  UsersTypeOK'
  BY <1>2 DEF UsersTypeOK, CreateSite, Lives
<1>3. ASSUME NEW s \in Sites, NEW u \in Addresses \cup {NoUser}, UpdateSite(s, u)
      PROVE  UsersTypeOK'
  BY <1>3 DEF UsersTypeOK, UpdateSite
<1>4. CASE CreateVendorRequest
  <2>1. [status |-> "PENDING", replyMessage |-> "none"] \in VendorRequest
    BY DEF VendorRequest, Statuses, Replies
  <2> QED BY <1>4, <2>1, AppendProperties DEF UsersTypeOK, CreateVendorRequest
<1>5. CASE UNCHANGED vars
  BY <1>5 DEF UsersTypeOK, vars
<1> QED BY <1>1, <1>2, <1>3, <1>4, <1>5 DEF Next

\* Accounts, sites and the handlers in flight stay well typed
\* (users.service.ts, sites.service.ts).
THEOREM TypeCorrect == Spec => []UsersTypeOK
<1>1. Init => UsersTypeOK
  BY InitType
<1>2. UsersTypeOK /\ [Next]_vars => UsersTypeOK'
  BY NextType
<1> QED BY <1>1, <1>2, PTL DEF Spec

-----------------------------------------------------------------------------
(* Accounts are kept *)

\* The row u of the table is that of the same account, removed at most.
SameAccount(u) ==
    /\ user'[u].home = user[u].home /\ user'[u].docs = user[u].docs
    /\ user'[u].password \in {user[u].password, "own"}
    /\ user'[u].life \in {user[u].life, "deleted"}

LEMMA UpdatedAccount ==
    ASSUME NEW row \in Row, NEW c \in Changes, NEW new, new = Changed(row, c)
    PROVE  /\ new.home = row.home /\ new.docs = row.docs /\ new.life = row.life
           /\ new.password \in {row.password, "own"}
<1>1. c \in Change
  BY UsersAssumption
<1>2. /\ new.home = row.home /\ new.docs = row.docs /\ new.life = row.life
      /\ new.password = Or(c.password, row.password)
  BY DEF Changed, Row
<1> QED BY <1>1, <1>2 DEF Or, Change

\* Only CreateUser writes all of a row, and only where there was none.
LEMMA StepKeepsAccounts ==
    ASSUME UsersTypeOK, NEW r \in Requests, Step(r), NEW u \in Addresses, Exists(u)
    PROVE  SameAccount(u)
<1> USE DEF UsersTypeOK
<1>0. user[u] \in Row /\ req[r] \in Request
  BY DEF Request
<1>1. ASSUME UNCHANGED user PROVE SameAccount(u)
  BY <1>1 DEF SameAccount
<1>2. CASE CreateUser(r)
  <2>1. CASE UNCHANGED user
    BY <1>1, <2>1
  <2>2. CASE ~UNCHANGED user
    <3>1. Vacant(req[r].u) /\ user' = [user EXCEPT ![req[r].u] = req[r].row]
      BY <1>2, <2>2 DEF CreateUser
    <3>2. req[r].u # u
      BY <3>1 DEF Vacant
    <3> QED BY <3>1, <3>2 DEF SameAccount
  <2> QED BY <2>1, <2>2
<1>3. CASE WriteUpdate(r)
  <2>1. req[r] \in UpdateReq
    BY <1>0, <1>3, SlotKinds DEF WriteUpdate
  <2> DEFINE o == req[r].u
             row == Changed(user[o], req[r].change)
  <2>2. user' = [user EXCEPT ![o] = row] /\ o \in Addresses /\ req[r].change \in Changes
    BY <1>3, <2>1 DEF WriteUpdate, UpdateReq
  <2>3. CASE o = u
    <3>1. user'[u] = Changed(user[u], req[r].change)
      BY <2>2, <2>3
    <3> QED BY <1>0, <2>2, <3>1, UpdatedAccount DEF SameAccount
  <2>4. CASE o # u
    BY <2>2, <2>4 DEF SameAccount
  <2> QED BY <2>3, <2>4
<1>4. CASE WriteFlag(r)
  <2>1. user' = [user EXCEPT ![req[r].u].complete = req[r].complete]
    BY <1>4 DEF WriteFlag
  <2> QED BY <1>0, <2>1 DEF SameAccount, Row
<1>5. CASE Remove(r)
  <2>1. user' = [user EXCEPT ![req[r].u] = [@ EXCEPT !.life = "deleted", !.active = FALSE]]
    BY <1>5 DEF Remove
  <2> QED BY <1>0, <2>1 DEF SameAccount, Row
<1>6. CASE RemoveSite(r)
  <2>1. UNCHANGED user \/ \E o : user' = [user EXCEPT ![o].active = FALSE]
    BY <1>6 DEF RemoveSite
  <2> QED BY <1>0, <2>1 DEF SameAccount, Row
<1> QED BY <1>1, <1>2, <1>3, <1>4, <1>5, <1>6
        DEF Step, SendCredentials, RecordReply, SendReply, Stop

\* Whatever registrations of one address overlap, and whether its account was
\* removed since, the account keeps its site and its documents, its password
\* becomes no other but one the owner chose, and it is not revived
\* (users.service.ts:65, 89).
THEOREM AccountsStay == Spec => AccountsAreKept
<1>1. ASSUME UsersTypeOK, [Next]_vars, NEW u \in Addresses, Exists(u)
      PROVE  SameAccount(u)
  <2>1. ASSUME NEW r \in Requests, Accept(r) PROVE UNCHANGED user
    BY <2>1 DEF Accept, BeginRegister, BeginProfile, BeginUpdate, BeginRemove,
                BeginRemoveSite, BeginReply
  <2>2. CASE UNCHANGED user
    BY <2>2 DEF SameAccount
  <2>3. CASE \E r \in Requests : Step(r)
    BY <1>1, <2>3, StepKeepsAccounts
  <2> QED BY <1>1, <2>1, <2>2, <2>3 DEF Next, CreateSite, UpdateSite, CreateVendorRequest, vars
<1>2. UsersTypeOK /\ [Next]_vars => [\A u \in Addresses : Exists(u) =>
          /\ user'[u].home = user[u].home /\ user'[u].docs = user[u].docs
          /\ user'[u].password \in {user[u].password, "own"}
          /\ user'[u].life \in {user[u].life, "deleted"}]_vars
  BY <1>1 DEF SameAccount
<1> QED BY <1>2, TypeCorrect, PTL DEF Spec, AccountsAreKept

-----------------------------------------------------------------------------
(* Completeness *)

\* The two readings of a profile agree on every row a table may hold, and so on
\* every row it comes to hold (users.service.ts:136, 211).
THEOREM ProfilesAgree == Spec => []CompleteMissesNothing
<1>1. ASSUME NEW row \in Row PROVE Complete(row) <=> Missing(row) = {}
  <2>1. /\ "names" \in Missing(row) <=> ~row.named
        /\ "siteId" \in Missing(row) <=> (row.role # "SUPER_ADMIN" /\ row.home = NoSite)
        /\ "nationalId" \in Missing(row) <=>
              row.role \in {"CLIENT", "SUPPLIER"} /\ "nationalId" \notin row.docs
        /\ "business" \in Missing(row) <=>
              (row.role = "SUPPLIER" \/ (row.role = "CLIENT" /\ row.account = "BUSINESS"))
                /\ "business" \notin row.docs
        /\ Missing(row) \subseteq {"names", "siteId", "nationalId", "business"}
    BY DEF Missing, Docs
  <2>2. Complete(row) <=>
           /\ row.named /\ (row.role = "SUPER_ADMIN" \/ row.home # NoSite)
           /\ row.role \in {"CLIENT", "SUPPLIER"} => "nationalId" \in row.docs
           /\ row.role = "SUPPLIER" \/ (row.role = "CLIENT" /\ row.account = "BUSINESS")
                 => "business" \in row.docs
    BY DEF Complete, Docs, Row
  <2> QED BY <2>1, <2>2
<1>2. UsersTypeOK => CompleteMissesNothing
  BY <1>1 DEF UsersTypeOK, CompleteMissesNothing
<1> QED BY <1>2, TypeCorrect, PTL

\* What a handler that nothing overlapped is about to write is what the row says.
FlagInv ==
    \A r \in alone :
        /\ \A q \in Requests \ {r} : req[q] = Idle
        /\ req[r].op = "flag" => req[r].complete = Complete(user[req[r].u])

LEMMA StepKeepsFlags ==
    ASSUME UsersTypeOK, FlagInv, NEW r \in Requests, Accept(r) \/ Step(r)
    PROVE  FlagInv'
<1> USE DEF UsersTypeOK
<1>0. req[r] \in Request
  BY DEF Request
\* A handler begins.
<1>1. ASSUME NEW x, Begin(r, x), UNCHANGED user,
             x.op = "flag" => x.complete = Complete(user[x.u])
      PROVE  FlagInv'
  <2>1. req'[r] = x /\ \A q \in Requests \ {r} : req'[q] = req[q]
    BY <1>1 DEF Begin
  <2>2. alone' = {} \/ (alone' = {r} /\ \A q \in Requests : req[q] = Idle)
    BY <1>1 DEF Begin
  <2> QED BY <1>1, <2>1, <2>2 DEF FlagInv
\* A handler goes on, and only it is in flight if it is alone.
<1>2. ASSUME alone' \subseteq alone, req[r] # Idle,
             \A q \in Requests \ {r} : req'[q] = req[q],
             r \in alone' => (req'[r].op = "flag" => req'[r].complete = Complete(user'[req'[r].u]))
      PROVE  FlagInv'
  <2>1. \A q \in alone : q = r
    BY <1>2 DEF FlagInv
  <2> QED BY <1>2, <2>1 DEF FlagInv
<1>3. CASE Accept(r)
  <2>1. ASSUME NEW f \in Forms, NEW by \in Addresses \cup {NoUser}, NEW u \in Addresses,
               BeginRegister(r, f, by, u)
        PROVE  FlagInv'
    <3> DEFINE x == [op |-> IF PasswordOf(r, f, by) = r THEN "mail" ELSE "create",
                     u |-> u, row |-> NewRow(r, f, by)]
    <3>1. Begin(r, x) /\ UNCHANGED user /\ x.op # "flag"
      BY <2>1 DEF BeginRegister
    <3> HIDE DEF x
    <3> QED BY <1>1, <3>1
  <2>2. ASSUME NEW u \in Addresses, BeginProfile(r, u) PROVE FlagInv'
    <3>1. CASE UNCHANGED <<req, alone>>
      BY <2>2, <3>1 DEF BeginProfile, FlagInv
    <3> DEFINE x == [op |-> "flag", u |-> u, complete |-> Complete(user[u])]
    <3>2. CASE Begin(r, x)
      <4>1. UNCHANGED user /\ x.complete = Complete(user[x.u])
        BY <2>2 DEF BeginProfile
      <4> HIDE DEF x
      <4> QED BY <1>1, <3>2, <4>1
    <3> QED BY <2>2, <3>1, <3>2 DEF BeginProfile
  <2>3. ASSUME NEW by \in Addresses, NEW u \in Addresses, NEW c \in Changes,
               BeginUpdate(r, by, u, c)
        PROVE  FlagInv'
    <3> DEFINE x == [op |-> "update", u |-> u, change |-> c]
    <3>1. Begin(r, x) /\ UNCHANGED user /\ x.op # "flag"
      BY <2>3 DEF BeginUpdate
    <3> HIDE DEF x
    <3> QED BY <1>1, <3>1
  <2>4. ASSUME NEW by \in Addresses, NEW u \in Addresses, BeginRemove(r, by, u)
        PROVE  FlagInv'
    <3> DEFINE x == [op |-> "remove", u |-> u, role |-> user[u].role, home |-> user[u].home]
    <3>1. Begin(r, x) /\ UNCHANGED user /\ x.op # "flag"
      BY <2>4 DEF BeginRemove
    <3> HIDE DEF x
    <3> QED BY <1>1, <3>1
  <2>5. ASSUME NEW s \in Sites, BeginRemoveSite(r, s) PROVE FlagInv'
    <3> DEFINE x == [op |-> "removeSite", s |-> s, managed |-> site[s].manager # NoUser]
    <3>1. Begin(r, x) /\ UNCHANGED user /\ x.op # "flag"
      BY <2>5 DEF BeginRemoveSite
    <3> HIDE DEF x
    <3> QED BY <1>1, <3>1
  <2>6. CASE BeginReply(r)
    <3> DEFINE x == [op |-> "reply", v |-> Len(vendor)]
    <3>1. Begin(r, x) /\ UNCHANGED user /\ x.op # "flag"
      BY <2>6 DEF BeginReply
    <3> HIDE DEF x
    <3> QED BY <1>1, <3>1
  <2> QED BY <1>3, <2>1, <2>2, <2>3, <2>4, <2>5, <2>6 DEF Accept
<1>4. CASE SendCredentials(r)
  <2>1. req[r] \in MailReq
    BY <1>0, <1>4, SlotKinds DEF SendCredentials
  <2> QED BY <1>2, <1>4, <2>1 DEF SendCredentials, Proceed, MailReq, Idle
<1>5. CASE RecordReply(r)
  <2>1. req[r] \in ReplyReq
    BY <1>0, <1>5, SlotKinds DEF RecordReply
  <2> QED BY <1>2, <1>5, <2>1 DEF RecordReply, Proceed, ReplyReq, Idle
<1>6. CASE End(r) /\ req[r] # Idle
  BY <1>2, <1>6 DEF End
<1>7. CASE CreateUser(r) /\ ~End(r)
  <2>1. req[r] \in MailReq
    BY <1>0, <1>7, SlotKinds DEF CreateUser
  <2> DEFINE u == req[r].u
             row == req[r].row
  <2>2. /\ Proceed(r, [op |-> "flag", u |-> u, complete |-> Complete(row)])
        /\ user' = [user EXCEPT ![u] = row]
    BY <1>7 DEF CreateUser
  <2>3. u \in Addresses /\ req[r] # Idle
    BY <1>7, <2>1 DEF MailReq, Idle, CreateUser
  <2> HIDE DEF u, row
  <2> QED BY <1>2, <2>2, <2>3 DEF Proceed
<1>8. CASE WriteUpdate(r)
  <2>1. req[r] \in UpdateReq
    BY <1>0, <1>8, SlotKinds DEF WriteUpdate
  <2> DEFINE u == req[r].u
             row == Changed(user[u], req[r].change)
  <2>2. /\ Proceed(r, [op |-> "flag", u |-> u, complete |-> Complete(row)])
        /\ user' = [user EXCEPT ![u] = row]
    BY <1>8 DEF WriteUpdate, Recompute
  <2>3. u \in Addresses /\ req[r] # Idle
    BY <1>8, <2>1 DEF UpdateReq, Idle, WriteUpdate
  <2> HIDE DEF u, row
  <2> QED BY <1>2, <2>2, <2>3 DEF Proceed
<1>9. Step(r) => req[r] # Idle
  <2>1. Idle.op = "idle"
    BY DEF Idle
  <2>2. SendCredentials(r) \/ CreateUser(r) => req[r].op \in {"mail", "create"}
    BY DEF SendCredentials, CreateUser
  <2>3. WriteUpdate(r) \/ WriteFlag(r) => req[r].op \in {"update", "flag"}
    BY DEF WriteUpdate, WriteFlag
  <2>4. Remove(r) \/ RemoveSite(r) => req[r].op \in {"remove", "removeSite"}
    BY DEF Remove, RemoveSite
  <2>5. RecordReply(r) \/ SendReply(r) => req[r].op \in {"reply", "replied"}
    BY DEF RecordReply, SendReply
  <2>6. Stop(r) => req[r] # Idle
    BY DEF Stop
  <2> QED BY <2>1, <2>2, <2>3, <2>4, <2>5, <2>6 DEF Step
<1> QED BY <1>3, <1>4, <1>5, <1>6, <1>7, <1>8, <1>9
        DEF Step, WriteFlag, Remove, RemoveSite, SendReply, Stop

\* A handler that nothing overlapped leaves the flag as the row says, whatever
\* it found and whatever came before it (users.service.ts:197, 413).
THEOREM FlagsAreRepaired == Spec => FlagIsRepaired
<1> DEFINE Inv == UsersTypeOK /\ FlagInv
<1>1. Init => Inv
  BY InitType DEF Init, FlagInv
<1>2. Inv /\ [Next]_vars => Inv'
  <2> SUFFICES ASSUME Inv, [Next]_vars PROVE FlagInv'
    BY NextType
  <2>1. CASE \E r \in Requests : Accept(r) \/ Step(r)
    BY <2>1, StepKeepsFlags
  <2>2. CASE UNCHANGED <<user, req, alone>>
    BY <2>2 DEF FlagInv
  <2> QED BY <2>1, <2>2 DEF Next, CreateSite, UpdateSite, CreateVendorRequest, vars
<1>3. Inv => \A r \in Requests : WriteFlag(r) /\ r \in alone =>
                user'[req[r].u].complete = Complete(user'[req[r].u])
  <2> SUFFICES ASSUME Inv, NEW r \in Requests, WriteFlag(r), r \in alone
               PROVE  user'[req[r].u].complete = Complete(user'[req[r].u])
    OBVIOUS
  <2>1. req[r] \in FlagReq
    BY SlotKinds DEF WriteFlag, UsersTypeOK, Request
  <2> DEFINE u == req[r].u
             b == req[r].complete
  <2>2. u \in Addresses /\ b \in BOOLEAN /\ user[u] \in Row /\ b = Complete(user[u])
    BY <2>1 DEF FlagReq, UsersTypeOK, FlagInv, WriteFlag
  <2>3. user'[u] = [user[u] EXCEPT !.complete = b]
    BY <2>2 DEF WriteFlag, UsersTypeOK
  <2> HIDE DEF u, b
  <2>4. [user[u] EXCEPT !.complete = b].complete = b
    BY <2>2 DEF Row
  <2>5. Complete([user[u] EXCEPT !.complete = b]) = Complete(user[u])
    BY <2>2 DEF Row, Complete
  <2>6. user'[u].complete = Complete(user'[u])
    BY <2>2, <2>3, <2>4, <2>5, Zenon
  <2> QED BY <2>6 DEF u
<1> QED BY <1>1, <1>2, <1>3, PTL DEF Spec, FlagIsRepaired

=============================================================================
