------------------------------- MODULE Users -------------------------------
(***************************************************************************)
(* Accounts and sites: users.service.ts, sites.service.ts and the tables   *)
(* users, sites and vendor_requests.                                       *)
(*                                                                         *)
(* Handlers run concurrently and hold no locks: what one reads may change  *)
(* before it writes.  A handler may stop before any of its writes, because *)
(* a call of it failed or the process ended.  An address stands for the    *)
(* email and the phone of an account, which are unique among all rows, the *)
(* deleted ones too.                                                       *)
(***************************************************************************)
EXTENDS Naturals, Sequences

CONSTANTS
    Addresses,
    Admin,         \* the address of the SUPER_ADMIN the database is seeded with
    NoUser,
    Sites,
    NoSite,
    Requests,      \* slots for handlers in flight
    Forms,         \* the bodies of registrations
    Changes,       \* the bodies of updates
    Keep,          \* a field that is not in the body
    MaxVendorRequests  \* bound on the vendor requests kept, all of one address

Roles    == {"SUPER_ADMIN", "SITE_MANAGER", "SUPPLIER", "CLIENT"}
Accounts == {"PERSONAL", "BUSINESS", "none"}
Lives    == {"none", "live", "deleted"}
Statuses == {"PENDING", "APPROVED"}

\* A reply is named for the request that sends it; "none" is a replyMessage of null.
Replies  == Requests \cup {"none"}
VendorRequest == [status : Statuses, replyMessage : Replies]

\* "business" stands for businessName, tinNumber and businessCertificateDocument.
Docs     == {"business", "nationalId"}
Homes    == Sites \cup {NoSite}

\* A password is one the owner chose, or the one that request r mailed.
Passwords == Requests \cup {"own"}

\* "named" says that the names and the phone are not blank.
Row == [life : Lives, role : Roles, home : Homes, account : Accounts,
        docs : SUBSET Docs, named : BOOLEAN, active : BOOLEAN,
        complete : BOOLEAN, password : Passwords]

Form == [endpoint : {"register", "client/personal", "client/business", "supplier",
                     "sitemanager", "vendor"},
         role : Roles, home : Homes, account : Accounts, docs : SUBSET Docs,
         password : {"none", "own"}]

Change == [role : Roles \cup {Keep}, account : Accounts \cup {Keep},
           named : BOOLEAN \cup {Keep}, active : BOOLEAN \cup {Keep},
           password : {"own", Keep}]

ASSUME UsersAssumption ==
    /\ Admin \in Addresses /\ NoUser \notin Addresses /\ NoSite \notin Sites
    /\ "own" \notin Requests
    /\ Forms \subseteq Form /\ Changes \subseteq Change
    /\ MaxVendorRequests \in Nat

VARIABLES
    user,     \* address -> row of users
    site,     \* site -> its deletedAt and managerId
    vendor,   \* the vendor requests, in order of createdAt
    req,      \* slot -> the handler in flight
    alone     \* history: the slot whose handler nothing overlapped so far

vars == <<user, site, vendor, req, alone>>

Idle == [op |-> "idle"]

MailReq   == [op : {"mail", "create"}, u : Addresses, row : Row]
FlagReq   == [op : {"flag"}, u : Addresses, complete : BOOLEAN]
UpdateReq == [op : {"update"}, u : Addresses, change : Changes]
RemoveReq == [op : {"remove"}, u : Addresses, role : Roles, home : Homes]
SiteReq   == [op : {"removeSite"}, s : Sites, managed : BOOLEAN]
ReplyReq  == [op : {"reply", "replied"}, v : Nat]

UsersTypeOK ==
    /\ user \in [Addresses -> Row]
    /\ site \in [Sites -> [life : Lives, manager : Addresses \cup {NoUser}]]
    /\ vendor \in Seq(VendorRequest)
    /\ req \in [Requests -> {Idle} \cup MailReq \cup FlagReq \cup UpdateReq \cup RemoveReq
                              \cup SiteReq \cup ReplyReq]
    /\ alone \subseteq Requests

NoRow == [life |-> "none", role |-> "CLIENT", home |-> NoSite, account |-> "none",
          docs |-> {}, named |-> FALSE, active |-> FALSE, complete |-> FALSE,
          password |-> "own"]

Init ==
    /\ user = [u \in Addresses |->
                 IF u = Admin
                 THEN [NoRow EXCEPT !.life = "live", !.role = "SUPER_ADMIN",
                         !.named = TRUE, !.active = TRUE]
                 ELSE NoRow]
    /\ site = [s \in Sites |-> [life |-> "none", manager |-> NoUser]]
    /\ vendor = << >>
    /\ req = [r \in Requests |-> Idle] /\ alone = {}

Exists(u) == user[u].life # "none"
Live(u)   == user[u].life = "live"

\* Request r begins as x; whatever else is in flight is overlapped from now on.
Begin(r, x) ==
    /\ req[r] = Idle
    /\ req' = [req EXCEPT ![r] = x]
    /\ alone' = IF \A q \in Requests : req[q] = Idle THEN {r} ELSE {}

Proceed(r, x) == req' = [req EXCEPT ![r] = x] /\ UNCHANGED alone

End(r) == req' = [req EXCEPT ![r] = Idle] /\ alone' = alone \ {r}

-----------------------------------------------------------------------------
(* Completeness of a profile *)

\* determineProfileCompleteness
Complete(row) ==
    /\ row.named
    /\ row.role = "SUPER_ADMIN" \/ row.home # NoSite
    /\ row.role = "CLIENT" /\ row.account # "BUSINESS" => "nationalId" \in row.docs
    /\ row.role = "SUPPLIER" \/ (row.role = "CLIENT" /\ row.account = "BUSINESS") =>
           Docs \subseteq row.docs

\* Fault: the business documents of suppliers are forgotten.
MissingOfClients(row) ==
    {f \in {"names", "siteId"} \cup Docs :
        \/ f = "names" /\ ~row.named
        \/ f = "siteId" /\ row.role # "SUPER_ADMIN" /\ row.home = NoSite
        \/ f = "nationalId" /\ row.role \in {"CLIENT", "SUPPLIER"} /\ f \notin row.docs
        \/ f = "business" /\ row.role = "CLIENT" /\ row.account = "BUSINESS"
             /\ f \notin row.docs}

\* getMissingFields
Missing(row) ==
    {f \in {"names", "siteId"} \cup Docs :
        \/ f = "names" /\ ~row.named
        \/ f = "siteId" /\ row.role # "SUPER_ADMIN" /\ row.home = NoSite
        \/ f = "nationalId" /\ row.role = "CLIENT" /\ row.account # "BUSINESS"
             /\ f \notin row.docs
        \/ f \in Docs /\ row.role = "CLIENT" /\ row.account = "BUSINESS" /\ f \notin row.docs
        \/ f \in Docs /\ row.role = "SUPPLIER" /\ f \notin row.docs}

\* The last step of register, update and getProfileCompleteness: the flag is
\* written from the row the handler got to see.
WriteFlag(r) ==
    /\ req[r].op = "flag"
    /\ user' = [user EXCEPT ![req[r].u].complete = req[r].complete]
    /\ End(r)
    /\ UNCHANGED <<site, vendor>>

\* getProfileCompleteness; its write is left out by the code when the flag of
\* the row it read agrees.
BeginProfile(r, u) ==
    /\ Exists(u)
    /\ \/ /\ user[u].complete # Complete(user[u])
          /\ Begin(r, [op |-> "flag", u |-> u, complete |-> Complete(user[u])])
       \/ /\ user[u].complete = Complete(user[u])
          /\ req[r] = Idle /\ UNCHANGED <<req, alone>>
    /\ UNCHANGED <<user, site, vendor>>

-----------------------------------------------------------------------------
(* register and its variants *)

Creators(endpoint) ==
    CASE endpoint = "register" -> Addresses \cup {NoUser}
      [] endpoint \in {"supplier", "sitemanager"} -> Addresses
      [] OTHER -> {NoUser}

RoleOf(f) ==
    CASE f.endpoint \in {"client/personal", "client/business"} -> "CLIENT"
      [] f.endpoint \in {"supplier", "vendor"} -> "SUPPLIER"
      [] f.endpoint = "sitemanager" -> "SITE_MANAGER"
      [] OTHER -> f.role

AccountOf(f) ==
    CASE f.endpoint = "client/business" -> "BUSINESS"
      [] f.endpoint \in {"supplier", "vendor"} /\ f.account = "none" -> "BUSINESS"
      [] RoleOf(f) = "CLIENT" /\ f.account = "none" -> "PERSONAL"
      [] OTHER -> f.account

\* The generated password, and one an administrator chose, are mailed.
PasswordOf(r, f, by) == IF f.password = "none" \/ by # NoUser THEN r ELSE "own"

NewRow(r, f, by) ==
    [life |-> "live", role |-> RoleOf(f), home |-> f.home, account |-> AccountOf(f),
     docs |-> f.docs, named |-> TRUE, active |-> TRUE, complete |-> FALSE,
     password |-> PasswordOf(r, f, by)]

\* validateUserCreation; the null of a creator without a site is not the
\* undefined of a body without one.
MayCreate(creator, role, home) ==
    \/ creator.role = "SUPER_ADMIN"
    \/ /\ creator.role = "SITE_MANAGER" /\ role \in {"SUPPLIER", "CLIENT"}
       /\ creator.home = home /\ home # NoSite

BeginRegister(r, f, by, u) ==
    /\ by \in Creators(f.endpoint)
    /\ RoleOf(f) # "CLIENT" => by # NoUser
    /\ by # NoUser => Live(by) /\ user[by].active /\ MayCreate(user[by], RoleOf(f), f.home)
    /\ ~Live(u)
    /\ Begin(r, [op |-> IF PasswordOf(r, f, by) = r THEN "mail" ELSE "create",
                 u |-> u, row |-> NewRow(r, f, by)])
    /\ UNCHANGED <<user, site, vendor>>

\* sendPasswordEmail returns as well when mail is disabled or could not be sent:
\* what follows is the same, and whether anybody was told the password is not kept.
SendCredentials(r) ==
    /\ req[r].op = "mail"
    /\ Proceed(r, [req[r] EXCEPT !.op = "create"])
    /\ UNCHANGED <<user, site, vendor>>

\* Fault: the address of a removed account is free.
VacantWhenRemoved(u) == ~Live(u)

\* The unique indexes on email and phone count every row.
Vacant(u) == ~Exists(u)

\* The indexes may refuse the address, and the foreign key a home that is no site.
CreateUser(r) ==
    /\ req[r].op = "create"
    /\ LET u == req[r].u
           row == req[r].row IN
       IF Vacant(u) /\ (row.home # NoSite => site[row.home].life # "none")
       THEN /\ user' = [user EXCEPT ![u] = row]
            /\ Proceed(r, [op |-> "flag", u |-> u, complete |-> Complete(row)])
       ELSE End(r) /\ UNCHANGED user
    /\ UNCHANGED <<site, vendor>>

-----------------------------------------------------------------------------
(* update and remove *)

MayUpdate(requester, target, c) ==
    /\ requester.role = "SITE_MANAGER" =>
           target.home = requester.home /\ c.role \in {Keep, target.role}
    /\ c.role = "SUPER_ADMIN" => requester.role = "SUPER_ADMIN"

BeginUpdate(r, by, u, c) ==
    /\ Exists(by) /\ Live(u) /\ MayUpdate(user[by], user[u], c)
    /\ Begin(r, [op |-> "update", u |-> u, change |-> c])
    /\ UNCHANGED <<user, site, vendor>>

Or(v, old) == IF v = Keep THEN old ELSE v

Changed(row, c) ==
    [row EXCEPT !.role = Or(c.role, @), !.account = Or(c.account, @),
                !.named = Or(c.named, @), !.active = Or(c.active, @),
                !.password = Or(c.password, @)]

\* Fault: the completeness is computed from the row that is replaced.
RecomputeBefore(before, after) == Complete(before)

\* What the flag is computed from.
Recompute(before, after) == Complete(after)

\* The row is written by its id, whatever happened to it since it was found.
WriteUpdate(r) ==
    /\ req[r].op = "update"
    /\ LET u == req[r].u
           row == Changed(user[u], req[r].change) IN
       /\ user' = [user EXCEPT ![u] = row]
       /\ Proceed(r, [op |-> "flag", u |-> u, complete |-> Recompute(user[u], row)])
    /\ UNCHANGED <<site, vendor>>

BeginRemove(r, by, u) ==
    /\ Exists(by) /\ Live(u)
    /\ user[by].role = "SITE_MANAGER" => user[u].home = user[by].home
    /\ Begin(r, [op |-> "remove", u |-> u, role |-> user[u].role, home |-> user[u].home])
    /\ UNCHANGED <<user, site, vendor>>

\* The site whose link to its manager is cleared, whoever that is.
ClearedSites(r) == IF req[r].role = "SITE_MANAGER" THEN {req[r].home} \cap Sites ELSE {}

Remove(r) ==
    /\ req[r].op = "remove"
    /\ user' = [user EXCEPT ![req[r].u] = [@ EXCEPT !.life = "deleted", !.active = FALSE]]
    /\ site' = [s \in Sites |->
                  IF s \in ClearedSites(r) THEN [site[s] EXCEPT !.manager = NoUser] ELSE site[s]]
    /\ End(r)
    /\ UNCHANGED <<vendor>>

-----------------------------------------------------------------------------
(* sites.service.ts *)

\* managerId refers to an account, any account, and is unique.
MayManage(u, s) ==
    u # NoUser => Exists(u) /\ \A t \in Sites \ {s} : site[t].manager # u

CreateSite(s, u) ==
    /\ site[s].life = "none" /\ MayManage(u, s)
    /\ site' = [site EXCEPT ![s] = [life |-> "live", manager |-> u]]
    /\ UNCHANGED <<user, vendor, req, alone>>

\* The body may name another manager, or null.
UpdateSite(s, u) ==
    /\ site[s].life # "none" /\ MayManage(u, s)
    /\ site' = [site EXCEPT ![s].manager = u]
    /\ UNCHANGED <<user, vendor, req, alone>>

BeginRemoveSite(r, s) ==
    /\ site[s].life = "live"
    /\ Begin(r, [op |-> "removeSite", s |-> s, managed |-> site[s].manager # NoUser])
    /\ UNCHANGED <<user, site, vendor>>

\* The nested update of a manager fails when the site has none any more.
RemoveSite(r) ==
    /\ req[r].op = "removeSite"
    /\ LET s == req[r].s
           u == site[s].manager IN
       IF ~req[r].managed
       THEN site' = [site EXCEPT ![s].life = "deleted"] /\ UNCHANGED user
       ELSE IF u = NoUser
       THEN UNCHANGED <<site, user>>
       ELSE /\ site' = [site EXCEPT ![s].life = "deleted"]
            /\ user' = [user EXCEPT ![u].active = FALSE]
    /\ End(r)
    /\ UNCHANGED <<vendor>>

-----------------------------------------------------------------------------
(* Vendor requests *)

CreateVendorRequest ==
    /\ Len(vendor) < MaxVendorRequests
    /\ vendor' = Append(vendor, [status |-> "PENDING", replyMessage |-> "none"])
    /\ UNCHANGED <<user, site, req, alone>>

\* The latest request of the address is the one replied to.
BeginReply(r) ==
    /\ vendor # << >>
    /\ Begin(r, [op |-> "reply", v |-> Len(vendor)])
    /\ UNCHANGED <<user, site, vendor>>

\* What was said before is replaced.
RecordReply(r) ==
    /\ req[r].op = "reply"
    /\ vendor' = [vendor EXCEPT ![req[r].v] = [status |-> "APPROVED", replyMessage |-> r]]
    /\ Proceed(r, [req[r] EXCEPT !.op = "replied"])
    /\ UNCHANGED <<user, site>>

\* The mail to the vendor, whether or not it is sent.
SendReply(r) ==
    /\ req[r].op = "replied"
    /\ End(r)
    /\ UNCHANGED <<user, site, vendor>>

-----------------------------------------------------------------------------

\* A call of the handler fails, or the process ends; nothing is rolled back,
\* because no handler writes twice in one transaction.
Stop(r) ==
    /\ req[r] # Idle
    /\ End(r)
    /\ UNCHANGED <<user, site, vendor>>

Accept(r) ==
    \/ \E f \in Forms, by \in Addresses \cup {NoUser}, u \in Addresses : BeginRegister(r, f, by, u)
    \/ \E u \in Addresses : BeginProfile(r, u)
    \/ \E by, u \in Addresses, c \in Changes : BeginUpdate(r, by, u, c)
    \/ \E by, u \in Addresses : BeginRemove(r, by, u)
    \/ \E s \in Sites : BeginRemoveSite(r, s)
    \/ BeginReply(r)

Step(r) ==
    \/ SendCredentials(r) \/ CreateUser(r) \/ WriteUpdate(r) \/ WriteFlag(r)
    \/ Remove(r) \/ RemoveSite(r)
    \/ RecordReply(r) \/ SendReply(r)
    \/ Stop(r)

Next ==
    \/ \E r \in Requests : Accept(r) \/ Step(r)
    \/ \E s \in Sites, u \in Addresses \cup {NoUser} : CreateSite(s, u) \/ UpdateSite(s, u)
    \/ CreateVendorRequest

Spec == Init /\ [][Next]_vars

-----------------------------------------------------------------------------
(* Properties *)

\* Of two registrations of one address that overlap, and of one that comes after
\* the account was removed, the later is refused: the account keeps its site and
\* its documents, its password becomes no other but one the owner chose, and a
\* removed account is not revived (users.service.ts:65, 89).
AccountsAreKept ==
    [][\A u \in Addresses : Exists(u) =>
          /\ user'[u].home = user[u].home /\ user'[u].docs = user[u].docs
          /\ user'[u].password \in {user[u].password, "own"}
          /\ user'[u].life \in {user[u].life, "deleted"}]_vars

\* An account is complete exactly when the fields reported as missing are none
\* (users.service.ts:136, 211).
CompleteMissesNothing ==
    \A u \in Addresses : Exists(u) => (Complete(user[u]) <=> Missing(user[u]) = {})

\* A registration, an update or a reading of the profile that nothing overlaps
\* leaves isProfileComplete as the row says, whatever stopped or overlapped
\* before it (users.service.ts:197, 413).
FlagIsRepaired ==
    [][\A r \in Requests :
          WriteFlag(r) /\ r \in alone =>
              user'[req[r].u].complete = Complete(user'[req[r].u])]_vars

=============================================================================
