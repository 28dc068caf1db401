------------------------------ MODULE Payments ------------------------------
(***************************************************************************)
(* Settling invoices: payments.service.ts, the MoMo webhook, and markPaid  *)
(* and voidInvoice of invoices.service.ts over the tables invoices and     *)
(* payments.                                                               *)
(*                                                                         *)
(* A payment is known to MTN before its row exists, MTN may repeat its     *)
(* answer or deliver it at any time, and invoices.paidAmount is always     *)
(* written as a value computed from an earlier read.  The update of a      *)
(* payment row locks the row until its transaction ends; nothing locks an  *)
(* invoice between its read and its write.                                 *)
(***************************************************************************)
EXTENDS Integers, FiniteSetsExt

CONSTANTS
    Invoices,        \* invoice ids
    Payments,        \* payment rows to be; also the references sent to MTN
    Requests,        \* request slots: how many handlers overlap
    NoPayment,       \* an invoice is marked paid for no payment in particular
    Total,           \* invoice -> totalAmount
    Amounts,         \* amounts a manager may record by hand
    Kinds,           \* the requests of managers: "manual", "mark", "void"
    SystemUserRow,   \* the users table has a row with id 'SYSTEM'
    MaxCredits       \* bound: credits of an invoice at which managers stop

ASSUME PaymentsAssumption ==
    /\ Invoices # {}
    /\ Total \in [Invoices -> Nat]
    /\ Amounts \subseteq Nat \ {0}
    /\ NoPayment \notin Payments
    /\ SystemUserRow \in BOOLEAN
    /\ MaxCredits \in Nat

VARIABLES
    paid,        \* invoices.paidAmount
    invStatus,   \* invoices.status, or "none" when there is no row yet
    payStatus,   \* payments.status, or "none" when there is no row yet
    payInvoice,  \* payments.invoiceId
    payAmount,   \* payments.amount
    answer,      \* external: what MTN knows of the reference
    acked,       \* external: the references MTN got HTTP 200 for
    requests,    \* what each handler in flight has read
    credits,     \* history: sum of the amounts credited to an invoice
    credited     \* history: how often a payment was credited to its invoice

invoiceVars == <<paid, invStatus, credits, credited>>
paymentVars == <<payStatus, payInvoice, payAmount>>
mtnVars     == <<answer, acked>>
vars == <<invoiceVars, paymentVars, mtnVars, requests>>

Idle         == [kind |-> "idle"]
InitiateReq  == [kind: {"initiate"}, payment: Payments, invoice: Invoices, amount: Nat]
PaymentReq   == [kind: {"webhook", "reconcile", "fail", "manual", "marking"},
                 payment: Payments]
LockedReq    == [kind: {"locked"}, payment: Payments, invoice: Invoices, seenPaid: Nat]
MarkReq      == [kind: {"mark"}, invoice: Invoices, amount: Nat, seenPaid: Nat,
                 payment: Payments \cup {NoPayment}]
VoidReq      == [kind: {"void"}, invoice: Invoices]
Request      == {Idle} \cup InitiateReq \cup PaymentReq \cup LockedReq
                    \cup MarkReq \cup VoidReq

PaymentsTypeOK ==
    /\ paid \in [Invoices -> Nat]
    /\ invStatus \in [Invoices -> {"none", "UNPAID", "PAID", "VOID"}]
    /\ payStatus \in [Payments -> {"none", "PENDING", "PAID", "FAILED"}]
    /\ payInvoice \in [Payments -> Invoices]
    /\ payAmount \in [Payments -> Nat]
    /\ answer \in [Payments -> {"unknown", "asked", "SUCCESSFUL", "FAILED"}]
    /\ acked \in SUBSET Payments
    /\ requests \in [Requests -> Request]
    /\ credits \in [Invoices -> Nat]
    /\ credited \in [Payments -> Nat]

Init ==
    /\ paid = [i \in Invoices |-> 0]
    /\ invStatus = [i \in Invoices |-> "none"]
    /\ payStatus = [p \in Payments |-> "none"]
    /\ payInvoice = [p \in Payments |-> CHOOSE i \in Invoices : TRUE]
    /\ payAmount = [p \in Payments |-> 0]
    /\ answer = [p \in Payments |-> "unknown"]
    /\ acked = {}
    /\ requests = [r \in Requests |-> Idle]
    /\ credits = [i \in Invoices |-> 0]
    /\ credited = [p \in Payments |-> 0]

-----------------------------------------------------------------------------
(* What the handlers share *)

Begin(r, slot) ==
    /\ requests[r] = Idle
    /\ requests' = [requests EXCEPT ![r] = slot]
    /\ UNCHANGED <<invoiceVars, paymentVars, mtnVars>>

Continue(r, slot) == requests' = [requests EXCEPT ![r] = slot]
Finish(r) == Continue(r, Idle)
Ack(p) == acked' = acked \cup {p}

\* Fault: the transaction has locked the row before it asks for the lock on
\* another connection.
RowFreeOfAll(p) ==
    ~ \E r \in Requests :
        /\ requests[r].kind \in {"reconcile", "locked"}
        /\ requests[r].payment = p

\* A reconciliation between its update of the payment row and its commit.
RowFree(p) ==
    ~ \E r \in Requests : requests[r].kind = "locked" /\ requests[r].payment = p

\* Fault: the amount replaces what was paid before.
NewPaidReplaced(i, seen, amount) == amount

NewPaid(i, seen, amount) == seen + amount

StatusFor(i, amount) == IF amount >= Total[i] THEN "PAID" ELSE "UNPAID"

\* paidAmount and status are written together, from the amount read earlier.
Credit(i, seen, amount, p) ==
    /\ paid' = [paid EXCEPT ![i] = NewPaid(i, seen, amount)]
    /\ invStatus' = [invStatus EXCEPT ![i] = StatusFor(i, NewPaid(i, seen, amount))]
    /\ credits' = [credits EXCEPT ![i] = @ + amount]
    /\ credited' = [q \in Payments |-> credited[q] + (IF q = p THEN 1 ELSE 0)]

-----------------------------------------------------------------------------
(* initiatePayment *)

\* InvoicesService generates an invoice: it starts UNPAID, with nothing paid.
GenerateInvoice(i) ==
    /\ invStatus[i] = "none"
    /\ invStatus' = [invStatus EXCEPT ![i] = "UNPAID"]
    /\ UNCHANGED <<paid, credits, credited, paymentVars, mtnVars, requests>>

\* The checks, and requestToPay, which MTN has accepted when it returns.
BeginInitiate(r) ==
    \E i \in Invoices, p \in Payments :
        /\ invStatus[i] = "UNPAID"
        /\ Total[i] - paid[i] > 0
        /\ answer[p] = "unknown"
        /\ requests[r] = Idle
        /\ answer' = [answer EXCEPT ![p] = "asked"]
        /\ Continue(r, [kind |-> "initiate", payment |-> p, invoice |-> i,
                        amount |-> Total[i] - paid[i]])
        /\ UNCHANGED <<invoiceVars, paymentVars, acked>>

\* payment.create
CreatePayment(r) ==
    LET q == requests[r] IN
    /\ q.kind = "initiate"
    /\ payStatus' = [payStatus EXCEPT ![q.payment] = "PENDING"]
    /\ payInvoice' = [payInvoice EXCEPT ![q.payment] = q.invoice]
    /\ payAmount' = [payAmount EXCEPT ![q.payment] = q.amount]
    /\ Finish(r)
    /\ UNCHANGED <<invoiceVars, mtnVars>>

\* External: the payer approves or refuses.
PayerAnswers(p) ==
    /\ answer[p] = "asked"
    /\ \E a \in {"SUCCESSFUL", "FAILED"} : answer' = [answer EXCEPT ![p] = a]
    /\ UNCHANGED <<invoiceVars, paymentVars, acked, requests>>

-----------------------------------------------------------------------------
(* processWebhook and reconcilePayment; an answer may come more than once  *)

\* Fault: a payment settled before is not told apart.
SettledBeforeNever(p) == FALSE
SettledBefore(p) == payStatus[p] = "PAID"

\* processed: false, or idempotent: nothing to do, and MTN is told success.
AcknowledgeOnly(r, p) ==
    /\ requests[r] = Idle
    /\ answer[p] \in {"SUCCESSFUL", "FAILED"}
    /\ payStatus[p] = "none" \/ SettledBefore(p)
    /\ Ack(p)
    /\ UNCHANGED <<invoiceVars, paymentVars, answer, requests>>

BeginWebhook(r, p) ==
    /\ answer[p] \in {"SUCCESSFUL", "FAILED"}
    /\ payStatus[p] # "none" /\ ~SettledBefore(p)
    /\ Begin(r, [kind |-> IF answer[p] = "FAILED" THEN "fail" ELSE "webhook",
                 payment |-> p])

Fail(r) ==
    LET p == requests[r].payment IN
    /\ requests[r].kind = "fail"
    /\ RowFree(p)
    /\ payStatus' = [payStatus EXCEPT ![p] = "FAILED"]
    /\ Ack(p)
    /\ Finish(r)
    /\ UNCHANGED <<invoiceVars, payInvoice, payAmount, answer>>

\* The read at the start of the transaction.
BeginReconcile(r) ==
    LET p == requests[r].payment IN
    /\ requests[r].kind = "webhook"
    /\ IF SettledBefore(p)
       THEN Finish(r) /\ Ack(p)
       ELSE Continue(r, [kind |-> "reconcile", payment |-> p]) /\ UNCHANGED acked
    /\ UNCHANGED <<invoiceVars, paymentVars, answer>>

\* tx.payment.update, which waits for the row, then tx.invoice.findUnique.
LockAndRead(r) ==
    LET p == requests[r].payment IN
    /\ requests[r].kind = "reconcile"
    /\ RowFree(p)
    /\ Continue(r, [kind |-> "locked", payment |-> p, invoice |-> payInvoice[p],
                    seenPaid |-> paid[payInvoice[p]]])
    /\ UNCHANGED <<invoiceVars, paymentVars, mtnVars>>

\* tx.invoice.update, the audit row of user 'SYSTEM', and the commit.
Reconcile(r) ==
    LET q == requests[r]
        p == q.payment IN
    /\ q.kind = "locked"
    /\ SystemUserRow
    /\ payStatus' = [payStatus EXCEPT ![p] = "PAID"]
    /\ Credit(q.invoice, q.seenPaid, payAmount[p], p)
    /\ Ack(p)
    /\ Finish(r)
    /\ UNCHANGED <<payInvoice, payAmount, answer>>

-----------------------------------------------------------------------------
(* markPaidManually, InvoicesService.markPaid and voidInvoice *)

BeginManual(r) ==
    \E p \in Payments :
        /\ "manual" \in Kinds
        /\ payStatus[p] # "none" /\ ~SettledBefore(p)
        /\ credits[payInvoice[p]] < MaxCredits
        /\ Begin(r, [kind |-> "manual", payment |-> p])

\* The payment is committed as PAID before the invoice is looked at.
PayManually(r) ==
    LET p == requests[r].payment IN
    /\ requests[r].kind = "manual"
    /\ RowFree(p)
    /\ payStatus' = [payStatus EXCEPT ![p] = "PAID"]
    /\ Continue(r, [kind |-> "marking", payment |-> p])
    /\ UNCHANGED <<invoiceVars, payInvoice, payAmount, mtnVars>>

\* The read of markPaid, which refuses a voided invoice.
MarkRead(r, i, amount, p) ==
    /\ invStatus[i] \notin {"none", "VOID"}
    /\ Continue(r, [kind |-> "mark", invoice |-> i, amount |-> amount,
                    seenPaid |-> paid[i], payment |-> p])
    /\ UNCHANGED <<invoiceVars, paymentVars, mtnVars>>

MarkManually(r) ==
    LET p == requests[r].payment IN
    /\ requests[r].kind = "marking"
    /\ MarkRead(r, payInvoice[p], payAmount[p], p)

BeginMarkPaid(r) ==
    \E i \in Invoices, amount \in Amounts :
        /\ "mark" \in Kinds
        /\ requests[r] = Idle
        /\ credits[i] < MaxCredits
        /\ MarkRead(r, i, amount, NoPayment)

MarkPaid(r) ==
    LET q == requests[r] IN
    /\ q.kind = "mark"
    /\ Credit(q.invoice, q.seenPaid, q.amount, q.payment)
    /\ Finish(r)
    /\ UNCHANGED <<paymentVars, mtnVars>>

\* Fault: a paid invoice passes.
VoidableAny(i) == invStatus[i] \notin {"none", "VOID"}
Voidable(i) == invStatus[i] = "UNPAID"

BeginVoid(r) ==
    \E i \in Invoices :
        /\ "void" \in Kinds
        /\ Voidable(i)
        /\ Begin(r, [kind |-> "void", invoice |-> i])

VoidInvoice(r) ==
    /\ requests[r].kind = "void"
    /\ invStatus' = [invStatus EXCEPT ![requests[r].invoice] = "VOID"]
    /\ Finish(r)
    /\ UNCHANGED <<paid, credits, credited, paymentVars, mtnVars>>

\* A transaction fails, a check refuses to go on, or the process stops: what
\* was committed stays, and MTN gets no HTTP 200.
Abandon(r) ==
    /\ requests[r] # Idle
    /\ Finish(r)
    /\ UNCHANGED <<invoiceVars, paymentVars, mtnVars>>

-----------------------------------------------------------------------------

Settle(r) == BeginReconcile(r) \/ LockAndRead(r) \/ Reconcile(r)

Handle(r) ==
    \/ BeginInitiate(r) \/ CreatePayment(r)
    \/ \E p \in Payments : AcknowledgeOnly(r, p) \/ BeginWebhook(r, p)
    \/ Fail(r) \/ Settle(r)
    \/ BeginManual(r) \/ PayManually(r) \/ MarkManually(r)
    \/ BeginMarkPaid(r) \/ MarkPaid(r)
    \/ BeginVoid(r) \/ VoidInvoice(r)
    \/ Abandon(r)

Next ==
    \/ \E r \in Requests : Handle(r)
    \/ \E p \in Payments : PayerAnswers(p)
    \/ \E i \in Invoices : GenerateInvoice(i)

Spec == Init /\ [][Next]_vars

(***************************************************************************)
(* Handlers end: the event loop resumes each one, and the database and the *)
(* MTN client have timeouts.  Assumed of the outside: MTN repeats an       *)
(* answer until it gets HTTP 200 for it, and a transaction that is tried   *)
(* again and again goes through in the end.                                *)
(***************************************************************************)
FairSpec ==
    /\ Spec
    /\ \A r \in Requests :
        /\ WF_vars(CreatePayment(r) \/ Fail(r) \/ Settle(r) \/ PayManually(r)
                   \/ MarkManually(r) \/ MarkPaid(r) \/ VoidInvoice(r) \/ Abandon(r))
        /\ SF_vars(BeginReconcile(r)) /\ SF_vars(LockAndRead(r)) /\ SF_vars(Reconcile(r))
    /\ \A p \in Payments :
        SF_vars(p \notin acked /\ \E r \in Requests : BeginWebhook(r, p))

-----------------------------------------------------------------------------
(* Properties *)

\* The status of an invoice agrees with its paidAmount whatever overlaps: a
\* stale write overwrites both columns with a pair that was computed together
\* (payments.service.ts:236-246, invoices.service.ts:519-530).
StatusAgreesWithAmount ==
    \A i \in Invoices :
        /\ invStatus[i] = "PAID" => paid[i] >= Total[i]
        /\ invStatus[i] = "UNPAID" /\ paid[i] > 0 => paid[i] < Total[i]

\* "updates paidAmount and status atomically" (invoices.service.ts:490): no credit
\* of an invoice is lost.  So it is one request at a time; two handlers that have
\* read the same paidAmount lose one.
NoCreditLost == \A i \in Invoices : paid[i] = credits[i]

\* "Payment ... already reconciled (idempotency)" (payments.service.ts:211): a
\* payment is credited to its invoice at most once, also when MTN repeats its
\* answer or a manager marked the payment before.  So it is one request at a
\* time; the same answer in two handlers at once is credited twice.
CreditedOnce == \A p \in Payments : credited[p] <= 1

\* One request at a time nothing takes back what is paid, and an invoice once
\* PAID or VOID is never outstanding again.  Only the step from VOID to PAID is
\* open, against "void an invoice (cannot be undone)" (invoices.service.ts:557):
\* a late answer of MTN credits a voided invoice too and makes it PAID
\* (payments.service.ts:236-246, invoices.service.ts:519-530, 584-591).
NothingUnsettled ==
    [][\A i \in Invoices :
         /\ paid[i] <= paid'[i]
         /\ invStatus[i] = "PAID" => invStatus'[i] = "PAID"
         /\ invStatus'[i] = "UNPAID" => invStatus[i] \in {"none", "UNPAID"}]_vars

\* One request at a time a settled payment stays settled: a late or repeated
\* refusal of MTN does not undo what a manager recorded
\* (payments.service.ts:147, 167-174).
SettledStays ==
    [][\A p \in Payments : payStatus[p] = "PAID" => payStatus'[p] = "PAID"]_vars

\* A payment the payer has approved, whose row exists and whose approval MTN
\* still repeats, becomes PAID, whatever handlers overlap or fail
\* (payments.service.spec.ts:250 "should process successful payment webhook").
\* It takes a row with id 'SYSTEM' in the table users, for the audit row of the
\* reconciliation (payments.service.ts:253): no migration or seed creates one.
ApprovedIsSettled ==
    \A p \in Payments :
        (payStatus[p] = "PENDING" /\ answer[p] = "SUCCESSFUL" /\ p \notin acked)
            ~> payStatus[p] = "PAID"

=============================================================================
