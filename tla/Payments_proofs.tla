--------------------------- MODULE Payments_proofs ---------------------------
(***************************************************************************)
(* Theorems about Payments for every set of invoices, payments and         *)
(* requests, and about Reports, which are read beside them.                *)
(***************************************************************************)
EXTENDS Reports, Sums, TLAPS

\* The kind of a slot tells what the slot holds.
LEMMA SlotKinds ==
    ASSUME NEW q \in Request
    PROVE  /\ q.kind = "initiate" => q \in InitiateReq
           /\ q.kind \in {"webhook", "reconcile", "fail", "manual", "marking"} =>
                q \in PaymentReq
           /\ q.kind = "locked" => q \in LockedReq
           /\ q.kind = "mark" => q \in MarkReq
           /\ q.kind = "void" => q \in VoidReq
BY DEF Request, Idle, InitiateReq, PaymentReq, LockedReq, MarkReq, VoidReq

LEMMA NewPaidType ==
    ASSUME NEW i, NEW seen \in Nat, NEW amount \in Nat
    PROVE  NewPaid(i, seen, amount) = seen + amount
BY DEF NewPaid

\* A slot that is set to a request keeps the slots well-typed.
LEMMA ContinueType ==
    ASSUME PaymentsTypeOK, NEW r, NEW slot \in Request, Continue(r, slot)
    PROVE  requests' \in [Requests -> Request]
BY DEF Continue, PaymentsTypeOK

LEMMA FinishType ==
    ASSUME PaymentsTypeOK, NEW r, Finish(r)
    PROVE  requests' \in [Requests -> Request]
BY ContinueType DEF Finish, Request

LEMMA CreditType ==
    ASSUME PaymentsTypeOK, NEW i \in Invoices, NEW seen \in Nat, NEW amount \in Nat,
           NEW p, Credit(i, seen, amount, p)
    PROVE  /\ paid' \in [Invoices -> Nat]
           /\ invStatus' \in [Invoices -> {"none", "UNPAID", "PAID", "VOID"}]
           /\ credits' \in [Invoices -> Nat]
           /\ credited' \in [Payments -> Nat]
<1>1. NewPaid(i, seen, amount) \in Nat
  BY NewPaidType
<1>2. paid' \in [Invoices -> Nat]
  BY <1>1 DEF Credit, PaymentsTypeOK
<1>3. invStatus' \in [Invoices -> {"none", "UNPAID", "PAID", "VOID"}]
  BY DEF Credit, StatusFor, PaymentsTypeOK
<1>4. credits' \in [Invoices -> Nat]
  BY DEF Credit, PaymentsTypeOK
<1>5. credited' \in [Payments -> Nat]
  BY DEF Credit, PaymentsTypeOK
<1> QED BY <1>2, <1>3, <1>4, <1>5

-----------------------------------------------------------------------------
(* Type correctness *)

LEMMA InitType == Init => PaymentsTypeOK
BY PaymentsAssumption DEF Init, PaymentsTypeOK, Request

LEMMA HandleType ==
    ASSUME PaymentsTypeOK, NEW r \in Requests, Handle(r)
    PROVE  PaymentsTypeOK'
<1> DEFINE q == requests[r]
<1> USE DEF invoiceVars, paymentVars, mtnVars
<1>1. CASE BeginInitiate(r)
  <2>1. PICK i \in Invoices, p \in Payments :
          /\ Total[i] - paid[i] > 0
          /\ answer' = [answer EXCEPT ![p] = "asked"]
          /\ Continue(r, [kind |-> "initiate", payment |-> p, invoice |-> i,
                          amount |-> Total[i] - paid[i]])
    BY <1>1 DEF BeginInitiate
  <2>2. Total[i] - paid[i] \in Nat
    BY <2>1, PaymentsAssumption DEF PaymentsTypeOK
  <2>3. [kind |-> "initiate", payment |-> p, invoice |-> i,
         amount |-> Total[i] - paid[i]] \in Request
    BY <2>2 DEF Request, InitiateReq
  <2>4. requests' \in [Requests -> Request]
    BY <2>1, <2>3, ContinueType
  <2> QED BY <1>1, <2>1, <2>4 DEF BeginInitiate, PaymentsTypeOK
<1>2. CASE CreatePayment(r)
  <2>1. q \in InitiateReq
    BY <1>2, SlotKinds DEF CreatePayment, PaymentsTypeOK
  <2>2. q.payment \in Payments /\ q.invoice \in Invoices /\ q.amount \in Nat
    BY <2>1 DEF InitiateReq
  <2>3. requests' \in [Requests -> Request]
    BY <1>2, FinishType DEF CreatePayment
  <2> QED BY <1>2, <2>2, <2>3 DEF CreatePayment, PaymentsTypeOK
<1>3. ASSUME NEW p \in Payments, AcknowledgeOnly(r, p) PROVE PaymentsTypeOK'
  BY <1>3 DEF AcknowledgeOnly, Ack, PaymentsTypeOK
<1>4. ASSUME NEW p \in Payments, BeginWebhook(r, p) PROVE PaymentsTypeOK'
  <2> DEFINE slot == [kind |-> IF answer[p] = "FAILED" THEN "fail" ELSE "webhook",
                      payment |-> p]
  <2>1. slot \in Request
    BY DEF Request, PaymentReq
  <2>2. Begin(r, slot)
    BY <1>4 DEF BeginWebhook
  <2> QED BY <2>1, <2>2 DEF Begin, PaymentsTypeOK
<1>5. CASE Fail(r)
  <2>1. q \in PaymentReq
    BY <1>5, SlotKinds DEF Fail, PaymentsTypeOK
  <2>2. requests' \in [Requests -> Request]
    BY <1>5, FinishType DEF Fail
  <2> QED BY <1>5, <2>1, <2>2 DEF Fail, Ack, PaymentReq, PaymentsTypeOK
<1>6. CASE BeginReconcile(r)
  <2>1. q.payment \in Payments
    BY <1>6, SlotKinds DEF BeginReconcile, PaymentReq, PaymentsTypeOK
  <2>2. [kind |-> "reconcile", payment |-> q.payment] \in Request
    BY <2>1 DEF Request, PaymentReq
  <2>3. requests' \in [Requests -> Request]
    BY <1>6, <2>2, FinishType, ContinueType DEF BeginReconcile
  <2>4. acked' \in SUBSET Payments
    BY <1>6, <2>1 DEF BeginReconcile, Ack, PaymentsTypeOK
  <2> QED BY <1>6, <2>3, <2>4 DEF BeginReconcile, PaymentsTypeOK
<1>7. CASE LockAndRead(r)
  <2>1. q.payment \in Payments
    BY <1>7, SlotKinds DEF LockAndRead, PaymentReq, PaymentsTypeOK
  <2> DEFINE slot == [kind |-> "locked", payment |-> q.payment,
                      invoice |-> payInvoice[q.payment],
                      seenPaid |-> paid[payInvoice[q.payment]]]
  <2>2. slot \in Request
    BY <2>1 DEF Request, LockedReq, PaymentsTypeOK
  <2>3. requests' \in [Requests -> Request]
    BY <1>7, <2>2, ContinueType DEF LockAndRead
  <2> QED BY <1>7, <2>3 DEF LockAndRead, PaymentsTypeOK
<1>8. CASE Reconcile(r)
  <2>1. q \in LockedReq
    BY <1>8, SlotKinds DEF Reconcile, PaymentsTypeOK
  <2>2. q.payment \in Payments /\ q.invoice \in Invoices /\ q.seenPaid \in Nat
    BY <2>1 DEF LockedReq
  <2>3. payAmount[q.payment] \in Nat
    BY <2>2 DEF PaymentsTypeOK
  <2>4. /\ paid' \in [Invoices -> Nat]
        /\ invStatus' \in [Invoices -> {"none", "UNPAID", "PAID", "VOID"}]
        /\ credits' \in [Invoices -> Nat]
        /\ credited' \in [Payments -> Nat]
    BY <1>8, <2>2, <2>3, CreditType DEF Reconcile
  <2>5. requests' \in [Requests -> Request]
    BY <1>8, FinishType DEF Reconcile
  <2>6. acked' \in SUBSET Payments
    BY <1>8, <2>2 DEF Reconcile, Ack, PaymentsTypeOK
  <2>7. payStatus' \in [Payments -> {"none", "PENDING", "PAID", "FAILED"}]
    BY <1>8 DEF Reconcile, PaymentsTypeOK
  <2> QED BY <1>8, <2>4, <2>5, <2>6, <2>7 DEF Reconcile, PaymentsTypeOK
<1>9. CASE BeginManual(r)
  <2>1. PICK p \in Payments : Begin(r, [kind |-> "manual", payment |-> p])
    BY <1>9 DEF BeginManual
  <2>2. [kind |-> "manual", payment |-> p] \in Request
    BY DEF Request, PaymentReq
  <2> QED BY <2>1, <2>2 DEF Begin, PaymentsTypeOK
<1>10. CASE PayManually(r)
  <2>1. q.payment \in Payments
    BY <1>10, SlotKinds DEF PayManually, PaymentReq, PaymentsTypeOK
  <2>2. [kind |-> "marking", payment |-> q.payment] \in Request
    BY <2>1 DEF Request, PaymentReq
  <2>3. requests' \in [Requests -> Request]
    BY <1>10, <2>2, ContinueType DEF PayManually
  <2> QED BY <1>10, <2>3 DEF PayManually, PaymentsTypeOK
<1>11. ASSUME NEW i \in Invoices, NEW amount \in Nat, NEW p \in Payments \cup {NoPayment},
              MarkRead(r, i, amount, p)
       PROVE  PaymentsTypeOK'
  <2> DEFINE slot == [kind |-> "mark", invoice |-> i, amount |-> amount,
                      seenPaid |-> paid[i], payment |-> p]
  <2>1. slot \in Request
    BY DEF Request, MarkReq, PaymentsTypeOK
  <2>2. requests' \in [Requests -> Request]
    BY <1>11, <2>1, ContinueType DEF MarkRead
  <2> QED BY <1>11, <2>2 DEF MarkRead, PaymentsTypeOK
<1>12. CASE MarkManually(r)
  <2>1. q.payment \in Payments
    BY <1>12, SlotKinds DEF MarkManually, PaymentReq, PaymentsTypeOK
  <2>2. payInvoice[q.payment] \in Invoices /\ payAmount[q.payment] \in Nat
    BY <2>1 DEF PaymentsTypeOK
  <2> QED BY <1>11, <1>12, <2>1, <2>2 DEF MarkManually
<1>13. CASE BeginMarkPaid(r)
  BY <1>11, <1>13, PaymentsAssumption DEF BeginMarkPaid
<1>14. CASE MarkPaid(r)
  <2>1. q \in MarkReq
    BY <1>14, SlotKinds DEF MarkPaid, PaymentsTypeOK
  <2>2. q.invoice \in Invoices /\ q.seenPaid \in Nat /\ q.amount \in Nat
    BY <2>1 DEF MarkReq
  <2>3. /\ paid' \in [Invoices -> Nat]
        /\ invStatus' \in [Invoices -> {"none", "UNPAID", "PAID", "VOID"}]
        /\ credits' \in [Invoices -> Nat]
        /\ credited' \in [Payments -> Nat]
    BY <1>14, <2>2, CreditType DEF MarkPaid
  <2>4. requests' \in [Requests -> Request]
    BY <1>14, FinishType DEF MarkPaid
  <2> QED BY <1>14, <2>3, <2>4 DEF MarkPaid, PaymentsTypeOK
<1>15. CASE BeginVoid(r)
  <2>1. PICK i \in Invoices : Begin(r, [kind |-> "void", invoice |-> i])
    BY <1>15 DEF BeginVoid
  <2>2. [kind |-> "void", invoice |-> i] \in Request
    BY DEF Request, VoidReq
  <2> QED BY <2>1, <2>2 DEF Begin, PaymentsTypeOK
<1>16. CASE VoidInvoice(r)
  <2>1. requests' \in [Requests -> Request]
    BY <1>16, FinishType DEF VoidInvoice
  <2> QED BY <1>16, <2>1 DEF VoidInvoice, PaymentsTypeOK
<1>17. CASE Abandon(r)
  <2>1. requests' \in [Requests -> Request]
    BY <1>17, FinishType DEF Abandon
  <2> QED BY <1>17, <2>1 DEF Abandon, PaymentsTypeOK
<1> QED BY <1>1, <1>2, <1>3, <1>4, <1>5, <1>6, <1>7, <1>8, <1>9, <1>10, <1>12,
           <1>13, <1>14, <1>15, <1>16, <1>17 DEF Handle, Settle

LEMMA NextType == PaymentsTypeOK /\ [Next]_vars => PaymentsTypeOK'
<1> SUFFICES ASSUME PaymentsTypeOK, [Next]_vars PROVE PaymentsTypeOK'
  OBVIOUS
<1> USE DEF invoiceVars, paymentVars, mtnVars
<1>1. ASSUME NEW p \in Payments, PayerAnswers(p) PROVE PaymentsTypeOK'
  BY <1>1 DEF PayerAnswers, PaymentsTypeOK
<1>2. CASE UNCHANGED vars
  BY <1>2 DEF vars, PaymentsTypeOK
<1>3. ASSUME NEW i \in Invoices, GenerateInvoice(i) PROVE PaymentsTypeOK'
  BY <1>3 DEF GenerateInvoice, PaymentsTypeOK
<1> QED BY <1>1, <1>2, <1>3, HandleType DEF Next

\* Amounts stay natural numbers and statuses those of the schema.
THEOREM TypeCorrect == Spec => []PaymentsTypeOK
BY InitType, NextType, PTL DEF Spec

-----------------------------------------------------------------------------
(* Amounts and statuses under any overlap *)

\* That status and amount agree is inductive only with this: an invoice without
\* a row has no amount, and every payment and handler refers to rows.
RowsExist ==
    /\ \A i \in Invoices : invStatus[i] = "none" => paid[i] = 0
    /\ \A p \in Payments : payStatus[p] # "none" => invStatus[payInvoice[p]] # "none"

SlotExists(q) ==
    /\ q.kind \in {"initiate", "locked", "mark", "void"} => invStatus[q.invoice] # "none"
    /\ q.kind \in {"webhook", "reconcile", "fail", "manual", "marking", "locked"} =>
         payStatus[q.payment] # "none"

MoneyInv ==
    /\ PaymentsTypeOK
    /\ StatusAgreesWithAmount
    /\ RowsExist
    /\ \A r \in Requests : SlotExists(requests[r])

\* No row disappears.
RowsStay ==
    /\ \A i \in Invoices : invStatus[i] # "none" => invStatus'[i] # "none"
    /\ \A p \in Payments : payStatus[p] # "none" => payStatus'[p] # "none"

LEMMA SlotStays ==
    ASSUME PaymentsTypeOK, RowsStay, NEW q \in Request, SlotExists(q)
    PROVE  SlotExists(q)'
BY SlotKinds DEF RowsStay, SlotExists, InitiateReq, PaymentReq, LockedReq, MarkReq, VoidReq

\* A handler moves on to a slot that refers to rows, as the others still do.
LEMMA SlotsExist ==
    ASSUME MoneyInv, RowsStay, NEW r \in Requests, NEW slot,
           Continue(r, slot), SlotExists(slot)'
    PROVE  \A s \in Requests : SlotExists(requests[s])'
<1>1. requests' = [requests EXCEPT ![r] = slot] /\ requests \in [Requests -> Request]
  BY DEF Continue, MoneyInv, PaymentsTypeOK
<1> SUFFICES ASSUME NEW s \in Requests PROVE SlotExists(requests[s])'
  OBVIOUS
<1>2. CASE s = r
  <2>1. requests'[s] = slot
    BY <1>1, <1>2
  <2> QED BY <2>1 DEF SlotExists
<1>3. CASE s # r
  <2>1. requests'[s] = requests[s] /\ requests[s] \in Request /\ SlotExists(requests[s])
    BY <1>1, <1>3 DEF MoneyInv
  <2>2. PICK q \in Request : q = requests[s] /\ SlotExists(q)
    BY <2>1
  <2>3. SlotExists(q)'
    BY <2>2, SlotStays DEF MoneyInv
  <2> QED BY <2>1, <2>2, <2>3 DEF SlotExists
<1> QED BY <1>2, <1>3

\* A handler moves on and writes to no invoice.
LEMMA QuietSlot ==
    ASSUME MoneyInv, PaymentsTypeOK', RowsStay, NEW r \in Requests, NEW slot,
           Continue(r, slot), SlotExists(slot)', UNCHANGED <<paid, invStatus>>,
           \A p \in Payments : payStatus'[p] # "none" => invStatus[payInvoice'[p]] # "none"
    PROVE  MoneyInv'
<1>1. StatusAgreesWithAmount' /\ RowsExist'
  BY DEF MoneyInv, StatusAgreesWithAmount, RowsExist
<1> QED BY <1>1, SlotsExist DEF MoneyInv

\* The write of a credit to an invoice that exists.
LEMMA CreditKeepsMoney ==
    ASSUME MoneyInv, PaymentsTypeOK', NEW r \in Requests, NEW i \in Invoices,
           NEW seen \in Nat, NEW amount \in Nat, NEW p, invStatus[i] # "none",
           Credit(i, seen, amount, p), Finish(r), payInvoice' = payInvoice,
           \A o \in Payments : payStatus'[o] = "none" <=> payStatus[o] = "none"
    PROVE  MoneyInv'
<1>1. /\ paid \in [Invoices -> Nat] /\ payInvoice \in [Payments -> Invoices]
      /\ invStatus \in [Invoices -> {"none", "UNPAID", "PAID", "VOID"}]
      /\ Total[i] \in Nat
  BY PaymentsAssumption DEF MoneyInv, PaymentsTypeOK
<1>2. /\ paid' = [paid EXCEPT ![i] = seen + amount]
      /\ invStatus' = [invStatus EXCEPT ![i] =
                         IF seen + amount >= Total[i] THEN "PAID" ELSE "UNPAID"]
  BY NewPaidType DEF Credit, StatusFor
<1>3. StatusAgreesWithAmount'
  <2> SUFFICES ASSUME NEW j \in Invoices
      PROVE /\ invStatus'[j] = "PAID" => paid'[j] >= Total[j]
            /\ invStatus'[j] = "UNPAID" /\ paid'[j] > 0 => paid'[j] < Total[j]
    BY DEF StatusAgreesWithAmount
  <2>1. CASE j = i
    <3>1. /\ paid'[j] = seen + amount
          /\ invStatus'[j] = IF seen + amount >= Total[i] THEN "PAID" ELSE "UNPAID"
      BY <1>1, <1>2, <2>1
    <3> QED BY <1>1, <2>1, <3>1
  <2>2. CASE j # i
    BY <1>1, <1>2, <2>2 DEF MoneyInv, StatusAgreesWithAmount
  <2> QED BY <2>1, <2>2
<1>4. \A j \in Invoices : invStatus'[j] = "none" <=> invStatus[j] = "none"
  BY <1>1, <1>2
<1>5. RowsExist'
  BY <1>1, <1>2, <1>4 DEF MoneyInv, RowsExist
<1>6. SlotExists(Idle)'
  BY DEF SlotExists, Idle
<1>7. \A s \in Requests : SlotExists(requests[s])'
  BY <1>4, <1>6, SlotsExist DEF Finish, RowsStay
<1> QED BY <1>3, <1>5, <1>7 DEF MoneyInv

LEMMA HandleMoney ==
    ASSUME MoneyInv, PaymentsTypeOK', NEW r \in Requests, Handle(r)
    PROVE  MoneyInv'
<1> DEFINE q == requests[r]
<1>1. PaymentsTypeOK /\ q \in Request /\ SlotExists(q) /\ RowsExist
  BY DEF MoneyInv, PaymentsTypeOK
<1>2. SlotExists(Idle)'
  BY DEF SlotExists, Idle
<1>3. ASSUME NEW slot, Continue(r, slot), SlotExists(slot)',
             UNCHANGED <<paid, invStatus, payInvoice>>,
             \A p \in Payments : payStatus'[p] = "none" <=> payStatus[p] = "none"
      PROVE  MoneyInv'
  BY <1>1, <1>3, QuietSlot DEF RowsStay, RowsExist
<1>4. CASE BeginInitiate(r)
  <2>0. PICK i \in Invoices : \E slot :
          /\ slot.kind = "initiate" /\ slot.invoice = i /\ invStatus[i] = "UNPAID"
          /\ Continue(r, slot)
    BY <1>4 DEF BeginInitiate
  <2>1. PICK slot :
          /\ slot.kind = "initiate" /\ slot.invoice = i /\ invStatus[i] = "UNPAID"
          /\ Continue(r, slot)
    BY <2>0
  <2>2. UNCHANGED <<invoiceVars, paymentVars>>
    BY <1>4 DEF BeginInitiate
  <2>3. SlotExists(slot)'
    BY <2>1, <2>2 DEF SlotExists, invoiceVars
  <2> QED BY <1>3, <2>1, <2>2, <2>3 DEF invoiceVars, paymentVars
<1>5. CASE CreatePayment(r)
  <2>1. q \in InitiateReq
    BY <1>1, <1>5, SlotKinds DEF CreatePayment
  <2>2. q.payment \in Payments /\ q.invoice \in Invoices /\ invStatus[q.invoice] # "none"
    BY <1>1, <2>1 DEF InitiateReq, SlotExists
  <2>3. /\ payStatus' = [payStatus EXCEPT ![q.payment] = "PENDING"]
        /\ payInvoice' = [payInvoice EXCEPT ![q.payment] = q.invoice]
        /\ Continue(r, Idle) /\ UNCHANGED <<paid, invStatus>>
    BY <1>5 DEF CreatePayment, Finish, invoiceVars
  <2>4. RowsStay /\ \A p \in Payments :
                        payStatus'[p] # "none" => invStatus[payInvoice'[p]] # "none"
    BY <1>1, <2>2, <2>3 DEF RowsStay, RowsExist, PaymentsTypeOK
  <2> QED BY <1>2, <2>3, <2>4, QuietSlot
<1>6. ASSUME NEW p \in Payments, AcknowledgeOnly(r, p) PROVE MoneyInv'
  BY <1>6 DEF AcknowledgeOnly, invoiceVars, paymentVars, MoneyInv, StatusAgreesWithAmount,
              RowsExist, SlotExists
<1>7. CASE BeginManual(r) \/ \E p \in Payments : BeginWebhook(r, p)
  <2>0. PICK o \in Payments : \E slot :
          /\ slot.kind \in {"fail", "webhook", "manual"} /\ slot.payment = o
          /\ payStatus[o] # "none" /\ Begin(r, slot)
    BY <1>7 DEF BeginWebhook, BeginManual
  <2>1. PICK slot :
          /\ slot.kind \in {"fail", "webhook", "manual"} /\ slot.payment = o
          /\ payStatus[o] # "none" /\ Begin(r, slot)
    BY <2>0
  <2>2. SlotExists(slot)'
    BY <2>1 DEF SlotExists, Begin, paymentVars
  <2>3. Continue(r, slot) /\ UNCHANGED <<invoiceVars, paymentVars>>
    BY <2>1 DEF Begin, Continue
  <2> QED BY <1>3, <2>2, <2>3 DEF invoiceVars, paymentVars
<1>8. CASE Fail(r) \/ PayManually(r)
  <2>1. q \in PaymentReq
    BY <1>1, <1>8, SlotKinds DEF Fail, PayManually
  <2>2. q.payment \in Payments /\ payStatus[q.payment] # "none"
    BY <1>1, <2>1 DEF PaymentReq, SlotExists
  <2>3. PICK slot : /\ Continue(r, slot)
                    /\ slot \in {Idle, [kind |-> "marking", payment |-> q.payment]}
    BY <1>8 DEF Fail, PayManually, Finish
  <2>4. UNCHANGED <<paid, invStatus, payInvoice>>
    BY <1>8 DEF Fail, PayManually, invoiceVars
  <2>5. /\ \A p \in Payments : payStatus'[p] = "none" <=> payStatus[p] = "none"
        /\ payStatus'[q.payment] # "none"
    BY <1>1, <1>8, <2>2 DEF Fail, PayManually, PaymentsTypeOK
  <2>6. SlotExists(slot)'
    BY <1>2, <2>3, <2>5 DEF SlotExists
  <2> QED BY <1>3, <2>3, <2>4, <2>5, <2>6
<1>9. CASE BeginReconcile(r)
  <2>1. payStatus[q.payment] # "none"
    BY <1>1, <1>9 DEF BeginReconcile, SlotExists
  <2>2. UNCHANGED <<invoiceVars, paymentVars>>
    BY <1>9 DEF BeginReconcile
  <2>3. PICK slot : /\ Continue(r, slot)
                    /\ slot \in {Idle, [kind |-> "reconcile", payment |-> q.payment]}
    BY <1>9 DEF BeginReconcile, Finish
  <2>4. SlotExists(slot)'
    BY <1>2, <2>1, <2>2, <2>3 DEF SlotExists, paymentVars
  <2> QED BY <1>3, <2>2, <2>3, <2>4 DEF invoiceVars, paymentVars
<1>10. ASSUME NEW i, NEW slot, Continue(r, slot), slot.kind \in {"locked", "mark"},
              slot.invoice = i, invStatus[i] # "none",
              slot.kind = "locked" => payStatus[slot.payment] # "none",
              UNCHANGED <<invoiceVars, paymentVars>>
       PROVE  MoneyInv'
  <2>1. SlotExists(slot)'
    BY <1>10 DEF SlotExists, invoiceVars, paymentVars
  <2> QED BY <1>3, <1>10, <2>1 DEF invoiceVars, paymentVars
<1>11. CASE LockAndRead(r)
  <2>1. q.payment \in Payments /\ payStatus[q.payment] # "none"
    BY <1>1, <1>11, SlotKinds DEF LockAndRead, PaymentReq, SlotExists
  <2>2. invStatus[payInvoice[q.payment]] # "none"
    BY <1>1, <2>1 DEF RowsExist
  <2>3. PICK slot : /\ slot.kind = "locked" /\ slot.invoice = payInvoice[q.payment]
                    /\ slot.payment = q.payment /\ Continue(r, slot)
    BY <1>11 DEF LockAndRead
  <2> QED BY <1>10, <1>11, <2>1, <2>2, <2>3 DEF LockAndRead
<1>12. CASE Reconcile(r)
  <2>1. q \in LockedReq /\ q.kind = "locked"
    BY <1>1, <1>12, SlotKinds DEF Reconcile
  <2>2. /\ q.invoice \in Invoices /\ q.seenPaid \in Nat /\ q.payment \in Payments
        /\ payAmount[q.payment] \in Nat /\ invStatus[q.invoice] # "none"
        /\ payStatus[q.payment] # "none"
    BY <1>1, <2>1 DEF LockedReq, PaymentsTypeOK, SlotExists
  <2>3. \A o \in Payments : payStatus'[o] = "none" <=> payStatus[o] = "none"
    BY <1>1, <1>12, <2>2 DEF Reconcile, PaymentsTypeOK
  <2> QED BY <1>12, <2>2, <2>3, CreditKeepsMoney DEF Reconcile
<1>13. ASSUME NEW i, NEW amount, NEW p, MarkRead(r, i, amount, p)
       PROVE  MoneyInv'
  <2>1. PICK slot : slot.kind = "mark" /\ slot.invoice = i /\ Continue(r, slot)
    BY <1>13 DEF MarkRead
  <2> QED BY <1>10, <1>13, <2>1 DEF MarkRead
<1>14. CASE MarkManually(r) \/ BeginMarkPaid(r)
  BY <1>13, <1>14 DEF MarkManually, BeginMarkPaid
<1>15. CASE MarkPaid(r)
  <2>1. q \in MarkReq
    BY <1>1, <1>15, SlotKinds DEF MarkPaid
  <2>2. /\ q.invoice \in Invoices /\ q.seenPaid \in Nat /\ q.amount \in Nat
        /\ invStatus[q.invoice] # "none"
    BY <1>1, <2>1 DEF MarkReq, SlotExists
  <2> QED BY <1>15, <2>2, CreditKeepsMoney DEF MarkPaid, paymentVars
<1>16. CASE BeginVoid(r)
  <2>1. PICK slot : /\ slot.kind = "void" /\ invStatus[slot.invoice] # "none"
                    /\ Begin(r, slot)
    BY <1>16 DEF BeginVoid, Voidable
  <2>2. SlotExists(slot)'
    BY <2>1 DEF SlotExists, Begin, invoiceVars
  <2> QED BY <1>3, <2>1, <2>2 DEF Begin, Continue, invoiceVars, paymentVars
<1>17. CASE VoidInvoice(r)
  <2>1. /\ invStatus' = [invStatus EXCEPT ![q.invoice] = "VOID"]
        /\ UNCHANGED <<paid, paymentVars>> /\ Continue(r, Idle)
    BY <1>17 DEF VoidInvoice, Finish
  <2>2. StatusAgreesWithAmount'
    BY <1>1, <2>1 DEF MoneyInv, StatusAgreesWithAmount, PaymentsTypeOK
  <2>3. q.invoice \in Invoices /\ invStatus[q.invoice] # "none"
    BY <1>1, <1>17, SlotKinds DEF VoidInvoice, VoidReq, SlotExists
  <2>4. RowsExist' /\ RowsStay
    BY <1>1, <2>1, <2>3 DEF RowsExist, RowsStay, PaymentsTypeOK, paymentVars
  <2>5. \A s \in Requests : SlotExists(requests[s])'
    BY <1>2, <2>1, <2>4, SlotsExist
  <2> QED BY <2>2, <2>4, <2>5 DEF MoneyInv
<1>18. CASE Abandon(r)
  BY <1>2, <1>3, <1>18 DEF Abandon, Finish, invoiceVars, paymentVars
<1> QED BY <1>4, <1>5, <1>6, <1>7, <1>8, <1>9, <1>11, <1>12, <1>14,
           <1>15, <1>16, <1>17, <1>18 DEF Handle, Settle

LEMMA InitMoney == Init => MoneyInv
<1> SUFFICES ASSUME Init PROVE MoneyInv
  OBVIOUS
<1>1. PaymentsTypeOK
  BY InitType
<1>2. StatusAgreesWithAmount /\ RowsExist
  BY DEF Init, StatusAgreesWithAmount, RowsExist
<1>3. \A r \in Requests : SlotExists(requests[r])
  BY DEF Init, SlotExists, Idle
<1> QED BY <1>1, <1>2, <1>3 DEF MoneyInv

LEMMA NextMoney == MoneyInv /\ [Next]_vars => MoneyInv'
<1> SUFFICES ASSUME MoneyInv, [Next]_vars PROVE MoneyInv'
  OBVIOUS
<1>1. PaymentsTypeOK'
  BY NextType DEF MoneyInv
<1>2. ASSUME UNCHANGED <<invoiceVars, paymentVars, requests>> PROVE MoneyInv'
  BY <1>1, <1>2 DEF invoiceVars, paymentVars, MoneyInv, StatusAgreesWithAmount, RowsExist,
                    SlotExists
<1>3. ASSUME NEW i \in Invoices, GenerateInvoice(i) PROVE MoneyInv'
  <2>1. /\ invStatus[i] = "none" /\ paid[i] = 0
        /\ invStatus' = [invStatus EXCEPT ![i] = "UNPAID"]
        /\ UNCHANGED <<paid, paymentVars, requests>>
    BY <1>3 DEF GenerateInvoice, MoneyInv, RowsExist
  <2>2. \A j \in Invoices : j # i => invStatus'[j] = invStatus[j]
    BY <2>1 DEF MoneyInv, PaymentsTypeOK
  <2>3. StatusAgreesWithAmount' /\ RowsExist' /\ RowsStay
    BY <2>1, <2>2 DEF MoneyInv, PaymentsTypeOK, StatusAgreesWithAmount, RowsExist, RowsStay,
                      paymentVars
  <2>4. ASSUME NEW r \in Requests PROVE SlotExists(requests[r])'
    <3>1. PICK q \in Request : q = requests[r] /\ SlotExists(q)
      BY DEF MoneyInv, PaymentsTypeOK
    <3>2. SlotExists(q)'
      BY <2>3, <3>1, SlotStays DEF MoneyInv
    <3>3. requests' = requests
      BY <2>1
    <3> QED BY <3>1, <3>2, <3>3 DEF SlotExists
  <2> QED BY <1>1, <2>3, <2>4 DEF MoneyInv
<1> QED BY <1>1, <1>2, <1>3, HandleMoney DEF Next, PayerAnswers, vars

\* Whatever webhooks, manual marks and voids overlap, an invoice that says PAID
\* shows its total as paid, and one that says UNPAID does not.
THEOREM StatusAgrees == Spec => []StatusAgreesWithAmount
<1>1. MoneyInv => StatusAgreesWithAmount
  BY DEF MoneyInv
<1> QED BY <1>1, InitMoney, NextMoney, PTL DEF Spec

-----------------------------------------------------------------------------
(* One request at a time *)

OneRequest == \E r : Requests = {r}

\* What a handler has read still holds when it writes, as no other one runs.
SlotFits(q) ==
    /\ q.kind = "initiate" => payStatus[q.payment] = "none" /\ answer[q.payment] # "unknown"
    /\ q.kind \in {"webhook", "reconcile", "fail", "manual", "locked"} =>
         payStatus[q.payment] \notin {"none", "PAID"}
    /\ q.kind = "marking" => payStatus[q.payment] = "PAID" /\ credited[q.payment] = 0
    /\ q.kind \in {"locked", "mark"} => q.seenPaid = paid[q.invoice]
    /\ q.kind = "mark" /\ q.payment # NoPayment =>
         payStatus[q.payment] = "PAID" /\ credited[q.payment] = 0
    /\ q.kind = "void" => invStatus[q.invoice] = "UNPAID"

\* A payment is credited only as it becomes PAID or after it has, and MTN is
\* asked before there is a row.
CreditedWhenPaid ==
    \A p \in Payments :
        /\ payStatus[p] # "PAID" => credited[p] = 0
        /\ answer[p] = "unknown" => payStatus[p] = "none"

SerialInv ==
    /\ PaymentsTypeOK
    /\ NoCreditLost
    /\ CreditedOnce
    /\ CreditedWhenPaid
    /\ \A r \in Requests : SlotFits(requests[r])

LEMMA InitSerial == Init => SerialInv
<1> SUFFICES ASSUME Init PROVE SerialInv
  OBVIOUS
<1>1. PaymentsTypeOK
  BY InitType
<1>2. NoCreditLost /\ CreditedOnce /\ CreditedWhenPaid
  BY DEF Init, NoCreditLost, CreditedOnce, CreditedWhenPaid
<1>3. \A r \in Requests : SlotFits(requests[r])
  BY DEF Init, SlotFits, Idle
<1> QED BY <1>1, <1>2, <1>3 DEF SerialInv

LEMMA OnlySlot ==
    ASSUME OneRequest, PaymentsTypeOK, NEW r \in Requests, NEW slot, Continue(r, slot)
    PROVE  \A s \in Requests : requests'[s] = slot
BY DEF OneRequest, PaymentsTypeOK, Continue

\* The only handler moves on, its new slot fits, and nothing was credited.
LEMMA SerialQuiet ==
    ASSUME OneRequest, SerialInv, PaymentsTypeOK', NEW r \in Requests, NEW slot,
           Continue(r, slot), SlotFits(slot)',
           UNCHANGED <<paid, credits, credited>>,
           \A p \in Payments : /\ payStatus'[p] # "PAID" => payStatus[p] # "PAID"
                               /\ answer'[p] = "unknown" =>
                                    answer[p] = "unknown" /\ payStatus'[p] = payStatus[p]
    PROVE  SerialInv'
<1>1. NoCreditLost' /\ CreditedOnce'
  BY DEF SerialInv, NoCreditLost, CreditedOnce
<1>2. CreditedWhenPaid'
  BY DEF SerialInv, CreditedWhenPaid
<1>3. \A s \in Requests : requests'[s] = slot
  BY OnlySlot DEF SerialInv
<1>4. ASSUME NEW s \in Requests PROVE SlotFits(requests[s])'
  BY <1>3 DEF SlotFits
<1> QED BY <1>1, <1>2, <1>4 DEF SerialInv

\* A credit on top of what is paid right now, for a payment that becomes PAID
\* with it or was PAID and not credited yet.
LEMMA SerialCredit ==
    ASSUME OneRequest, SerialInv, PaymentsTypeOK', NEW r \in Requests,
           NEW i \in Invoices, NEW amount \in Nat, NEW p \in Payments \cup {NoPayment},
           Credit(i, paid[i], amount, p), Finish(r), answer' = answer,
           p # NoPayment => credited[p] = 0 /\ payStatus'[p] = "PAID",
           p # NoPayment => answer[p] # "unknown",
           \A o \in Payments : o # p => payStatus'[o] = payStatus[o]
    PROVE  SerialInv'
<1>1. /\ paid \in [Invoices -> Nat] /\ credits \in [Invoices -> Nat]
      /\ credited \in [Payments -> Nat]
  BY DEF SerialInv, PaymentsTypeOK
<1>2. /\ paid' = [paid EXCEPT ![i] = paid[i] + amount]
      /\ credits' = [credits EXCEPT ![i] = @ + amount]
      /\ credited' = [o \in Payments |-> credited[o] + (IF o = p THEN 1 ELSE 0)]
  <2>1. NewPaid(i, paid[i], amount) = paid[i] + amount
    BY DEF NewPaid
  <2> QED BY <2>1 DEF Credit
<1>3. NoCreditLost'
  BY <1>1, <1>2 DEF SerialInv, NoCreditLost
<1>4. ASSUME NEW o \in Payments
      PROVE  /\ credited'[o] <= 1
             /\ payStatus'[o] # "PAID" => credited'[o] = 0
             /\ answer'[o] = "unknown" => payStatus'[o] = "none"
  <2>1. CASE o = p
    <3>1. p # NoPayment
      BY <2>1, PaymentsAssumption
    <3>2. credited'[o] = 1
      BY <1>1, <1>2, <2>1, <3>1
    <3> QED BY <2>1, <3>1, <3>2
  <2>2. CASE o # p
    <3>1. credited'[o] = credited[o]
      BY <1>1, <1>2, <2>2
    <3> QED BY <2>2, <3>1 DEF SerialInv, CreditedOnce, CreditedWhenPaid
  <2> QED BY <2>1, <2>2
<1>5. CreditedOnce' /\ CreditedWhenPaid'
  BY <1>4 DEF CreditedOnce, CreditedWhenPaid
<1>6. \A s \in Requests : requests'[s] = Idle
  BY OnlySlot DEF SerialInv, Finish
<1>7. ASSUME NEW s \in Requests PROVE SlotFits(requests[s])'
  BY <1>6 DEF SlotFits, Idle
<1> QED BY <1>3, <1>5, <1>7 DEF SerialInv

LEMMA HandleSerial ==
    ASSUME OneRequest, SerialInv, PaymentsTypeOK', NEW r \in Requests, Handle(r)
    PROVE  SerialInv'
<1> DEFINE q == requests[r]
<1> USE DEF invoiceVars, paymentVars, mtnVars
<1>1. PaymentsTypeOK /\ SlotFits(q)
  BY DEF SerialInv
<1>2. q \in Request
  BY <1>1 DEF PaymentsTypeOK
<1>3. ASSUME Continue(r, Idle), UNCHANGED <<paid, credits, credited>>,
             \A p \in Payments : /\ payStatus'[p] # "PAID" => payStatus[p] # "PAID"
                                 /\ answer'[p] = "unknown" =>
                                      answer[p] = "unknown" /\ payStatus'[p] = payStatus[p]
      PROVE  SerialInv'
  <2>1. SlotFits(Idle)'
    BY DEF SlotFits, Idle
  <2> QED BY <1>3, <2>1, SerialQuiet
<1>4. ASSUME NEW slot, Continue(r, slot), SlotFits(slot),
             UNCHANGED <<invoiceVars, paymentVars, answer>>
      PROVE  SerialInv'
  <2>1. SlotFits(slot)'
    BY <1>4 DEF SlotFits
  <2> QED BY <1>4, <2>1, SerialQuiet
<1>5. CASE BeginInitiate(r)
  <2>1. PICK i \in Invoices, p \in Payments :
          /\ answer[p] = "unknown"
          /\ answer' = [answer EXCEPT ![p] = "asked"]
          /\ Continue(r, [kind |-> "initiate", payment |-> p, invoice |-> i,
                          amount |-> Total[i] - paid[i]])
          /\ UNCHANGED <<invoiceVars, paymentVars, acked>>
    BY <1>5 DEF BeginInitiate
  <2> DEFINE slot == [kind |-> "initiate", payment |-> p, invoice |-> i,
                      amount |-> Total[i] - paid[i]]
  <2>2. answer'[p] = "asked" /\ \A o \in Payments : o # p => answer'[o] = answer[o]
    BY <1>1, <2>1 DEF PaymentsTypeOK
  <2>3. payStatus'[p] = "none"
    BY <2>1 DEF SerialInv, CreditedWhenPaid
  <2>4. SlotFits(slot)'
    BY <2>2, <2>3 DEF SlotFits
  <2>5. \A o \in Payments : /\ payStatus'[o] # "PAID" => payStatus[o] # "PAID"
                            /\ answer'[o] = "unknown" =>
                                 answer[o] = "unknown" /\ payStatus'[o] = payStatus[o]
    BY <2>1, <2>2
  <2> HIDE DEF slot
  <2> QED BY <2>1, <2>4, <2>5, SerialQuiet DEF slot
<1>6. CASE CreatePayment(r)
  <2>1. q \in InitiateReq /\ payStatus[q.payment] = "none" /\ answer[q.payment] # "unknown"
    BY <1>1, <1>2, <1>6, SlotKinds DEF CreatePayment, SlotFits
  <2>2. \A p \in Payments : /\ payStatus'[p] # "PAID" => payStatus[p] # "PAID"
                            /\ answer'[p] = "unknown" =>
                                 answer[p] = "unknown" /\ payStatus'[p] = payStatus[p]
    BY <1>1, <1>6, <2>1 DEF CreatePayment, InitiateReq, PaymentsTypeOK
  <2> QED BY <1>3, <1>6, <2>2 DEF CreatePayment, Finish
<1>7. ASSUME NEW p \in Payments, AcknowledgeOnly(r, p) PROVE SerialInv'
  <2>1. UNCHANGED <<paid, invStatus, credits, credited, payStatus, answer, requests>>
    BY <1>7 DEF AcknowledgeOnly
  <2>2. \A s \in Requests : SlotFits(requests[s])'
    BY <2>1 DEF SerialInv, SlotFits
  <2> QED BY <2>1, <2>2 DEF SerialInv, NoCreditLost, CreditedOnce, CreditedWhenPaid
<1>8. ASSUME NEW p \in Payments, BeginWebhook(r, p) PROVE SerialInv'
  <2> DEFINE slot == [kind |-> IF answer[p] = "FAILED" THEN "fail" ELSE "webhook",
                      payment |-> p]
  <2>1. SlotFits(slot)
    BY <1>8 DEF BeginWebhook, SettledBefore, SlotFits
  <2> HIDE DEF slot
  <2> QED BY <1>4, <1>8, <2>1 DEF BeginWebhook, Begin, Continue, slot
<1>9. CASE Fail(r)
  <2>1. q \in PaymentReq /\ payStatus[q.payment] \notin {"none", "PAID"}
    BY <1>1, <1>2, <1>9, SlotKinds DEF Fail, SlotFits
  <2>2. q.payment \in Payments /\ answer[q.payment] # "unknown"
    BY <2>1 DEF PaymentReq, SerialInv, CreditedWhenPaid
  <2>3. \A p \in Payments : /\ payStatus'[p] # "PAID" => payStatus[p] # "PAID"
                            /\ answer'[p] = "unknown" =>
                                 answer[p] = "unknown" /\ payStatus'[p] = payStatus[p]
    BY <1>1, <1>9, <2>1, <2>2 DEF Fail, PaymentsTypeOK
  <2> QED BY <1>3, <1>9, <2>3 DEF Fail, Finish
<1>10. CASE BeginReconcile(r)
  <2>1. payStatus[q.payment] \notin {"none", "PAID"}
    BY <1>1, <1>10 DEF BeginReconcile, SlotFits
  <2> DEFINE slot == [kind |-> "reconcile", payment |-> q.payment]
  <2>2. Continue(r, slot)
    BY <1>10, <2>1 DEF BeginReconcile, SettledBefore
  <2>3. SlotFits(slot)
    BY <2>1 DEF SlotFits
  <2> HIDE DEF slot
  <2> QED BY <1>4, <1>10, <2>2, <2>3 DEF BeginReconcile
<1>11. CASE LockAndRead(r)
  <2> DEFINE slot == [kind |-> "locked", payment |-> q.payment,
                      invoice |-> payInvoice[q.payment],
                      seenPaid |-> paid[payInvoice[q.payment]]]
  <2>1. payStatus[q.payment] \notin {"none", "PAID"}
    BY <1>1, <1>11 DEF LockAndRead, SlotFits
  <2>2. SlotFits(slot)
    BY <2>1 DEF SlotFits
  <2>3. Continue(r, slot)
    BY <1>11 DEF LockAndRead
  <2> HIDE DEF slot
  <2> QED BY <1>4, <1>11, <2>2, <2>3 DEF LockAndRead
<1>12. CASE Reconcile(r)
  <2>1. q \in LockedReq
    BY <1>2, <1>12, SlotKinds DEF Reconcile
  <2>2. /\ q.payment \in Payments /\ q.invoice \in Invoices
        /\ payAmount[q.payment] \in Nat
    BY <1>1, <2>1 DEF LockedReq, PaymentsTypeOK
  <2>3. payStatus[q.payment] \notin {"none", "PAID"} /\ q.seenPaid = paid[q.invoice]
    BY <1>1, <1>12 DEF Reconcile, SlotFits
  <2>4. credited[q.payment] = 0 /\ answer[q.payment] # "unknown"
    BY <2>2, <2>3 DEF SerialInv, CreditedWhenPaid
  <2>5. /\ payStatus'[q.payment] = "PAID"
        /\ \A o \in Payments : o # q.payment => payStatus'[o] = payStatus[o]
    BY <1>1, <1>12, <2>2 DEF Reconcile, PaymentsTypeOK
  <2>6. /\ Credit(q.invoice, paid[q.invoice], payAmount[q.payment], q.payment)
        /\ Finish(r) /\ answer' = answer
    BY <1>12, <2>3 DEF Reconcile
  <2> QED BY <2>2, <2>4, <2>5, <2>6, SerialCredit
<1>13. CASE BeginManual(r)
  <2>1. PICK p \in Payments :
          /\ payStatus[p] # "none" /\ ~SettledBefore(p)
          /\ Begin(r, [kind |-> "manual", payment |-> p])
    BY <1>13 DEF BeginManual
  <2> DEFINE slot == [kind |-> "manual", payment |-> p]
  <2>2. SlotFits(slot)
    BY <2>1 DEF SettledBefore, SlotFits
  <2> HIDE DEF slot
  <2> QED BY <1>4, <2>1, <2>2 DEF Begin, Continue, slot
<1>14. CASE PayManually(r)
  <2>1. q \in PaymentReq /\ payStatus[q.payment] \notin {"none", "PAID"}
    BY <1>1, <1>2, <1>14, SlotKinds DEF PayManually, SlotFits
  <2>2. PICK p \in Payments : p = q.payment
    BY <2>1 DEF PaymentReq
  <2> DEFINE slot == [kind |-> "marking", payment |-> p]
  <2>3. credited[p] = 0 /\ answer[p] # "unknown"
    BY <2>1, <2>2 DEF SerialInv, CreditedWhenPaid
  <2>4. /\ payStatus' = [payStatus EXCEPT ![p] = "PAID"]
        /\ Continue(r, slot) /\ answer' = answer
        /\ UNCHANGED <<paid, credits, credited>>
    BY <1>14, <2>2 DEF PayManually
  <2>5. payStatus'[p] = "PAID"
    BY <1>1, <2>4 DEF PaymentsTypeOK
  <2>6. SlotFits(slot)'
    BY <2>3, <2>4, <2>5 DEF SlotFits
  <2>7. \A o \in Payments : /\ payStatus'[o] # "PAID" => payStatus[o] # "PAID"
                            /\ answer'[o] = "unknown" =>
                                 answer[o] = "unknown" /\ payStatus'[o] = payStatus[o]
    BY <1>1, <2>3, <2>4, <2>5 DEF PaymentsTypeOK
  <2> HIDE DEF slot
  <2> QED BY <2>4, <2>6, <2>7, SerialQuiet
<1>15. ASSUME NEW i \in Invoices, NEW amount, NEW p, MarkRead(r, i, amount, p),
              p # NoPayment => payStatus[p] = "PAID" /\ credited[p] = 0
       PROVE  SerialInv'
  <2> DEFINE slot == [kind |-> "mark", invoice |-> i, amount |-> amount,
                      seenPaid |-> paid[i], payment |-> p]
  <2>1. SlotFits(slot)
    BY <1>15 DEF SlotFits
  <2>2. Continue(r, slot)
    BY <1>15 DEF MarkRead
  <2> HIDE DEF slot
  <2> QED BY <1>4, <1>15, <2>1, <2>2 DEF MarkRead
<1>16. CASE MarkManually(r)
  <2>1. q \in PaymentReq /\ payStatus[q.payment] = "PAID" /\ credited[q.payment] = 0
    BY <1>1, <1>2, <1>16, SlotKinds DEF MarkManually, SlotFits
  <2>2. payInvoice[q.payment] \in Invoices
    BY <1>1, <2>1 DEF PaymentReq, PaymentsTypeOK
  <2> QED BY <1>15, <1>16, <2>1, <2>2 DEF MarkManually
<1>17. CASE BeginMarkPaid(r)
  BY <1>15, <1>17 DEF BeginMarkPaid
<1>18. CASE MarkPaid(r)
  <2>1. q \in MarkReq
    BY <1>2, <1>18, SlotKinds DEF MarkPaid
  <2>2. /\ q.payment \in Payments \cup {NoPayment} /\ q.invoice \in Invoices
        /\ q.amount \in Nat
    BY <2>1 DEF MarkReq
  <2>3. /\ q.seenPaid = paid[q.invoice]
        /\ q.payment # NoPayment => payStatus[q.payment] = "PAID" /\ credited[q.payment] = 0
    BY <1>1, <1>18 DEF MarkPaid, SlotFits
  <2>4. q.payment # NoPayment => answer[q.payment] # "unknown"
    BY <2>2, <2>3 DEF SerialInv, CreditedWhenPaid
  <2>5. /\ Credit(q.invoice, paid[q.invoice], q.amount, q.payment)
        /\ Finish(r) /\ answer' = answer /\ payStatus' = payStatus
    BY <1>18, <2>3 DEF MarkPaid
  <2> QED BY <2>2, <2>3, <2>4, <2>5, SerialCredit
<1>19. CASE BeginVoid(r)
  <2>1. PICK i \in Invoices :
          Voidable(i) /\ Begin(r, [kind |-> "void", invoice |-> i])
    BY <1>19 DEF BeginVoid
  <2> DEFINE slot == [kind |-> "void", invoice |-> i]
  <2>2. SlotFits(slot)
    BY <2>1 DEF Voidable, SlotFits
  <2> HIDE DEF slot
  <2> QED BY <1>4, <2>1, <2>2 DEF Begin, Continue, slot
<1>20. CASE VoidInvoice(r)
  BY <1>3, <1>20 DEF VoidInvoice, Finish
<1>21. CASE Abandon(r)
  BY <1>3, <1>21 DEF Abandon, Finish
<1> QED BY <1>5, <1>6, <1>7, <1>8, <1>9, <1>10, <1>11, <1>12, <1>13, <1>14, <1>16,
           <1>17, <1>18, <1>19, <1>20, <1>21 DEF Handle, Settle

LEMMA NextSerial ==
    ASSUME OneRequest
    PROVE  SerialInv /\ [Next]_vars => SerialInv'
<1> SUFFICES ASSUME SerialInv, [Next]_vars PROVE SerialInv'
  OBVIOUS
<1> USE DEF invoiceVars, paymentVars, mtnVars
<1>1. PaymentsTypeOK'
  BY NextType DEF SerialInv
<1>2. ASSUME NEW p \in Payments, PayerAnswers(p) PROVE SerialInv'
  <2>1. /\ UNCHANGED <<paid, invStatus, credits, credited, payStatus, requests>>
        /\ \A o \in Payments : answer'[o] = "unknown" <=> answer[o] = "unknown"
    BY <1>2 DEF PayerAnswers, SerialInv, PaymentsTypeOK
  <2>2. ASSUME NEW s \in Requests PROVE SlotFits(requests[s])'
    <3>1. SlotFits(requests[s]) /\ requests[s] \in Request
      BY DEF SerialInv, PaymentsTypeOK
    <3>2. requests[s].kind = "initiate" => requests[s].payment \in Payments
      BY <3>1, SlotKinds DEF InitiateReq
    <3> QED BY <2>1, <3>1, <3>2 DEF SlotFits
  <2> QED BY <1>1, <2>1, <2>2 DEF SerialInv, NoCreditLost, CreditedOnce, CreditedWhenPaid
<1>3. CASE UNCHANGED vars
  BY <1>1, <1>3 DEF vars, SerialInv, SlotFits, NoCreditLost, CreditedOnce, CreditedWhenPaid
<1>4. ASSUME NEW i \in Invoices, GenerateInvoice(i) PROVE SerialInv'
  <2>1. /\ UNCHANGED <<paid, credits, credited, payStatus, answer, requests>>
        /\ invStatus' = [invStatus EXCEPT ![i] = "UNPAID"]
    BY <1>4 DEF GenerateInvoice
  <2>2. ASSUME NEW s \in Requests PROVE SlotFits(requests[s])'
    <3>1. SlotFits(requests[s]) /\ requests[s] \in Request
      BY DEF SerialInv, PaymentsTypeOK
    <3>2. requests[s].kind = "void" => requests[s].invoice \in Invoices
      BY <3>1, SlotKinds DEF VoidReq
    <3> QED BY <2>1, <3>1, <3>2 DEF SlotFits, SerialInv, PaymentsTypeOK
  <2> QED BY <1>1, <2>1, <2>2 DEF SerialInv, NoCreditLost, CreditedOnce, CreditedWhenPaid
<1> QED BY <1>1, <1>2, <1>3, <1>4, HandleSerial DEF Next

\* One request at a time an invoice shows every credit it got.
THEOREM CreditsAddUp == ASSUME OneRequest PROVE Spec => []NoCreditLost
<1>1. SerialInv => NoCreditLost
  BY DEF SerialInv
<1> QED BY <1>1, InitSerial, NextSerial, PTL DEF Spec

\* One request at a time no payment is credited twice, however often MTN
\* repeats its answer and whatever managers do in between.
THEOREM NoneIsCreditedTwice == ASSUME OneRequest PROVE Spec => []CreditedOnce
<1>1. SerialInv => CreditedOnce
  BY DEF SerialInv
<1> QED BY <1>1, InitSerial, NextSerial, PTL DEF Spec

\* One request at a time neither a late refusal of MTN nor a new attempt takes
\* the PAID of a payment back.
THEOREM SettledForGood == ASSUME OneRequest PROVE Spec => SettledStays
<1>1. ASSUME SerialInv, [Next]_vars, NEW p \in Payments, payStatus[p] = "PAID"
      PROVE  payStatus'[p] = "PAID"
  <2>1. PaymentsTypeOK /\ \A r \in Requests : SlotFits(requests[r])
    BY <1>1 DEF SerialInv
  <2>2. ASSUME NEW r \in Requests, CreatePayment(r) \/ Fail(r)
        PROVE  requests[r].payment # p
    BY <1>1, <2>1, <2>2 DEF CreatePayment, Fail, SlotFits
  <2>3. ASSUME NEW r \in Requests, Handle(r) PROVE payStatus'[p] = "PAID"
    <3>1. \/ payStatus' = payStatus
          \/ payStatus' = [payStatus EXCEPT ![requests[r].payment] = "PAID"]
          \/ CreatePayment(r) \/ Fail(r)
      BY <2>3 DEF Handle, Settle, Begin, BeginInitiate, AcknowledgeOnly, BeginWebhook,
             BeginReconcile, LockAndRead, Reconcile, BeginManual, PayManually,
             MarkManually, BeginMarkPaid, MarkRead, MarkPaid, BeginVoid, VoidInvoice,
             Abandon, paymentVars
    <3> QED BY <1>1, <2>1, <2>2, <3>1 DEF PaymentsTypeOK, CreatePayment, Fail
  <2> QED BY <1>1, <2>3 DEF Next, PayerAnswers, GenerateInvoice, vars, paymentVars
<1>2. SerialInv /\ [Next]_vars =>
        [\A p \in Payments : payStatus[p] = "PAID" => payStatus'[p] = "PAID"]_vars
  BY <1>1
<1> QED BY <1>2, InitSerial, NextSerial, PTL DEF Spec, SettledStays

-----------------------------------------------------------------------------
(* An invoice is settled for good *)

\* A request for money asks for all that is left to pay.  As what is paid only
\* grows, its payment settles the invoice whenever it comes, an invoice that was
\* voided meanwhile included.
AmountsCover ==
    \A p \in Payments :
        payStatus[p] # "none" =>
            payAmount[p] + paid[payInvoice[p]] >= Total[payInvoice[p]]

SlotCovers(q) ==
    /\ q.kind = "initiate" => q.amount + paid[q.invoice] >= Total[q.invoice]
    /\ q.kind = "locked" => q.invoice = payInvoice[q.payment]
    /\ q.kind = "mark" => invStatus[q.invoice] # "VOID"

SettleInv ==
    /\ SerialInv
    /\ MoneyInv
    /\ AmountsCover
    /\ \A r \in Requests : SlotCovers(requests[r])

\* What a step may do to an invoice: nothing takes back what is paid or the
\* status PAID, and no invoice becomes outstanding again.
OnlySettled ==
    \A i \in Invoices :
        /\ paid[i] <= paid'[i]
        /\ invStatus[i] = "PAID" => invStatus'[i] = "PAID"
        /\ invStatus'[i] = "UNPAID" => invStatus[i] \in {"none", "UNPAID"}
        /\ invStatus'[i] = "none" => invStatus[i] = "none"

LEMMA CreditSettles ==
    ASSUME SettleInv, NEW i \in Invoices, NEW amount \in Nat, NEW p,
           Credit(i, paid[i], amount, p),
           invStatus[i] = "VOID" => amount + paid[i] >= Total[i]
    PROVE  OnlySettled
<1>1. /\ paid \in [Invoices -> Nat] /\ Total \in [Invoices -> Nat]
      /\ invStatus \in [Invoices -> {"none", "UNPAID", "PAID", "VOID"}]
  BY PaymentsAssumption DEF SettleInv, MoneyInv, PaymentsTypeOK
<1>2. /\ paid' = [paid EXCEPT ![i] = paid[i] + amount]
      /\ invStatus' = [invStatus EXCEPT ![i] =
                         IF paid[i] + amount >= Total[i] THEN "PAID" ELSE "UNPAID"]
  BY <1>1, NewPaidType DEF Credit, StatusFor
<1>3. invStatus[i] = "PAID" => paid[i] >= Total[i]
  BY DEF SettleInv, MoneyInv, StatusAgreesWithAmount
<1>4. ASSUME NEW j \in Invoices
      PROVE  /\ paid[j] <= paid'[j]
             /\ invStatus[j] = "PAID" => invStatus'[j] = "PAID"
             /\ invStatus'[j] = "UNPAID" => invStatus[j] \in {"none", "UNPAID"}
             /\ invStatus'[j] = "none" => invStatus[j] = "none"
  <2>1. CASE j # i
    <3>1. paid'[j] = paid[j] /\ invStatus'[j] = invStatus[j] /\ paid[j] \in Nat
      BY <1>1, <1>2, <2>1
    <3> QED BY <3>1
  <2>2. CASE j = i
    <3>1. /\ paid'[i] = paid[i] + amount /\ paid[i] \in Nat /\ Total[i] \in Nat
          /\ invStatus[i] \in {"none", "UNPAID", "PAID", "VOID"}
          /\ invStatus'[i] = IF paid[i] + amount >= Total[i] THEN "PAID" ELSE "UNPAID"
      BY <1>1, <1>2
    <3>2. paid[i] >= Total[i] => paid[i] + amount >= Total[i]
      BY <3>1
    <3>3. invStatus[i] \notin {"none", "UNPAID"} => invStatus'[i] = "PAID"
      BY <1>3, <3>1, <3>2
    <3> QED BY <2>2, <3>1, <3>3
  <2> QED BY <2>1, <2>2
<1> QED BY <1>4 DEF OnlySettled

LEMMA HandleSettles ==
    ASSUME SettleInv, NEW r \in Requests, Handle(r)
    PROVE  OnlySettled
<1> DEFINE q == requests[r]
<1>1. /\ PaymentsTypeOK /\ q \in Request /\ SlotFits(q) /\ SlotCovers(q)
  BY DEF SettleInv, SerialInv, PaymentsTypeOK
<1>2. \/ UNCHANGED <<paid, invStatus>>
      \/ Reconcile(r) \/ MarkPaid(r) \/ VoidInvoice(r)
  BY DEF Handle, Settle, Begin, BeginInitiate, CreatePayment, AcknowledgeOnly,
         BeginWebhook, Fail, BeginReconcile, LockAndRead, BeginManual,
         PayManually, MarkManually, BeginMarkPaid, MarkRead, BeginVoid,
         Abandon, invoiceVars
<1>3. CASE UNCHANGED <<paid, invStatus>>
  BY <1>1, <1>3 DEF OnlySettled, PaymentsTypeOK
<1>4. CASE Reconcile(r)
  <2>1. q \in LockedReq
    BY <1>1, <1>4, SlotKinds DEF Reconcile
  <2>2. /\ q.payment \in Payments /\ q.invoice \in Invoices
        /\ payAmount[q.payment] \in Nat
    BY <1>1, <2>1 DEF LockedReq, PaymentsTypeOK
  <2>3. /\ payStatus[q.payment] # "none" /\ q.seenPaid = paid[q.invoice]
        /\ q.invoice = payInvoice[q.payment]
    BY <1>1, <1>4 DEF Reconcile, SlotFits, SlotCovers
  <2>4. payAmount[q.payment] + paid[q.invoice] >= Total[q.invoice]
    BY <2>2, <2>3 DEF SettleInv, AmountsCover
  <2>5. Credit(q.invoice, paid[q.invoice], payAmount[q.payment], q.payment)
    BY <1>4, <2>3 DEF Reconcile
  <2> QED BY <2>2, <2>4, <2>5, CreditSettles
<1>5. CASE MarkPaid(r)
  <2>1. q \in MarkReq
    BY <1>1, <1>5, SlotKinds DEF MarkPaid
  <2>2. q.invoice \in Invoices /\ q.amount \in Nat
    BY <2>1 DEF MarkReq
  <2>3. q.seenPaid = paid[q.invoice] /\ invStatus[q.invoice] # "VOID"
    BY <1>1, <1>5 DEF MarkPaid, SlotFits, SlotCovers
  <2>4. Credit(q.invoice, paid[q.invoice], q.amount, q.payment)
    BY <1>5, <2>3 DEF MarkPaid
  <2> QED BY <2>2, <2>3, <2>4, CreditSettles
<1>6. CASE VoidInvoice(r)
  <2>1. /\ paid' = paid /\ invStatus[q.invoice] = "UNPAID"
        /\ invStatus' = [invStatus EXCEPT ![q.invoice] = "VOID"]
    BY <1>1, <1>6 DEF VoidInvoice, SlotFits
  <2> QED BY <1>1, <2>1 DEF OnlySettled, PaymentsTypeOK
<1> QED BY <1>2, <1>3, <1>4, <1>5, <1>6

\* A slot of another kind covers whatever it holds.
LEMMA OtherSlotCovers ==
    ASSUME NEW q, q.kind \notin {"initiate", "locked", "mark"}
    PROVE  SlotCovers(q)'
BY DEF SlotCovers

LEMMA HandleCovers ==
    ASSUME OneRequest, SettleInv, NEW r \in Requests, Handle(r), OnlySettled,
           PaymentsTypeOK'
    PROVE  AmountsCover' /\ \A s \in Requests : SlotCovers(requests[s])'
<1> DEFINE q == requests[r]
<1> USE DEF invoiceVars, paymentVars, mtnVars
<1>1. /\ PaymentsTypeOK /\ q \in Request /\ SlotCovers(q)
      /\ Total \in [Invoices -> Nat]
  BY PaymentsAssumption DEF SettleInv, SerialInv, PaymentsTypeOK
<1>2. ASSUME NEW n \in Nat, NEW i \in Invoices, n + paid[i] >= Total[i]
      PROVE  n + paid'[i] >= Total[i]
  <2>1. paid[i] \in Nat /\ paid'[i] \in Nat /\ paid[i] <= paid'[i] /\ Total[i] \in Nat
    BY <1>1 DEF OnlySettled, PaymentsTypeOK
  <2> QED BY <1>2, <2>1
<1>3. \/ /\ UNCHANGED <<payInvoice, payAmount>>
         /\ \A p \in Payments : payStatus'[p] # "none" => payStatus[p] # "none"
      \/ CreatePayment(r)
  <2>1. \/ UNCHANGED paymentVars
        \/ Fail(r) \/ Reconcile(r) \/ PayManually(r) \/ CreatePayment(r)
    BY DEF Handle, Settle, Begin, BeginInitiate, AcknowledgeOnly,
           BeginWebhook, BeginReconcile, LockAndRead, BeginManual,
           MarkManually, BeginMarkPaid, MarkRead, MarkPaid, BeginVoid, VoidInvoice,
           Abandon
  <2>2. ASSUME Fail(r) \/ Reconcile(r) \/ PayManually(r)
        PROVE  payStatus[q.payment] # "none"
    BY <2>2 DEF Fail, Reconcile, PayManually, SettleInv, SerialInv, SlotFits
  <2> QED BY <1>1, <2>1, <2>2 DEF Fail, Reconcile, PayManually, PaymentsTypeOK
<1>4. AmountsCover'
  <2> SUFFICES ASSUME NEW p \in Payments, payStatus'[p] # "none"
      PROVE  payAmount'[p] + paid'[payInvoice'[p]] >= Total[payInvoice'[p]]
    BY DEF AmountsCover
  <2>1. ASSUME payStatus[p] # "none", payInvoice'[p] = payInvoice[p],
               payAmount'[p] = payAmount[p]
        PROVE  payAmount'[p] + paid'[payInvoice'[p]] >= Total[payInvoice'[p]]
    <3>1. payAmount[p] \in Nat /\ payInvoice[p] \in Invoices
      BY <1>1 DEF PaymentsTypeOK
    <3>2. payAmount[p] + paid[payInvoice[p]] >= Total[payInvoice[p]]
      BY <2>1 DEF SettleInv, AmountsCover
    <3> QED BY <1>2, <2>1, <3>1, <3>2
  <2>2. CASE CreatePayment(r)
    <3>1. q \in InitiateReq /\ q.amount + paid[q.invoice] >= Total[q.invoice]
      BY <1>1, <2>2, SlotKinds DEF CreatePayment, SlotCovers
    <3>2. CASE p = q.payment
      <4>1. payInvoice'[p] = q.invoice /\ payAmount'[p] = q.amount /\ paid' = paid
        BY <1>1, <2>2, <3>2 DEF CreatePayment, PaymentsTypeOK
      <4> QED BY <3>1, <4>1
    <3>3. CASE p # q.payment
      <4>1. /\ payStatus'[p] = payStatus[p] /\ payInvoice'[p] = payInvoice[p]
            /\ payAmount'[p] = payAmount[p]
        BY <1>1, <2>2, <3>3 DEF CreatePayment, PaymentsTypeOK
      <4> QED BY <2>1, <4>1
    <3> QED BY <3>2, <3>3
  <2> QED BY <1>3, <2>1, <2>2
<1>5. ASSUME NEW slot, Continue(r, slot), SlotCovers(slot)'
      PROVE  \A s \in Requests : SlotCovers(requests[s])'
  <2>1. \A s \in Requests : requests'[s] = slot
    BY <1>1, <1>5, OnlySlot
  <2> QED BY <1>5, <2>1 DEF SlotCovers
<1>6. ASSUME NEW slot, Continue(r, slot), slot.kind \notin {"initiate", "locked", "mark"}
      PROVE  \A s \in Requests : SlotCovers(requests[s])'
  BY <1>5, <1>6, OtherSlotCovers
<1>7. \A s \in Requests : SlotCovers(requests[s])'
  <2>1. CASE BeginInitiate(r)
    <3>1. PICK i \in Invoices, p \in Payments :
            /\ UNCHANGED <<paid, invStatus, payInvoice>>
            /\ Continue(r, [kind |-> "initiate", payment |-> p, invoice |-> i,
                            amount |-> Total[i] - paid[i]])
      BY <2>1 DEF BeginInitiate
    <3>2. PICK slot : slot = [kind |-> "initiate", payment |-> p, invoice |-> i,
                              amount |-> Total[i] - paid[i]]
      OBVIOUS
    <3>3. Total[i] \in Nat /\ paid[i] \in Nat
      BY <1>1 DEF PaymentsTypeOK
    <3>4. Total[i] - paid[i] + paid[i] >= Total[i]
      BY <3>3
    <3>5. SlotCovers(slot)'
      BY <3>1, <3>2, <3>4 DEF SlotCovers
    <3> QED BY <1>5, <3>1, <3>2, <3>5
  <2>2. CASE LockAndRead(r)
    <3>1. PICK slot : slot = [kind |-> "locked", payment |-> q.payment,
                              invoice |-> payInvoice[q.payment],
                              seenPaid |-> paid[payInvoice[q.payment]]]
      OBVIOUS
    <3>2. Continue(r, slot) /\ payInvoice' = payInvoice
      BY <2>2, <3>1 DEF LockAndRead
    <3>3. SlotCovers(slot)'
      BY <3>1, <3>2 DEF SlotCovers
    <3> QED BY <1>5, <3>2, <3>3
  <2>3. ASSUME NEW i, NEW amount, NEW p, MarkRead(r, i, amount, p)
        PROVE  \A s \in Requests : SlotCovers(requests[s])'
    <3>1. PICK slot : slot = [kind |-> "mark", invoice |-> i, amount |-> amount,
                              seenPaid |-> paid[i], payment |-> p]
      OBVIOUS
    <3>2. Continue(r, slot) /\ invStatus[i] # "VOID" /\ invStatus' = invStatus
      BY <2>3, <3>1 DEF MarkRead
    <3>3. SlotCovers(slot)'
      BY <3>1, <3>2 DEF SlotCovers
    <3> QED BY <1>5, <3>2, <3>3
  <2>4. ASSUME NEW p \in Payments, AcknowledgeOnly(r, p)
        PROVE  \A s \in Requests : SlotCovers(requests[s])'
    <3>1. UNCHANGED <<paid, invStatus, payInvoice, requests>>
      BY <2>4 DEF AcknowledgeOnly
    <3> QED BY <3>1 DEF SettleInv, SlotCovers
  <2>5. CASE BeginReconcile(r)
    <3>1. PICK slot \in {Idle, [kind |-> "reconcile", payment |-> q.payment]} :
            Continue(r, slot)
      BY <2>5 DEF BeginReconcile, Finish
    <3>2. slot.kind \notin {"initiate", "locked", "mark"}
      BY <3>1 DEF Idle
    <3> QED BY <1>6, <3>1, <3>2
  <2>6. ASSUME NEW slot, Begin(r, slot), slot.kind \notin {"initiate", "locked", "mark"}
        PROVE  \A s \in Requests : SlotCovers(requests[s])'
    BY <1>6, <2>6 DEF Begin, Continue
  <2>7. CASE Finish(r)
    BY <1>6, <2>7 DEF Finish, Idle
  <2>8. CASE PayManually(r)
    BY <1>6, <2>8 DEF PayManually
  <2>9. CASE BeginManual(r)
    BY <2>6, <2>9 DEF BeginManual
  <2>10. CASE BeginVoid(r)
    BY <2>6, <2>10 DEF BeginVoid
  <2>11. ASSUME NEW p \in Payments, BeginWebhook(r, p)
        PROVE  \A s \in Requests : SlotCovers(requests[s])'
    BY <2>6, <2>11 DEF BeginWebhook
  <2>12. CASE MarkManually(r) \/ BeginMarkPaid(r)
    BY <2>3, <2>12 DEF MarkManually, BeginMarkPaid
  <2>13. CASE CreatePayment(r) \/ Fail(r) \/ Reconcile(r) \/ MarkPaid(r)
              \/ VoidInvoice(r) \/ Abandon(r)
    BY <2>7, <2>13 DEF CreatePayment, Fail, Reconcile, MarkPaid, VoidInvoice, Abandon
  <2> QED BY <2>1, <2>2, <2>4, <2>5, <2>8, <2>9, <2>10, <2>11, <2>12, <2>13
          DEF Handle, Settle
<1> QED BY <1>4, <1>7

LEMMA InitSettle == Init => SettleInv
<1> SUFFICES ASSUME Init PROVE SettleInv
  OBVIOUS
<1>1. AmountsCover /\ \A r \in Requests : SlotCovers(requests[r])
  BY DEF Init, AmountsCover, SlotCovers, Idle
<1> QED BY <1>1, InitSerial, InitMoney DEF SettleInv

LEMMA NextSettle ==
    ASSUME OneRequest, SettleInv, [Next]_vars
    PROVE  SettleInv' /\ OnlySettled
<1>1. SerialInv' /\ MoneyInv' /\ PaymentsTypeOK' /\ PaymentsTypeOK
  BY NextSerial, NextMoney DEF SettleInv, SerialInv
<1>2. CASE \E r \in Requests : Handle(r)
  BY <1>1, <1>2, HandleSettles, HandleCovers DEF SettleInv
<1>3. CASE UNCHANGED <<invoiceVars, paymentVars, requests>>
  <2>1. AmountsCover' /\ \A r \in Requests : SlotCovers(requests[r])'
    BY <1>3 DEF SettleInv, AmountsCover, SlotCovers, invoiceVars, paymentVars
  <2>2. OnlySettled
    BY <1>1, <1>3 DEF OnlySettled, PaymentsTypeOK, invoiceVars
  <2> QED BY <1>1, <2>1, <2>2 DEF SettleInv
<1>4. ASSUME NEW i \in Invoices, GenerateInvoice(i) PROVE SettleInv' /\ OnlySettled
  <2>1. /\ invStatus[i] = "none" /\ UNCHANGED <<paid, paymentVars, requests>>
        /\ invStatus' = [invStatus EXCEPT ![i] = "UNPAID"]
    BY <1>4 DEF GenerateInvoice
  <2>2. OnlySettled
    BY <1>1, <2>1 DEF OnlySettled, PaymentsTypeOK
  <2>3. AmountsCover'
    BY <2>1 DEF SettleInv, AmountsCover, paymentVars
  <2>4. ASSUME NEW s \in Requests PROVE SlotCovers(requests[s])'
    <3>1. SlotCovers(requests[s]) /\ requests[s] \in Request
      BY <1>1 DEF SettleInv, PaymentsTypeOK
    <3>2. requests[s].kind = "mark" => requests[s].invoice \in Invoices
      BY <3>1, SlotKinds DEF MarkReq
    <3> QED BY <1>1, <2>1, <3>1, <3>2 DEF SlotCovers, PaymentsTypeOK, paymentVars
  <2> QED BY <1>1, <2>2, <2>3, <2>4 DEF SettleInv
<1> QED BY <1>2, <1>3, <1>4 DEF Next, PayerAnswers, vars

\* One request at a time an invoice that is paid stays paid with all that was
\* paid, and one that is paid or voided is never outstanding again.
THEOREM InvoicesSettleForGood == ASSUME OneRequest PROVE Spec => NothingUnsettled
<1>1. SettleInv /\ [Next]_vars => SettleInv' /\ OnlySettled
  BY NextSettle
<1>2. SettleInv /\ [Next]_vars =>
        SettleInv' /\ [\A i \in Invoices :
                         /\ paid[i] <= paid'[i]
                         /\ invStatus[i] = "PAID" => invStatus'[i] = "PAID"
                         /\ invStatus'[i] = "UNPAID" => invStatus[i] \in {"none", "UNPAID"}]_vars
  BY <1>1 DEF OnlySettled
<1> QED BY <1>2, InitSettle, PTL DEF Spec, NothingUnsettled

-----------------------------------------------------------------------------
(* Reports of finitely many invoices, read while payments commit *)

FinitelyMany == IsFiniteSet(Invoices)

LEMMA ReportKinds ==
    ASSUME ReportsTypeOK
    PROVE  /\ report.kind \in {"none", "revenue", "delivered", "pages", "last"}
           /\ report.kind \in {"revenue", "delivered"} => report \in RevenueMade
           /\ report.kind \in {"pages", "last"} => report \in PagesTurned
BY DEF ReportsTypeOK, NoReport, RevenueMade, PagesTurned

\* The sums the queries take.
LEMMA TotalOfType ==
    ASSUME FinitelyMany, NEW S \in SUBSET Invoices
    PROVE  IsFiniteSet(S) /\ TotalOf(S) \in Nat
<1>1. IsFiniteSet(S) /\ \A i \in S : Total[i] \in Nat
  BY PaymentsAssumption, FS_Subset DEF FinitelyMany
<1> QED BY <1>1, SumNat DEF TotalOf

LEMMA TotalOfPart ==
    ASSUME FinitelyMany, NEW S \in SUBSET Invoices, NEW T \in SUBSET S
    PROVE  TotalOf(T) <= TotalOf(S)
<1>1. IsFiniteSet(S) /\ \A i \in S : Total[i] \in Nat
  BY PaymentsAssumption, FS_Subset DEF FinitelyMany
<1> QED BY <1>1, SumOfPart DEF TotalOf

LEMMA TotalOfUnion ==
    ASSUME FinitelyMany, NEW S \in SUBSET Invoices, NEW T \in SUBSET Invoices,
           S \cap T = {}
    PROVE  TotalOf(S \cup T) = TotalOf(S) + TotalOf(T)
<1>1. IsFiniteSet(S) /\ IsFiniteSet(T) /\ \A i \in S \cup T : Total[i] \in Int
  BY PaymentsAssumption, FS_Subset DEF FinitelyMany
<1> QED BY <1>1, SumUnion DEF TotalOf

\* What is outstanding is not more than what is asked for.
LEMMA BalanceBounded ==
    ASSUME FinitelyMany, PaymentsTypeOK, NEW S \in SUBSET Invoices
    PROVE  Balance(S) \in Int /\ Balance(S) <= TotalOf(S)
<1>1. IsFiniteSet(S) /\ \A i \in S : paid[i] \in Nat
  BY FS_Subset DEF FinitelyMany, PaymentsTypeOK
<1>2. SumFunctionOnSet(paid, S) \in Nat
  BY <1>1, SumNat
<1>3. TotalOf(S) \in Nat
  BY TotalOfType
<1> QED BY <1>2, <1>3 DEF Balance

LEMMA AnswerType ==
    ASSUME FinitelyMany, PaymentsTypeOK, NEW scope, NEW query \in Queries
    PROVE  Answer(scope, query) \in Int
<1>1. \A status : Of(scope, status) \in SUBSET Invoices
  BY DEF Of
<1>2. /\ TotalOf(Of(scope, "PAID") \cap OrderInvoices) \in Int
      /\ TotalOf(Of(scope, "PAID") \ OrderInvoices) \in Int
  BY <1>1, TotalOfType
<1>3. Balance(Of(scope, "UNPAID")) \in Int
  BY <1>1, BalanceBounded
<1> QED BY <1>2, <1>3 DEF Answer, Queries

\* A step of a report leaves the invoices alone, and a step of a handler leaves
\* the report alone.
LEMMA ReportsStep ==
    ASSUME OneRequest, SettleInv, [ReportsNext]_reportsVars
    PROVE  /\ SettleInv' /\ OnlySettled
           /\ Report \/ UNCHANGED report
<1>1. [Next]_vars
  BY DEF ReportsNext, Report, reportsVars
<1>2. SettleInv' /\ OnlySettled
  BY <1>1, NextSettle
<1> QED BY <1>2 DEF ReportsNext, reportsVars

LEMMA AskedInside ==
    ASSUME NEW scope \in Scopes
    PROVE  Together(scope) \cup Afterwards(scope) \subseteq Asked
BY ReportsAssumption DEF Together, Afterwards, SalesOf, Asked, Scopes, Queries

LEMMA ReportType ==
    ASSUME FinitelyMany, PaymentsTypeOK, ReportsTypeOK, Report
    PROVE  ReportsTypeOK'
<1>1. CASE AskRevenue
  <2>1. PICK scope \in Scopes :
          report' = [kind |-> "revenue", scope |-> scope, read |-> {},
                     answers |-> [q \in Asked |-> 0]]
    BY <1>1 DEF AskRevenue
  <2>2. report' \in RevenueMade
    BY <2>1 DEF RevenueMade
  <2> QED BY <2>2 DEF ReportsTypeOK, RevenueMade, PagesTurned
<1>2. CASE ReadQuery
  <2>1. report \in RevenueMade
    BY <1>2, ReportKinds DEF ReadQuery
  <2>2. PICK q \in Together(report.scope) \cup Afterwards(report.scope) :
          report' = [report EXCEPT !.read = @ \cup {q},
                                   !.answers[q] = Answer(q[1], q[2])]
    BY <1>2 DEF ReadQuery
  <2>3. q \in Asked
    BY <2>1, <2>2, AskedInside DEF RevenueMade
  <2>4. Answer(q[1], q[2]) \in Int
    BY <2>3, AnswerType DEF Asked
  <2>5. report' \in RevenueMade
    BY <2>1, <2>2, <2>3, <2>4 DEF RevenueMade
  <2> QED BY <2>5 DEF ReportsTypeOK, RevenueMade, PagesTurned
<1>3. CASE DeliverRevenue
  <2>1. report \in RevenueMade
    BY <1>3, ReportKinds DEF DeliverRevenue
  <2>2. report' \in RevenueMade
    BY <1>3, <2>1 DEF DeliverRevenue, RevenueMade
  <2> QED BY <2>2 DEF ReportsTypeOK, RevenueMade, PagesTurned
<1>4. CASE AskUnpaid
  <2>1. PICK scope \in Scopes :
          report' = [kind |-> "pages", scope |-> scope, page |-> 1, read |-> {},
                     total |-> 0, listed |-> [i \in Invoices |-> 0],
                     began |-> Of(scope, "UNPAID"), issued |-> Issued]
    BY <1>4 DEF AskUnpaid
  <2>2. Of(scope, "UNPAID") \in SUBSET Invoices /\ Issued \in SUBSET Invoices
    BY DEF Of, Issued
  <2>3. report' \in PagesTurned
    BY <2>1, <2>2 DEF PagesTurned
  <2> QED BY <2>3 DEF ReportsTypeOK, RevenueMade, PagesTurned
<1>5. CASE ReadData
  <2>1. report \in PagesTurned
    BY <1>5, ReportKinds DEF ReadData
  <2>2. PICK page :
          report' = [report EXCEPT !.read = @ \cup {"data"},
            !.listed = [i \in Invoices |-> @[i] + (IF i \in page THEN 1 ELSE 0)]]
    BY <1>5 DEF ReadData
  <2>3. [i \in Invoices |-> report.listed[i] + (IF i \in page THEN 1 ELSE 0)]
          \in [Invoices -> Nat]
    BY <2>1 DEF PagesTurned
  <2>4. report' \in PagesTurned
    BY <2>1, <2>2, <2>3 DEF PagesTurned
  <2> QED BY <2>4 DEF ReportsTypeOK, RevenueMade, PagesTurned
<1>6. CASE ReadTotal
  <2>1. report \in PagesTurned
    BY <1>6, ReportKinds DEF ReadTotal
  <2>2. Of(report.scope, "UNPAID") \in SUBSET Invoices
    BY DEF Of
  <2>3. Cardinality(Of(report.scope, "UNPAID")) \in Nat
    BY <2>2, FS_Subset, FS_CardinalityType DEF FinitelyMany
  <2>4. report' \in PagesTurned
    BY <1>6, <2>1, <2>3 DEF ReadTotal, PagesTurned
  <2> QED BY <2>4 DEF ReportsTypeOK, RevenueMade, PagesTurned
<1>7. CASE TurnPage
  <2>1. report \in PagesTurned
    BY <1>7, ReportKinds DEF TurnPage
  <2>2. \/ report' = [report EXCEPT !.page = @ + 1, !.read = {}]
        \/ report' = [report EXCEPT !.kind = "last"]
    BY <1>7 DEF TurnPage
  <2>3. report.page + 1 \in Nat \ {0}
    BY <2>1 DEF PagesTurned
  <2>4. [report EXCEPT !.page = @ + 1, !.read = {}] \in PagesTurned
    BY <2>1, <2>3 DEF PagesTurned
  <2>5. [report EXCEPT !.kind = "last"] \in PagesTurned
    BY <2>1 DEF PagesTurned
  <2>6. report' \in PagesTurned
    BY <2>2, <2>4, <2>5
  <2> QED BY <2>6 DEF ReportsTypeOK, RevenueMade, PagesTurned
<1>8. CASE Close
  BY <1>8 DEF Close, ReportsTypeOK
<1> QED BY <1>1, <1>2, <1>3, <1>4, <1>5, <1>6, <1>7, <1>8 DEF Report

\* What every proof about reports starts from.
ReadInv == SettleInv /\ ReportsTypeOK

LEMMA InitRead == ReportsInit => ReadInv
BY InitSettle DEF ReportsInit, ReadInv, ReportsTypeOK

LEMMA NextRead ==
    ASSUME OneRequest, FinitelyMany, ReadInv, [ReportsNext]_reportsVars
    PROVE  ReadInv'
<1>1. SettleInv' /\ (Report \/ UNCHANGED report)
  BY ReportsStep DEF ReadInv
<1>2. PaymentsTypeOK
  BY DEF ReadInv, SettleInv, SerialInv
<1>3. CASE UNCHANGED report
  BY <1>1, <1>3 DEF ReadInv, ReportsTypeOK
<1> QED BY <1>1, <1>2, <1>3, ReportType DEF ReadInv

\* What is paid stays paid, and only a new invoice becomes outstanding.
LEMMA OnlySettledOf ==
    ASSUME OnlySettled, NEW scope
    PROVE  /\ \A i \in Of(scope, "PAID") : i \in Of(scope, "PAID")'
           /\ \A i \in Issued : i \in Issued'
           /\ \A i \in Of(scope, "UNPAID")' : i \in Issued => i \in Of(scope, "UNPAID")
BY DEF OnlySettled, Of, Issued

\* One answer comes in, and the others stay as they are.
LEMMA ReadQueryFields ==
    ASSUME FinitelyMany, PaymentsTypeOK, ReportsTypeOK, ReadQuery
    PROVE  /\ report.kind = "revenue" /\ report'.kind = "revenue"
           /\ report.scope \in Scopes /\ report'.scope = report.scope
           /\ \E q \in Together(report.scope) \cup Afterwards(report.scope) :
                /\ q \in Together(report.scope) \/ Together(report.scope) \subseteq report.read
                /\ q \in Asked /\ q \notin report.read
                /\ report'.read = report.read \cup {q}
                /\ report'.answers[q] = Answer(q[1], q[2])
                /\ \A p \in Asked : p # q => report'.answers[p] = report.answers[p]
<1>1. report.kind = "revenue" /\ report \in RevenueMade
  BY ReportKinds DEF ReadQuery
<1>2. PICK q \in Together(report.scope) \cup Afterwards(report.scope) :
        /\ q \notin report.read
        /\ q \in Together(report.scope) \/ Together(report.scope) \subseteq report.read
        /\ report' = [report EXCEPT !.read = @ \cup {q},
                                    !.answers[q] = Answer(q[1], q[2])]
  BY DEF ReadQuery
<1>3. q \in Asked /\ report.scope \in Scopes /\ report.answers \in [Asked -> Int]
  BY <1>1, <1>2, AskedInside DEF RevenueMade
<1>4. /\ report'.kind = report.kind /\ report'.scope = report.scope
      /\ report'.read = report.read \cup {q}
      /\ report'.answers = [report.answers EXCEPT ![q] = Answer(q[1], q[2])]
  BY <1>1, <1>2 DEF RevenueMade
<1> QED BY <1>1, <1>2, <1>3, <1>4

LEMMA AskRevenueFields ==
    ASSUME AskRevenue
    PROVE  /\ report'.kind = "revenue" /\ report'.scope \in Scopes /\ report'.read = {}
           /\ \A q \in Asked : report'.answers[q] = 0
BY DEF AskRevenue

LEMMA DeliverRevenueFields ==
    ASSUME ReportsTypeOK, DeliverRevenue
    PROVE  /\ report.kind = "revenue" /\ report.scope \in Scopes
           /\ Together(report.scope) \cup Afterwards(report.scope) = report.read
           /\ report'.kind = "delivered" /\ report'.scope = report.scope
           /\ report'.read = report.read /\ report'.answers = report.answers
<1>1. report.kind = "revenue" /\ report \in RevenueMade
  BY ReportKinds DEF DeliverRevenue
<1> QED BY <1>1 DEF DeliverRevenue, RevenueMade

\* The other steps of a client leave no report of revenue behind.
LEMMA OtherReportSteps ==
    ASSUME ReportsTypeOK, AskUnpaid \/ ReadData \/ ReadTotal \/ TurnPage \/ Close
    PROVE  report'.kind \notin {"revenue", "delivered"}
<1>1. CASE ReadData \/ ReadTotal \/ TurnPage
  <2>1. report \in PagesTurned
    BY <1>1, ReportKinds DEF ReadData, ReadTotal, TurnPage
  <2>2. ReportsTypeOK /\ report.kind = "pages"
    BY <1>1 DEF ReadData, ReadTotal, TurnPage
  <2>3. report'.kind \in {report.kind, "last"}
    BY <1>1, <2>1 DEF ReadData, ReadTotal, TurnPage, PagesTurned
  <2> QED BY <2>2, <2>3
<1>2. CASE AskUnpaid \/ Close
  BY <1>2 DEF AskUnpaid, Close, NoReport
<1> QED BY <1>1, <1>2

-----------------------------------------------------------------------------
(* The report of one site *)

AtSite(s) == {i \in Invoices : SiteOf[i] = s}

\* While it is made: the revenue of the site was its revenue at some earlier
\* time, so that it has no more than that by now; the balances are read when
\* the revenue is known.
MadeOfSite(s) ==
    /\ report.answers[<<s, "productSales">>] <= TotalOf(Of(s, "PAID") \cap OrderInvoices)
    /\ report.answers[<<s, "rentalIncome">>] <= TotalOf(Of(s, "PAID") \ OrderInvoices)
    /\ <<s, "unpaidBalances">> \in report.read =>
         /\ Together(s) \subseteq report.read
         /\ report.answers[<<s, "productSales">>] + report.answers[<<s, "rentalIncome">>]
              + report.answers[<<s, "unpaidBalances">>] <= TotalOf(AtSite(s))
    /\ report.kind = "delivered" => <<s, "unpaidBalances">> \in report.read

OneSiteInv ==
    /\ ReadInv
    /\ report.kind \in {"revenue", "delivered"} /\ report.scope # AllSites =>
         MadeOfSite(report.scope)

\* The parts of the invoices of a site: those paid for products, those paid for
\* rentals, and those outstanding.
LEMMA SiteParts ==
    ASSUME FinitelyMany, NEW s \in Sites
    PROVE  TotalOf(Of(s, "PAID") \cap OrderInvoices) + TotalOf(Of(s, "PAID") \ OrderInvoices)
             + TotalOf(Of(s, "UNPAID")) <= TotalOf(AtSite(s))
<1> DEFINE P == Of(s, "PAID")
           U == Of(s, "UNPAID")
<1>1. /\ P \in SUBSET Invoices /\ U \in SUBSET Invoices /\ AtSite(s) \in SUBSET Invoices
      /\ P \cap U = {} /\ P \cup U \in SUBSET AtSite(s)
  BY ReportsAssumption DEF Of, AtSite
<1>2. /\ P \cap OrderInvoices \in SUBSET Invoices /\ P \ OrderInvoices \in SUBSET Invoices
      /\ (P \cap OrderInvoices) \cap (P \ OrderInvoices) = {}
      /\ (P \cap OrderInvoices) \cup (P \ OrderInvoices) = P
      /\ P \cup U \in SUBSET Invoices
  BY <1>1
<1> HIDE DEF P, U
<1>3. TotalOf((P \cap OrderInvoices) \cup (P \ OrderInvoices)) =
        TotalOf(P \cap OrderInvoices) + TotalOf(P \ OrderInvoices)
  BY <1>2, TotalOfUnion
<1>4. TotalOf(P \cup U) = TotalOf(P) + TotalOf(U)
  BY <1>1, TotalOfUnion
<1>5. TotalOf(P \cup U) <= TotalOf(AtSite(s))
  BY <1>1, TotalOfPart
<1>6. TotalOf(P) = TotalOf(P \cap OrderInvoices) + TotalOf(P \ OrderInvoices)
  BY <1>2, <1>3
<1>7. /\ TotalOf(P \cap OrderInvoices) \in Nat /\ TotalOf(P \ OrderInvoices) \in Nat
      /\ TotalOf(U) \in Nat /\ TotalOf(AtSite(s)) \in Nat
  BY <1>1, <1>2, TotalOfType
<1>8. TotalOf(P \cap OrderInvoices) + TotalOf(P \ OrderInvoices) + TotalOf(U)
        <= TotalOf(AtSite(s))
  BY <1>4, <1>5, <1>6, <1>7
<1> QED BY <1>8 DEF P, U

\* Revenue that is read is bounded by the revenue there is from then on.
LEMMA RevenueGrows ==
    ASSUME FinitelyMany, OnlySettled, NEW s, NEW P, NEW Q,
           P = Of(s, "PAID"), Q = Of(s, "PAID")'
    PROVE  /\ TotalOf(P \cap OrderInvoices) <= TotalOf(Q \cap OrderInvoices)
           /\ TotalOf(P \ OrderInvoices) <= TotalOf(Q \ OrderInvoices)
<1>1. P \subseteq Q
  BY OnlySettledOf
<1>2. Q \in SUBSET Invoices
  BY DEF Of
<1>3. /\ Q \cap OrderInvoices \in SUBSET Invoices
      /\ P \cap OrderInvoices \in SUBSET (Q \cap OrderInvoices)
      /\ Q \ OrderInvoices \in SUBSET Invoices
      /\ P \ OrderInvoices \in SUBSET (Q \ OrderInvoices)
  BY <1>1, <1>2
<1> QED BY <1>3, TotalOfPart

LEMMA OneSiteStep ==
    ASSUME OneRequest, FinitelyMany, OneSiteInv, [ReportsNext]_reportsVars
    PROVE  OneSiteInv'
<1>1. /\ ReadInv' /\ OnlySettled /\ (Report \/ UNCHANGED report)
      /\ PaymentsTypeOK /\ ReportsTypeOK /\ ReportsTypeOK'
  BY ReportsStep, NextRead DEF OneSiteInv, ReadInv, SettleInv, SerialInv
<1> SUFFICES ASSUME NEW s, s = report'.scope, s # AllSites,
                    report'.kind \in {"revenue", "delivered"}
             PROVE  MadeOfSite(s)'
  BY <1>1 DEF OneSiteInv
<1>2. report' \in RevenueMade /\ s \in Sites
  BY <1>1 DEF ReportsTypeOK, NoReport, RevenueMade, PagesTurned, Scopes
<1> DEFINE sales == <<s, "productSales">>
           rents == <<s, "rentalIncome">>
           owed == <<s, "unpaidBalances">>
<1>3. /\ sales \in Asked /\ rents \in Asked /\ owed \in Asked
      /\ sales # rents /\ rents # owed /\ sales # owed
  BY <1>2 DEF Asked, Queries, Scopes
<1> HIDE DEF sales, rents, owed
<1>4. PICK P, Q, U : P = Of(s, "PAID") /\ Q = Of(s, "PAID")' /\ U = Of(s, "UNPAID")
  OBVIOUS
<1> DEFINE a == TotalOf(P \cap OrderInvoices)
           b == TotalOf(P \ OrderInvoices)
           c == TotalOf(Q \cap OrderInvoices)
           d == TotalOf(Q \ OrderInvoices)
<1>5. /\ a \in Nat /\ b \in Nat /\ c \in Nat /\ d \in Nat /\ TotalOf(U) \in Nat
      /\ TotalOf(AtSite(s)) \in Nat
  <2>1. /\ P \in SUBSET Invoices /\ Q \in SUBSET Invoices /\ U \in SUBSET Invoices
        /\ AtSite(s) \in SUBSET Invoices
    BY <1>4 DEF Of, AtSite
  <2> QED BY <2>1, TotalOfType
<1>6. a <= c /\ b <= d
  BY <1>1, <1>4, RevenueGrows
<1>7. a + b + TotalOf(U) <= TotalOf(AtSite(s))
  BY <1>2, <1>4, SiteParts
<1> DEFINE old == report.answers
           new == report'.answers
<1>8. ASSUME /\ new[sales] <= c /\ new[rents] <= d
             /\ owed \in report'.read =>
                  /\ Together(s) \subseteq report'.read
                  /\ new[sales] + new[rents] + new[owed] <= TotalOf(AtSite(s))
             /\ report'.kind = "delivered" => owed \in report'.read
      PROVE  MadeOfSite(s)'
  BY <1>4, <1>8 DEF MadeOfSite, sales, rents, owed, TotalOf, AtSite, Together, SalesOf
<1>9. ASSUME report.kind \in {"revenue", "delivered"}, report.scope = s
      PROVE  /\ old[sales] <= a /\ old[rents] <= b
             /\ owed \in report.read =>
                  /\ Together(s) \subseteq report.read
                  /\ old[sales] + old[rents] + old[owed] <= TotalOf(AtSite(s))
             /\ report.kind = "delivered" => owed \in report.read
             /\ old \in [Asked -> Int]
             /\ old[sales] \in Int /\ old[rents] \in Int /\ old[owed] \in Int
             /\ old[sales] <= c /\ old[rents] <= d
  <2>1. MadeOfSite(s)
    BY <1>9 DEF OneSiteInv
  <2>2. /\ old[sales] <= a /\ old[rents] <= b
        /\ owed \in report.read =>
             /\ Together(s) \subseteq report.read
             /\ old[sales] + old[rents] + old[owed] <= TotalOf(AtSite(s))
        /\ report.kind = "delivered" => owed \in report.read
    BY <1>4, <2>1 DEF MadeOfSite, sales, rents, owed
  <2>3. old \in [Asked -> Int]
    BY <1>1, <1>9, ReportKinds DEF RevenueMade
  <2>4. old[sales] \in Int /\ old[rents] \in Int /\ old[owed] \in Int
    BY <1>3, <2>3
  <2>5. old[sales] <= c /\ old[rents] <= d
    <3> HIDE DEF a, b, c, d, old
    <3> QED BY <1>5, <1>6, <2>2, <2>4
  <2> QED BY <2>2, <2>3, <2>4, <2>5
<1> HIDE DEF a, b, c, d
<1>10. CASE UNCHANGED report
  <2>1. report.kind \in {"revenue", "delivered"} /\ report.scope = s
    BY <1>10
  <2> QED BY <1>8, <1>9, <1>10, <2>1
<1>11. CASE AskRevenue
  BY <1>3, <1>5, <1>8, <1>11, AskRevenueFields
<1>12. CASE ReadQuery
  <2>1. PICK q \in Together(s) \cup Afterwards(s) :
          /\ q \in Together(s) \/ Together(s) \subseteq report.read
          /\ q \in Asked /\ q \notin report.read
          /\ report'.read = report.read \cup {q}
          /\ new[q] = Answer(q[1], q[2])
          /\ \A p \in Asked : p # q => new[p] = old[p]
    BY <1>1, <1>12, ReadQueryFields
  <2>2. report.kind = "revenue" /\ report'.kind = "revenue" /\ report.scope = s
    BY <1>1, <1>12, ReadQueryFields
  <2>3. Together(s) = {sales, rents} /\ Afterwards(s) = {owed}
    BY <1>2, ReportsAssumption DEF Together, Afterwards, SalesOf, sales, rents, owed
  <2>4. CASE q = sales
    <3>1. new[sales] = a /\ owed \notin report'.read
      BY <1>3, <1>4, <1>9, <2>1, <2>2, <2>3, <2>4 DEF a, Answer, sales
    <3>2. new[rents] = old[rents]
      BY <1>3, <2>1, <2>4
    <3> QED BY <1>6, <1>8, <1>9, <2>2, <3>1, <3>2
  <2>5. CASE q = rents
    <3>1. new[rents] = b /\ owed \notin report'.read
      BY <1>3, <1>4, <1>9, <2>1, <2>2, <2>3, <2>5 DEF b, Answer, rents
    <3>2. new[sales] = old[sales]
      BY <1>3, <2>1, <2>5
    <3> QED BY <1>6, <1>8, <1>9, <2>2, <3>1, <3>2
  <2>6. CASE q = owed
    <3>1. new[sales] = old[sales] /\ new[rents] = old[rents]
      BY <1>3, <2>1, <2>6
    <3>2. new[owed] = Balance(U)
      BY <1>4, <2>1, <2>6 DEF Answer, owed
    <3>3. Balance(U) \in Int /\ Balance(U) <= TotalOf(U)
      <4>1. U \in SUBSET Invoices
        BY <1>4 DEF Of
      <4> QED BY <1>1, <4>1, BalanceBounded
    <3>4. Together(s) \subseteq report'.read
      BY <1>3, <2>1, <2>3, <2>6
    <3>5. old[sales] <= a /\ old[rents] <= b /\ old[sales] \in Int /\ old[rents] \in Int
          /\ old[sales] <= c /\ old[rents] <= d
      BY <1>9, <2>2
    <3> DEFINE u == Balance(U)
               w == TotalOf(U)
               all == TotalOf(AtSite(s))
    <3>6. u \in Int /\ u <= w /\ w \in Nat /\ all \in Nat /\ a + b + w <= all
      BY <1>5, <1>7, <3>3
    <3>7. old[sales] + old[rents] + u <= all
      <4> HIDE DEF u, w, all, old
      <4> QED BY <1>5, <3>5, <3>6
    <3> QED BY <1>8, <2>2, <3>1, <3>2, <3>4, <3>5, <3>7
  <2> QED BY <2>1, <2>3, <2>4, <2>5, <2>6
<1>13. CASE DeliverRevenue
  <2>1. /\ report.kind = "revenue" /\ report.scope = s
        /\ Together(s) \cup Afterwards(s) = report.read
        /\ report'.read = report.read /\ new = old
    BY <1>1, <1>13, DeliverRevenueFields
  <2>2. owed \in report.read
    BY <2>1 DEF Afterwards, owed
  <2> QED BY <1>8, <1>9, <2>1, <2>2
<1>14. CASE AskUnpaid \/ ReadData \/ ReadTotal \/ TurnPage \/ Close
  BY <1>1, <1>14, OtherReportSteps
<1> QED BY <1>1, <1>10, <1>11, <1>12, <1>13, <1>14 DEF Report

\* One request at a time the report of a site counts no invoice both as revenue
\* and as outstanding, whatever is paid while it is made: the balances are read
\* last (reports.service.ts:114).
THEOREM RevenueIsNotOwed ==
    ASSUME OneRequest, FinitelyMany PROVE ReportsSpec => []NothingCountedTwice
<1>1. ReportsInit => OneSiteInv
  BY InitRead DEF ReportsInit, OneSiteInv, NoReport
<1>2. OneSiteInv => NothingCountedTwice
  BY DEF OneSiteInv, MadeOfSite, NothingCountedTwice, TotalRevenue, AtSite
<1> QED BY <1>1, <1>2, OneSiteStep, PTL DEF ReportsSpec

-----------------------------------------------------------------------------
(* The report of all sites *)

Revenues == {"productSales", "rentalIncome"}
Kept(q, S) == IF q = "productSales" THEN S \cap OrderInvoices ELSE S \ OrderInvoices

\* While it is made: what was paid when the figure of all sites was read is
\* still paid when the sites are asked one by one.
MadeOfAll ==
    /\ \A q \in Revenues : \E A \in SUBSET Kept(q, Of(AllSites, "PAID")) :
         /\ report.answers[<<AllSites, q>>] = TotalOf(A)
         /\ \A s \in Sites : <<s, q>> \in report.read =>
              report.answers[<<s, q>>] >= TotalOf({i \in A : SiteOf[i] = s})
    /\ \A s \in Sites, q \in Revenues :
         /\ <<s, q>> \in report.read => Together(AllSites) \subseteq report.read
         /\ report.kind = "delivered" /\ LiveSites = Sites => <<s, q>> \in report.read

AllSitesInv ==
    /\ ReadInv
    /\ report.kind \in {"revenue", "delivered"} /\ report.scope = AllSites => MadeOfAll

LEMMA AnswerOf ==
    ASSUME NEW scope, NEW q \in Revenues
    PROVE  Answer(scope, q) = TotalOf(Kept(q, Of(scope, "PAID")))
BY DEF Answer, Kept, Revenues

\* The parts of the revenue of a kind that the sites have.
LEMMA KeptAtSite ==
    ASSUME NEW s \in Sites, NEW q, NEW A, A \in SUBSET Kept(q, Of(AllSites, "PAID"))
    PROVE  {i \in A : SiteOf[i] = s} \in SUBSET Kept(q, Of(s, "PAID"))
BY DEF Kept, Of

LEMMA AllSitesStep ==
    ASSUME OneRequest, FinitelyMany, AllSitesInv, [ReportsNext]_reportsVars
    PROVE  AllSitesInv'
<1>1. /\ ReadInv' /\ OnlySettled /\ (Report \/ UNCHANGED report)
      /\ PaymentsTypeOK /\ ReportsTypeOK /\ ReportsTypeOK'
  BY ReportsStep, NextRead DEF AllSitesInv, ReadInv, SettleInv, SerialInv
<1> SUFFICES ASSUME AllSites = report'.scope, report'.kind \in {"revenue", "delivered"}
             PROVE  MadeOfAll'
  BY <1>1 DEF AllSitesInv
<1> DEFINE old == report.answers
           new == report'.answers
<1>2. \A s \in Sites, q \in Revenues :
        /\ <<s, q>> \in Asked /\ <<AllSites, q>> \in Asked /\ s # AllSites
        /\ <<s, q>> # <<AllSites, q>>
  BY ReportsAssumption DEF Asked, Scopes, Queries, Revenues
<1>3. /\ Together(AllSites) = ({AllSites} \X Revenues) \cup {<<AllSites, "unpaidBalances">>}
      /\ Afterwards(AllSites) = LiveSites \X Revenues
  BY DEF Together, Afterwards, SalesOf, Revenues
<1>4. PICK P, Q : P = Of(AllSites, "PAID") /\ Q = Of(AllSites, "PAID")'
  OBVIOUS
<1>5. P \subseteq Q /\ Q \in SUBSET Invoices
  BY <1>1, <1>4, OnlySettledOf DEF Of
<1>6. \A q : Kept(q, P) \subseteq Kept(q, Q) /\ Kept(q, Q) \in SUBSET Invoices
  BY <1>5 DEF Kept
<1>7. ASSUME /\ \A q \in Revenues : \E A \in SUBSET Kept(q, Q) :
                  /\ new[<<AllSites, q>>] = TotalOf(A)
                  /\ \A s \in Sites : <<s, q>> \in report'.read =>
                       new[<<s, q>>] >= TotalOf({i \in A : SiteOf[i] = s})
             /\ \A s \in Sites, q \in Revenues :
                  /\ <<s, q>> \in report'.read => Together(AllSites) \subseteq report'.read
                  /\ report'.kind = "delivered" /\ LiveSites = Sites =>
                       <<s, q>> \in report'.read
      PROVE  MadeOfAll'
  BY <1>4, <1>7 DEF MadeOfAll, TotalOf, Kept, Together, SalesOf
<1>8. ASSUME report.kind \in {"revenue", "delivered"}, report.scope = AllSites
      PROVE  /\ \A q \in Revenues : \E A \in SUBSET Kept(q, P) :
                  /\ old[<<AllSites, q>>] = TotalOf(A)
                  /\ \A s \in Sites : <<s, q>> \in report.read =>
                       old[<<s, q>>] >= TotalOf({i \in A : SiteOf[i] = s})
             /\ \A s \in Sites, q \in Revenues :
                  /\ <<s, q>> \in report.read => Together(AllSites) \subseteq report.read
                  /\ report.kind = "delivered" /\ LiveSites = Sites =>
                       <<s, q>> \in report.read
  BY <1>4, <1>8 DEF AllSitesInv, MadeOfAll
<1>9. CASE UNCHANGED report
  <2>1. report.kind \in {"revenue", "delivered"} /\ report.scope = AllSites
    BY <1>9
  <2>2. ASSUME NEW q \in Revenues
        PROVE  \E A \in SUBSET Kept(q, Q) :
                  /\ new[<<AllSites, q>>] = TotalOf(A)
                  /\ \A s \in Sites : <<s, q>> \in report'.read =>
                       new[<<s, q>>] >= TotalOf({i \in A : SiteOf[i] = s})
    <3>1. PICK A \in SUBSET Kept(q, P) :
            /\ old[<<AllSites, q>>] = TotalOf(A)
            /\ \A s \in Sites : <<s, q>> \in report.read =>
                 old[<<s, q>>] >= TotalOf({i \in A : SiteOf[i] = s})
      BY <1>8, <2>1
    <3>2. A \in SUBSET Kept(q, Q)
      BY <1>6
    <3> QED BY <1>9, <3>1, <3>2
  <2> QED BY <1>7, <1>8, <1>9, <2>1, <2>2
<1>10. CASE AskRevenue
  <2>1. report'.kind = "revenue" /\ report'.read = {} /\ \A q \in Asked : new[q] = 0
    BY <1>10, AskRevenueFields
  <2>2. TotalOf({}) = 0
    BY SumEmpty DEF TotalOf
  <2>3. ASSUME NEW q \in Revenues
        PROVE  \E A \in SUBSET Kept(q, Q) :
                  /\ new[<<AllSites, q>>] = TotalOf(A)
                  /\ \A s \in Sites : <<s, q>> \in report'.read =>
                       new[<<s, q>>] >= TotalOf({i \in A : SiteOf[i] = s})
    <3>1. <<AllSites, q>> \in Asked
      BY DEF Asked, Scopes, Queries, Revenues
    <3> WITNESS {} \in SUBSET Kept(q, Q)
    <3> QED BY <2>1, <2>2, <3>1
  <2> QED BY <1>7, <2>1, <2>3
<1>11. CASE ReadQuery
  <2>1. PICK p \in Together(AllSites) \cup Afterwards(AllSites) :
          /\ p \in Together(AllSites) \/ Together(AllSites) \subseteq report.read
          /\ p \in Asked /\ p \notin report.read
          /\ report'.read = report.read \cup {p}
          /\ new[p] = Answer(p[1], p[2])
          /\ \A o \in Asked : o # p => new[o] = old[o]
    BY <1>1, <1>11, ReadQueryFields
  <2>2. report.kind = "revenue" /\ report'.kind = "revenue" /\ report.scope = AllSites
    BY <1>1, <1>11, ReadQueryFields
  <2>3. ASSUME NEW q \in Revenues
        PROVE  \E A \in SUBSET Kept(q, Q) :
                  /\ new[<<AllSites, q>>] = TotalOf(A)
                  /\ \A s \in Sites : <<s, q>> \in report'.read =>
                       new[<<s, q>>] >= TotalOf({i \in A : SiteOf[i] = s})
    <3>1. PICK A \in SUBSET Kept(q, P) :
            /\ old[<<AllSites, q>>] = TotalOf(A)
            /\ \A s \in Sites : <<s, q>> \in report.read =>
                 old[<<s, q>>] >= TotalOf({i \in A : SiteOf[i] = s})
      BY <1>8, <2>2
    <3>2. <<AllSites, q>> \in Asked
      BY DEF Asked, Scopes, Queries, Revenues
    <3>3. CASE p = <<AllSites, q>>
      <4>1. new[<<AllSites, q>>] = TotalOf(Kept(q, P))
        BY <1>4, <2>1, <3>3, AnswerOf
      <4>2. <<AllSites, q>> \notin report.read /\ <<AllSites, q>> \in Together(AllSites)
        BY <1>3, <2>1, <3>3
      <4>3. \A s \in Sites : <<s, q>> \notin report'.read
        BY <1>2, <1>8, <2>1, <2>2, <3>3, <4>2
      <4>4. Kept(q, P) \in SUBSET Kept(q, Q)
        BY <1>6
      <4> QED BY <4>1, <4>3, <4>4
    <3>4. CASE p # <<AllSites, q>>
      <4>1. new[<<AllSites, q>>] = TotalOf(A)
        BY <2>1, <3>1, <3>2, <3>4
      <4>2. ASSUME NEW s \in Sites, <<s, q>> \in report'.read
            PROVE  new[<<s, q>>] >= TotalOf({i \in A : SiteOf[i] = s})
        <5>1. CASE p = <<s, q>>
          <6> DEFINE S == Kept(q, Of(s, "PAID"))
                     B == {i \in A : SiteOf[i] = s}
          <6>1. new[<<s, q>>] = TotalOf(S)
            BY <2>1, <5>1, AnswerOf
          <6>2. B \in SUBSET S /\ S \in SUBSET Invoices /\ B \in SUBSET Invoices
            BY <1>4, <3>1, KeptAtSite DEF Kept, Of
          <6>3. TotalOf(B) <= TotalOf(S) /\ TotalOf(B) \in Nat /\ TotalOf(S) \in Nat
            <7> HIDE DEF B, S
            <7> QED BY <6>2, TotalOfPart, TotalOfType
          <6> HIDE DEF B, S
          <6>4. new[<<s, q>>] >= TotalOf(B)
            BY <6>1, <6>3
          <6> QED BY <6>4 DEF B
        <5>2. CASE p # <<s, q>>
          <6>1. <<s, q>> \in report.read /\ new[<<s, q>>] = old[<<s, q>>]
            BY <1>2, <2>1, <4>2, <5>2
          <6> QED BY <3>1, <6>1
        <5> QED BY <5>1, <5>2
      <4>3. A \in SUBSET Kept(q, Q)
        BY <1>6
      <4> QED BY <4>1, <4>2, <4>3
    <3> QED BY <3>3, <3>4
  <2>4. ASSUME NEW s \in Sites, NEW q \in Revenues, <<s, q>> \in report'.read
        PROVE  Together(AllSites) \subseteq report'.read
    <3>1. CASE <<s, q>> \in report.read
      BY <1>8, <2>1, <2>2, <3>1
    <3>2. CASE <<s, q>> = p
      <4>1. p \notin Together(AllSites)
        BY <1>2, <1>3, <3>2
      <4> QED BY <2>1, <4>1
    <3> QED BY <2>1, <2>4, <3>1, <3>2
  <2> QED BY <1>7, <2>2, <2>3, <2>4
<1>12. CASE DeliverRevenue
  <2>1. /\ report.kind = "revenue" /\ report.scope = AllSites
        /\ Together(AllSites) \cup Afterwards(AllSites) = report.read
        /\ report'.read = report.read /\ new = old
    BY <1>1, <1>12, DeliverRevenueFields
  <2>2. ASSUME NEW q \in Revenues
        PROVE  \E A \in SUBSET Kept(q, Q) :
                  /\ new[<<AllSites, q>>] = TotalOf(A)
                  /\ \A s \in Sites : <<s, q>> \in report'.read =>
                       new[<<s, q>>] >= TotalOf({i \in A : SiteOf[i] = s})
    <3>1. PICK A \in SUBSET Kept(q, P) :
            /\ old[<<AllSites, q>>] = TotalOf(A)
            /\ \A s \in Sites : <<s, q>> \in report.read =>
                 old[<<s, q>>] >= TotalOf({i \in A : SiteOf[i] = s})
      BY <1>8, <2>1
    <3>2. A \in SUBSET Kept(q, Q)
      BY <1>6
    <3> QED BY <2>1, <3>1, <3>2
  <2>3. \A s \in Sites, q \in Revenues :
          /\ Together(AllSites) \subseteq report'.read
          /\ LiveSites = Sites => <<s, q>> \in report'.read
    BY <1>3, <2>1
  <2> QED BY <1>7, <2>2, <2>3
<1>13. CASE AskUnpaid \/ ReadData \/ ReadTotal \/ TurnPage \/ Close
  BY <1>1, <1>13, OtherReportSteps
<1> QED BY <1>1, <1>9, <1>10, <1>11, <1>12, <1>13 DEF Report

\* What the sites have of some invoices sums up to what these are worth.
LEMMA SharesOfSites ==
    ASSUME FinitelyMany, IsFiniteSet(Sites), NEW C \in SUBSET Invoices
    PROVE  SumFunctionOnSet([s \in Sites |-> TotalOf({i \in C : SiteOf[i] = s})], Sites)
             = TotalOf(C)
<1> DEFINE h == [i \in C |-> SiteOf[i]]
<1>1. h \in [C -> Sites] /\ \A i \in C : Total[i] \in Int
  BY ReportsAssumption, PaymentsAssumption
<1>2. IsFiniteSet(C)
  BY FS_Subset DEF FinitelyMany
<1>3. \A s : {i \in C : h[i] = s} = {i \in C : SiteOf[i] = s}
  OBVIOUS
<1> HIDE DEF h
<1>4. SumFunctionOnSet([s \in Sites |-> SumFunctionOnSet(Total, {i \in C : h[i] = s})], Sites)
        = SumFunctionOnSet(Total, C)
  BY <1>1, <1>2, SumOfShares
<1> QED BY <1>3, <1>4 DEF TotalOf

LEMMA MadeOfAllCovers ==
    ASSUME FinitelyMany, IsFiniteSet(Sites), ReportsTypeOK, MadeOfAll,
           report.kind = "delivered", LiveSites = Sites
    PROVE  SumFunctionOnSet([s \in Sites |-> TotalRevenue(s)], Sites)
             >= TotalRevenue(AllSites)
<1> DEFINE f == [s \in Sites |-> TotalRevenue(s)]
<1>1. PICK A \in SUBSET Kept("productSales", Of(AllSites, "PAID")) :
        /\ report.answers[<<AllSites, "productSales">>] = TotalOf(A)
        /\ \A s \in Sites : report.answers[<<s, "productSales">>]
                              >= TotalOf({i \in A : SiteOf[i] = s})
  BY DEF MadeOfAll, Revenues
<1>2. PICK B \in SUBSET Kept("rentalIncome", Of(AllSites, "PAID")) :
        /\ report.answers[<<AllSites, "rentalIncome">>] = TotalOf(B)
        /\ \A s \in Sites : report.answers[<<s, "rentalIncome">>]
                              >= TotalOf({i \in B : SiteOf[i] = s})
  BY DEF MadeOfAll, Revenues
<1> DEFINE C == A \cup B
           g == [s \in Sites |-> TotalOf({i \in C : SiteOf[i] = s})]
<1>3. A \in SUBSET Invoices /\ B \in SUBSET Invoices /\ A \cap B = {}
  BY <1>1, <1>2 DEF Kept, Of
<1>4. TotalOf(C) = TotalOf(A) + TotalOf(B)
  BY <1>3, TotalOfUnion
<1>5. ASSUME NEW s \in Sites
      PROVE  g[s] \in Int /\ f[s] \in Int /\ g[s] <= f[s]
  <2> DEFINE X == {i \in A : SiteOf[i] = s}
             Y == {i \in B : SiteOf[i] = s}
             x == report.answers[<<s, "productSales">>]
             y == report.answers[<<s, "rentalIncome">>]
  <2>1. /\ X \in SUBSET Invoices /\ Y \in SUBSET Invoices /\ X \cap Y = {}
        /\ X \cup Y = {i \in C : SiteOf[i] = s}
    BY <1>3
  <2>2. x >= TotalOf(X) /\ y >= TotalOf(Y)
    BY <1>1, <1>2
  <2>3. x \in Int /\ y \in Int
    <3>1. report.answers \in [Asked -> Int]
      BY ReportKinds DEF RevenueMade
    <3>2. <<s, "productSales">> \in Asked /\ <<s, "rentalIncome">> \in Asked
      BY DEF Asked, Scopes, Queries
    <3> QED BY <3>1, <3>2
  <2>4. f[s] = x + y /\ g[s] = TotalOf({i \in C : SiteOf[i] = s})
    BY DEF TotalRevenue
  <2> HIDE DEF X, Y, x, y, f, g, C
  <2>5. TotalOf(X) \in Nat /\ TotalOf(Y) \in Nat /\ TotalOf(X \cup Y) = TotalOf(X) + TotalOf(Y)
    BY <2>1, TotalOfType, TotalOfUnion
  <2>6. g[s] = TotalOf(X) + TotalOf(Y)
    BY <2>1, <2>4, <2>5
  <2> QED BY <2>2, <2>3, <2>4, <2>5, <2>6
<1>6. SumFunctionOnSet(g, Sites) <= SumFunctionOnSet(f, Sites)
  <2> HIDE DEF f, g
  <2> QED BY <1>5, SumMonotone
<1>7. SumFunctionOnSet(g, Sites) = TotalOf(C)
  BY <1>3, SharesOfSites
<1>8. TotalRevenue(AllSites) = TotalOf(A) + TotalOf(B)
  BY <1>1, <1>2 DEF TotalRevenue
<1>9. SumFunctionOnSet(g, Sites) = TotalRevenue(AllSites)
  BY <1>4, <1>7, <1>8
<1>10. SumFunctionOnSet(f, Sites) \in Int /\ SumFunctionOnSet(g, Sites) \in Int
  <2> HIDE DEF f, g
  <2> QED BY <1>5, SumType
<1> DEFINE F == SumFunctionOnSet(f, Sites)
           G == SumFunctionOnSet(g, Sites)
<1>11. F >= G
  <2> HIDE DEF f, g
  <2>1. G <= F /\ F \in Int /\ G \in Int
    BY <1>6, <1>10
  <2> HIDE DEF F, G
  <2> QED BY <2>1
<1>12. F >= TotalRevenue(AllSites)
  <2> HIDE DEF F
  <2> QED BY <1>9, <1>11
<1> QED BY <1>12

\* One request at a time, and with no site deleted, the sites have no less
\* revenue than the report of all of them says, although they are asked later
\* (reports.service.ts:198).
THEOREM SitesCoverTheTotal ==
    ASSUME OneRequest, FinitelyMany, IsFiniteSet(Sites)
    PROVE  ReportsSpec => []BreakdownCovers
<1>1. ReportsInit => AllSitesInv
  BY InitRead DEF ReportsInit, AllSitesInv, NoReport
<1>2. AllSitesInv => BreakdownCovers
  <2> SUFFICES ASSUME AllSitesInv, report.kind = "delivered", report.scope = AllSites,
                      LiveSites = Sites
               PROVE  SumFunctionOnSet([s \in Sites |-> TotalRevenue(s)], Sites)
                        >= TotalRevenue(AllSites)
    BY DEF BreakdownCovers
  <2> QED BY MadeOfAllCovers DEF AllSitesInv, ReadInv
<1> QED BY <1>1, <1>2, AllSitesStep, PTL DEF ReportsSpec

-----------------------------------------------------------------------------
(* The pages of the unpaid invoices *)

\* Where an invoice that shares its place with no other stands in the list, and
\* the page of a list of such invoices.
Rank(S, i) == Cardinality({j \in S : Place[j] <= Place[i]})
PageOf(S, page) == {i \in S : Rank(S, i) - Skip(page) \in 1 .. PageSize}

LEMMA RankType ==
    ASSUME FinitelyMany, NEW S \in SUBSET Invoices, NEW T \in SUBSET S, NEW i
    PROVE  /\ Rank(S, i) \in Nat /\ Rank(T, i) \in Nat
           /\ Rank(T, i) <= Rank(S, i) /\ Rank(S, i) <= Cardinality(S)
           /\ Cardinality(S) \in Nat
<1> DEFINE X == {j \in S : Place[j] <= Place[i]}
           Y == {j \in T : Place[j] <= Place[i]}
<1>1. IsFiniteSet(S) /\ X \in SUBSET S /\ Y \in SUBSET X
  BY FS_Subset DEF FinitelyMany
<1>2. IsFiniteSet(X) /\ IsFiniteSet(Y) /\ Cardinality(Y) <= Cardinality(X)
      /\ Cardinality(X) <= Cardinality(S)
  <2> HIDE DEF X, Y
  <2> QED BY <1>1, FS_Subset
<1>3. Cardinality(X) \in Nat /\ Cardinality(Y) \in Nat /\ Cardinality(S) \in Nat
  BY <1>1, <1>2, FS_CardinalityType
<1> QED BY <1>2, <1>3 DEF Rank

\* A page begins where the page before ends.
LEMMA PagesMeet ==
    ASSUME NEW page \in Nat \ {0}
    PROVE  /\ Skip(page) \in Nat /\ page * PageSize \in Nat /\ PageSize \in Nat
           /\ page * PageSize = Skip(page) + PageSize
           /\ Skip(page + 1) = page * PageSize
<1>1. PageSize \in Nat /\ page \in Nat /\ page >= 1
  BY ReportsAssumption
<1>2. PICK n \in Nat : page = n + 1
  <2>1. page - 1 \in Nat /\ page = (page - 1) + 1
    BY <1>1
  <2> QED BY <2>1
<1>3. Skip(page) = n * PageSize /\ Skip(page + 1) = (n + 1) * PageSize
  <2>1. page - 1 = n /\ (page + 1) - 1 = n + 1
    BY <1>2
  <2> QED BY <2>1 DEF Skip
<1>4. n * PageSize \in Nat /\ (n + 1) * PageSize = n * PageSize + PageSize
  BY <1>1, <1>2
<1> QED BY <1>1, <1>2, <1>3, <1>4

\* Without ties the database has one page to give.
LEMMA OnePage ==
    ASSUME FinitelyMany, NEW S \in SUBSET Invoices, NEW page \in Nat \ {0},
           \A i, j \in S : Place[i] = Place[j] => i = j,
           NEW P \in PagesOf(S, page)
    PROVE  P = PageOf(S, page)
<1> DEFINE top == Skip(page)
<1>1. top \in Nat /\ PageSize \in Nat /\ P \in SUBSET S
  BY PagesMeet DEF PagesOf
<1>2. ASSUME NEW i \in S
      PROVE  i \in P <=> Rank(S, i) - top \in 1 .. PageSize
  <2> DEFINE above == {j \in S : Place[j] < Place[i]}
             ranks == Ranks(S, i) \cap (top + 1 .. top + PageSize)
             here == {j \in P : Place[j] = Place[i]}
  <2>1. /\ i \notin above /\ above \in SUBSET Invoices
        /\ {j \in S : Place[j] <= Place[i]} = above \cup {i}
    BY ReportsAssumption
  <2>2. IsFiniteSet(above)
    BY <2>1, FS_Subset DEF FinitelyMany
  <2>3. Cardinality(above) \in Nat /\ Rank(S, i) = Cardinality(above) + 1
    <3> HIDE DEF above
    <3> QED BY <2>1, <2>2, FS_AddElement, FS_CardinalityType DEF Rank
  <2>4. Ranks(S, i) = Rank(S, i) .. Rank(S, i)
    BY <2>3 DEF Ranks, Rank
  <2>5. Rank(S, i) \in Nat
    BY <2>3
  <2>6. ranks = IF Rank(S, i) - top \in 1 .. PageSize THEN {Rank(S, i)} ELSE {}
    <3> HIDE DEF top
    <3> QED BY <1>1, <2>4, <2>5
  <2>7. here = IF i \in P THEN {i} ELSE {}
    BY <1>1
  <2>8. Cardinality(here) = Cardinality(ranks)
    BY DEF PagesOf
  <2>9. /\ \A x : Cardinality({x}) = 1
        /\ Cardinality({}) = 0
    BY FS_Singleton, FS_EmptySet
  <2> HIDE DEF top, here, ranks, above
  <2>10. Cardinality(here) = IF i \in P THEN 1 ELSE 0
    BY <2>7, <2>9
  <2>11. Cardinality(ranks) = IF Rank(S, i) - top \in 1 .. PageSize THEN 1 ELSE 0
    BY <2>6, <2>9
  <2>12. (IF i \in P THEN 1 ELSE 0) = (IF Rank(S, i) - top \in 1 .. PageSize THEN 1 ELSE 0)
    BY <2>8, <2>10, <2>11
  <2>13. CASE Rank(S, i) - top \in 1 .. PageSize
    BY <2>12, <2>13
  <2>14. CASE ~(Rank(S, i) - top \in 1 .. PageSize)
    BY <2>12, <2>14
  <2> QED BY <2>13, <2>14
<1> QED BY <1>1, <1>2 DEF PageOf

\* How far down the list the client has seen.
Seen(r) == IF "data" \in r.read THEN r.page * PageSize ELSE Skip(r.page)

\* What is outstanding only gets less, so that an invoice that was on a page
\* stays above the end of that page, and none moves down onto a later one.
PagesRead(r, U) ==
    /\ U \subseteq r.began
    /\ \A i \in Invoices : r.listed[i] <= 1
    /\ \A i \in Invoices : r.listed[i] > 0 => Rank(U, i) <= Seen(r)
    /\ U = r.began =>
         /\ {i \in Invoices : r.listed[i] > 0} = {i \in U : Rank(U, i) <= Seen(r)}
         /\ "total" \in r.read => r.total = Cardinality(U)
    /\ r.kind = "last" => r.read = {"data", "total"} /\ r.page * PageSize >= r.total

\* No invoice is generated while the pages are turned, and no two share a place.
Undisturbed == Issued = report.issued /\ \A i, j \in Issued : Place[i] = Place[j] => i = j

PagesInv ==
    /\ ReadInv
    /\ report.kind \in {"pages", "last"} =>
         /\ report.issued \subseteq Issued
         /\ Undisturbed => PagesRead(report, Of(report.scope, "UNPAID"))

\* A payment settles an invoice.
LEMMA PagesShrink ==
    ASSUME FinitelyMany, NEW r \in PagesTurned, NEW U \in SUBSET Invoices,
           NEW V \in SUBSET U, PagesRead(r, U)
    PROVE  PagesRead(r, V)
<1>1. V = r.began => U = V
  BY DEF PagesRead
<1>2. ASSUME NEW i \in Invoices, r.listed[i] > 0 PROVE Rank(V, i) <= Seen(r)
  <2>1. Rank(V, i) \in Nat /\ Rank(U, i) \in Nat /\ Rank(V, i) <= Rank(U, i)
    BY RankType
  <2>2. Rank(U, i) <= Seen(r)
    BY <1>2 DEF PagesRead
  <2>3. Seen(r) \in Nat
    BY PagesMeet DEF Seen, PagesTurned
  <2> QED BY <2>1, <2>2, <2>3
<1>3. CASE V = r.began
  BY <1>1, <1>3
<1>4. CASE V # r.began
  BY <1>2, <1>4 DEF PagesRead
<1> QED BY <1>3, <1>4

\* A page is read.
LEMMA PagesList ==
    ASSUME FinitelyMany, NEW r \in PagesTurned, NEW U \in SUBSET Invoices,
           PagesRead(r, U), "data" \notin r.read, r.kind = "pages",
           NEW n \in PagesTurned, n.kind = "pages", n.page = r.page, n.total = r.total,
           n.began = r.began, n.read = r.read \cup {"data"},
           n.listed = [i \in Invoices |->
                         r.listed[i] + (IF i \in PageOf(U, r.page) THEN 1 ELSE 0)]
    PROVE  PagesRead(n, U)
<1> DEFINE top == Skip(r.page)
           end == r.page * PageSize
<1>1. top \in Nat /\ end \in Nat /\ PageSize \in Nat /\ end = top + PageSize
  BY PagesMeet DEF PagesTurned
<1>2. Seen(r) = top /\ Seen(n) = end
  BY DEF Seen
<1>3. \A i \in Invoices : Rank(U, i) \in Nat /\ r.listed[i] \in Nat
  BY RankType DEF PagesTurned
<1>4. \A i \in Invoices : i \in PageOf(U, r.page) <=>
                            i \in U /\ Rank(U, i) > top /\ Rank(U, i) <= end
  <2> TAKE i \in Invoices
  <2>1. i \in PageOf(U, r.page) <=> i \in U /\ Rank(U, i) - top \in 1 .. PageSize
    BY DEF PageOf
  <2>2. Rank(U, i) \in Nat
    BY <1>3
  <2> HIDE DEF top, end
  <2> QED BY <1>1, <2>1, <2>2
<1> HIDE DEF top, end
<1>5. \A i \in Invoices : r.listed[i] <= 1 /\ (r.listed[i] > 0 => Rank(U, i) <= top)
  BY <1>2 DEF PagesRead
<1>6. ASSUME NEW i \in Invoices
      PROVE  /\ n.listed[i] <= 1
             /\ n.listed[i] > 0 => Rank(U, i) <= end
             /\ n.listed[i] > 0 <=> r.listed[i] > 0 \/ i \in PageOf(U, r.page)
  <2>1. n.listed[i] = r.listed[i] + (IF i \in PageOf(U, r.page) THEN 1 ELSE 0)
    OBVIOUS
  <2>2. CASE i \in PageOf(U, r.page)
    <3>1. r.listed[i] = 0
      BY <1>1, <1>3, <1>4, <1>5, <2>2
    <3> QED BY <1>4, <2>1, <2>2, <3>1
  <2>3. CASE i \notin PageOf(U, r.page)
    <3>1. n.listed[i] = r.listed[i]
      BY <1>3, <2>1, <2>3
    <3> QED BY <1>1, <1>3, <1>5, <2>3, <3>1
  <2> QED BY <2>2, <2>3
<1>7. ASSUME U = r.began
      PROVE  {i \in Invoices : n.listed[i] > 0} = {i \in U : Rank(U, i) <= end}
  <2>1. \A i \in Invoices : r.listed[i] > 0 <=> i \in U /\ Rank(U, i) <= top
    BY <1>2, <1>7 DEF PagesRead
  <2>2. ASSUME NEW i \in Invoices
        PROVE  n.listed[i] > 0 <=> i \in U /\ Rank(U, i) <= end
    <3>1. Rank(U, i) \in Nat
      BY <1>3
    <3> QED BY <1>1, <1>4, <1>6, <2>1, <3>1
  <2> QED BY <2>2
<1>8. U = r.began /\ "total" \in n.read => n.total = Cardinality(U)
  BY DEF PagesRead
<1>9. U \subseteq n.began
  BY DEF PagesRead
<1> QED BY <1>2, <1>6, <1>7, <1>8, <1>9 DEF PagesRead

LEMMA PagesReport ==
    ASSUME OneRequest, FinitelyMany, PagesInv, Report, ReportsTypeOK',
           report'.kind \in {"pages", "last"}, UNCHANGED vars,
           Issued = report'.issued, \A i, j \in Issued : Place[i] = Place[j] => i = j
    PROVE  \E U : U = Of(report'.scope, "UNPAID") /\ PagesRead(report', U)
<1>1. ReportsTypeOK /\ report' \in PagesTurned
  BY DEF PagesInv, ReadInv, ReportsTypeOK, NoReport, RevenueMade, PagesTurned
<1>2. ASSUME report.kind \in {"pages", "last"}, report.issued = report'.issued
      PROVE  /\ report \in PagesTurned
             /\ PagesRead(report, Of(report.scope, "UNPAID"))
             /\ Of(report.scope, "UNPAID") \in SUBSET Invoices
  BY <1>1, <1>2, ReportKinds DEF PagesInv, Undisturbed, Of
<1>3. CASE AskUnpaid
  <2>1. PICK scope \in Scopes :
          report' = [kind |-> "pages", scope |-> scope, page |-> 1, read |-> {},
                     total |-> 0, listed |-> [i \in Invoices |-> 0],
                     began |-> Of(scope, "UNPAID"), issued |-> Issued]
    BY <1>3 DEF AskUnpaid
  <2> DEFINE U == Of(scope, "UNPAID")
  <2>2. Seen(report') = 0 /\ U \in SUBSET Invoices
    BY <2>1, ReportsAssumption DEF Seen, Skip, Of
  <2>3. ASSUME NEW i \in U PROVE Rank(U, i) > 0
    <3> DEFINE X == {j \in U : Place[j] <= Place[i]}
    <3>1. X \in SUBSET Invoices /\ i \in X
      BY <2>2, <2>3, ReportsAssumption
    <3>2. IsFiniteSet(X) /\ X # {}
      BY <3>1, FS_Subset DEF FinitelyMany
    <3> HIDE DEF X
    <3>3. Cardinality(X) \in Nat /\ Cardinality(X) # 0
      BY <3>2, FS_CardinalityType, FS_EmptySet
    <3> QED BY <3>3 DEF Rank, X
  <2>4. {i \in U : Rank(U, i) <= 0} = {}
    <3>1. \A i \in U : Rank(U, i) \in Nat
      BY <2>2, RankType
    <3> QED BY <2>3, <3>1
  <2>5. PagesRead(report', U)
    BY <2>1, <2>2, <2>4 DEF PagesRead
  <2> QED BY <2>1, <2>5
<1>4. CASE ReadData
  <2>1. report.kind = "pages" /\ "data" \notin report.read /\ report \in PagesTurned
    BY <1>1, <1>4, ReportKinds DEF ReadData
  <2> DEFINE U == Of(report.scope, "UNPAID")
  <2>a. PICK page \in PagesOf(U, report.page) :
          report' = [report EXCEPT !.read = @ \cup {"data"},
                      !.listed = [i \in Invoices |-> @[i] + (IF i \in page THEN 1 ELSE 0)]]
    BY <1>4 DEF ReadData
  <2>b. report.issued = report'.issued
    BY <2>1, <2>a DEF PagesTurned
  <2>c. U \in SUBSET Invoices /\ U \subseteq Issued /\ report.page \in Nat \ {0}
    BY <2>1 DEF Of, Issued, PagesTurned
  <2>d. page = PageOf(U, report.page)
    <3> HIDE DEF U
    <3> QED BY <2>c, OnePage
  <2>2. report' = [report EXCEPT !.read = @ \cup {"data"},
                      !.listed = [i \in Invoices |->
                         @[i] + (IF i \in PageOf(U, report.page) THEN 1 ELSE 0)]]
    BY <2>a, <2>d
  <2> HIDE DEF U
  <2>3. /\ report'.kind = report.kind /\ report'.page = report.page
        /\ report'.total = report.total /\ report'.scope = report.scope
        /\ report'.began = report.began /\ report'.read = report.read \cup {"data"}
        /\ report'.listed = [i \in Invoices |->
             report.listed[i] + (IF i \in PageOf(U, report.page) THEN 1 ELSE 0)]
    BY <2>1, <2>2 DEF PagesTurned
  <2>4. PagesRead(report', U)
    BY <1>1, <1>2, <2>1, <2>b, <2>3, PagesList DEF U
  <2> QED BY <2>3, <2>4 DEF U
<1>5. CASE ReadTotal
  <2>1. report.kind = "pages" /\ report \in PagesTurned
    BY <1>1, <1>5, ReportKinds DEF ReadTotal
  <2> DEFINE U == Of(report.scope, "UNPAID")
  <2>2. /\ report'.kind = "pages" /\ report'.page = report.page
        /\ report'.total = Cardinality(U) /\ report'.scope = report.scope
        /\ report'.began = report.began /\ report'.read = report.read \cup {"total"}
        /\ report'.listed = report.listed /\ report'.issued = report.issued
    BY <1>5, <2>1 DEF ReadTotal, PagesTurned
  <2>3. PagesRead(report, U) /\ Seen(report') = Seen(report)
    BY <1>2, <2>1, <2>2 DEF Seen
  <2>4. PagesRead(report', U)
    BY <2>2, <2>3 DEF PagesRead
  <2> QED BY <2>2, <2>4
<1>6. CASE TurnPage
  <2>1. /\ report.kind = "pages" /\ report.read = {"data", "total"}
        /\ report \in PagesTurned
    BY <1>1, <1>6, ReportKinds DEF TurnPage
  <2> DEFINE U == Of(report.scope, "UNPAID")
  <2>a. report.issued = report'.issued
    BY <1>6, <2>1 DEF TurnPage, PagesTurned
  <2>2. PagesRead(report, U) /\ Seen(report) = report.page * PageSize
    BY <1>2, <2>1, <2>a DEF Seen
  <2>3. report.page * PageSize \in Nat /\ report.total \in Nat
    BY <2>1, PagesMeet DEF PagesTurned
  <2>4. CASE report' = [report EXCEPT !.page = @ + 1, !.read = {}]
    <3>1. /\ report'.kind = "pages" /\ report'.page = report.page + 1
          /\ report'.total = report.total /\ report'.scope = report.scope
          /\ report'.began = report.began /\ report'.read = {}
          /\ report'.listed = report.listed
      BY <2>1, <2>4 DEF PagesTurned
    <3>2. Seen(report') = Seen(report)
      BY <2>1, <2>2, <3>1, PagesMeet DEF Seen, PagesTurned
    <3>3. PagesRead(report', U)
      BY <2>2, <3>1, <3>2 DEF PagesRead
    <3> QED BY <3>1, <3>3
  <2>5. CASE report' = [report EXCEPT !.kind = "last"] /\ report.page * PageSize >= report.total
    <3>1. /\ report'.kind = "last" /\ report'.page = report.page
          /\ report'.total = report.total /\ report'.scope = report.scope
          /\ report'.began = report.began /\ report'.read = report.read
          /\ report'.listed = report.listed
      BY <2>1, <2>5 DEF PagesTurned
    <3>2. Seen(report') = Seen(report)
      BY <3>1 DEF Seen
    <3>3. PagesRead(report', U)
      BY <2>1, <2>2, <2>5, <3>1, <3>2 DEF PagesRead
    <3> QED BY <3>1, <3>3
  <2>6. report.page * PageSize < report.total \/ report.page * PageSize >= report.total
    BY <2>3
  <2> QED BY <1>6, <2>4, <2>5, <2>6 DEF TurnPage
<1>7. CASE AskRevenue \/ ReadQuery \/ DeliverRevenue \/ Close
  <2>1. PaymentsTypeOK
    BY DEF PagesInv, ReadInv, SettleInv, SerialInv
  <2>2. ASSUME ReadQuery PROVE report'.kind = "revenue"
    BY <1>1, <2>1, <2>2, ReadQueryFields
  <2>3. ASSUME DeliverRevenue PROVE report'.kind = "delivered"
    BY <1>1, <2>3, DeliverRevenueFields
  <2>4. ASSUME AskRevenue PROVE report'.kind = "revenue"
    BY <2>4, AskRevenueFields
  <2>5. ASSUME Close PROVE report'.kind = "none"
    BY <2>5 DEF Close, NoReport
  <2> QED BY <1>7, <2>2, <2>3, <2>4, <2>5
<1> QED BY <1>3, <1>4, <1>5, <1>6, <1>7 DEF Report

LEMMA PagesStep ==
    ASSUME OneRequest, FinitelyMany, PagesInv, [ReportsNext]_reportsVars
    PROVE  PagesInv'
<1>1. ReadInv' /\ OnlySettled /\ ReportsTypeOK /\ ReportsTypeOK'
  BY ReportsStep, NextRead DEF PagesInv, ReadInv
<1>a. report'.kind \in {"pages", "last"} => report'.issued \subseteq Issued'
  <2> SUFFICES ASSUME report'.kind \in {"pages", "last"} PROVE report'.issued \subseteq Issued'
    OBVIOUS
  <2>1. CASE UNCHANGED report
    <3>1. report.issued \subseteq Issued
      BY <2>1 DEF PagesInv
    <3> QED BY <1>1, <2>1, <3>1, OnlySettledOf
  <2>2. CASE Report
    <3>1. Issued' = Issued
      BY <2>2 DEF Report, Issued, vars, invoiceVars
    <3>2. CASE AskUnpaid
      BY <3>1, <3>2 DEF AskUnpaid
    <3>3. CASE ReadData \/ ReadTotal \/ TurnPage
      <4>1. report \in PagesTurned
        BY <1>1, <3>3, ReportKinds DEF ReadData, ReadTotal, TurnPage
      <4>2. report'.issued = report.issued
        BY <3>3, <4>1 DEF ReadData, ReadTotal, TurnPage, PagesTurned
      <4>3. report.issued \subseteq Issued
        BY <3>3 DEF ReadData, ReadTotal, TurnPage, PagesInv
      <4> QED BY <3>1, <4>2, <4>3
    <3>4. CASE AskRevenue \/ ReadQuery \/ DeliverRevenue \/ Close
      <4>1. PaymentsTypeOK
        BY DEF PagesInv, ReadInv, SettleInv, SerialInv
      <4>2. report'.kind \in {"revenue", "delivered", "none"}
        BY <1>1, <3>4, <4>1, ReadQueryFields, DeliverRevenueFields, AskRevenueFields
        DEF Close, NoReport
      <4> QED BY <4>2
    <3> QED BY <2>2, <3>2, <3>3, <3>4 DEF Report
  <2> QED BY <2>1, <2>2, ReportsStep DEF PagesInv, ReadInv
<1> SUFFICES ASSUME NEW s, s = report'.scope, NEW U, U = Of(s, "UNPAID")',
                    report'.kind \in {"pages", "last"}, Undisturbed'
             PROVE  PagesRead(report', U)
  BY <1>1, <1>a DEF PagesInv, PagesRead, Seen, Rank, Skip
<1>2. CASE Report
  <2>1. UNCHANGED vars
    BY <1>2 DEF Report
  <2>2. U = Of(s, "UNPAID")
    BY <2>1 DEF Of, vars, invoiceVars
  <2>a. Issued' = Issued
    BY <2>1 DEF Issued, vars, invoiceVars
  <2>3. \E V : V = Of(report'.scope, "UNPAID") /\ PagesRead(report', V)
    BY <1>1, <1>2, <2>1, <2>a, PagesReport DEF Undisturbed
  <2> QED BY <2>2, <2>3
<1>3. CASE UNCHANGED report
  <2>1. report \in PagesTurned /\ s = report.scope
    BY <1>3, ReportKinds DEF PagesInv, ReadInv
  <2>2. PICK V : V = Of(s, "UNPAID")
    OBVIOUS
  <2>a. Issued = report.issued /\ Issued' = Issued
    <3>1. report.issued \subseteq Issued /\ Issued \subseteq Issued'
      BY <1>1, <1>3, OnlySettledOf DEF PagesInv
    <3> QED BY <1>3, <3>1 DEF Undisturbed
  <2>b. Undisturbed
    BY <1>3, <2>a DEF Undisturbed
  <2>3. U \in SUBSET V /\ V \in SUBSET Invoices
    <3>1. \A i \in U : i \in Issued'
      BY DEF Of, Issued
    <3> QED BY <1>1, <2>2, <2>a, <3>1, OnlySettledOf DEF Of
  <2>4. PagesRead(report, V)
    BY <1>3, <2>1, <2>2, <2>b DEF PagesInv
  <2>5. PagesRead(report, U)
    BY <2>1, <2>3, <2>4, PagesShrink
  <2> QED BY <1>3, <2>5
<1> QED BY <1>2, <1>3, ReportsStep DEF PagesInv, ReadInv

LEMMA AllPagesRead ==
    ASSUME FinitelyMany, NEW r \in PagesTurned, NEW U \in SUBSET Invoices,
           PagesRead(r, U), r.kind = "last"
    PROVE  /\ \A i \in Invoices : r.listed[i] <= 1
           /\ U = r.began => {i \in Invoices : r.listed[i] > 0} = U
<1>1. /\ r.page * PageSize >= r.total /\ r.read = {"data", "total"}
      /\ Seen(r) = r.page * PageSize /\ \A i \in Invoices : r.listed[i] <= 1
  BY DEF PagesRead, Seen
<1>2. r.page * PageSize \in Nat
  BY PagesMeet DEF PagesTurned
<1>3. ASSUME U = r.began PROVE {i \in Invoices : r.listed[i] > 0} = U
  <2>1. r.total = Cardinality(U)
    BY <1>1, <1>3 DEF PagesRead
  <2>2. ASSUME NEW i \in U PROVE Rank(U, i) <= Seen(r)
    <3>1. Rank(U, i) \in Nat /\ Cardinality(U) \in Nat /\ Rank(U, i) <= Cardinality(U)
      BY RankType
    <3> QED BY <1>1, <1>2, <2>1, <3>1
  <2>3. {i \in Invoices : r.listed[i] > 0} = {i \in U : Rank(U, i) <= Seen(r)}
    BY <1>3 DEF PagesRead
  <2> QED BY <2>2, <2>3
<1> QED BY <1>1, <1>3

\* One request at a time a client who turns all pages of the unpaid invoices
\* sees none twice, although payments move the later ones to earlier pages, and
\* every one when none was settled meanwhile (reports.service.ts:285-321) - if no
\* invoice was generated since the first page and no two share a place in the list.
THEOREM PagesListEachOnce ==
    ASSUME OneRequest, FinitelyMany PROVE ReportsSpec => []PagesAreExact
<1>1. ReportsInit => PagesInv
  BY InitRead DEF ReportsInit, PagesInv, NoReport
<1>2. PagesInv => PagesAreExact
  <2> SUFFICES ASSUME PagesInv, report.kind = "last", Undisturbed
      PROVE  /\ \A i \in Invoices : report.listed[i] <= 1
             /\ Of(report.scope, "UNPAID") = report.began =>
                  {i \in Invoices : report.listed[i] > 0} = report.began
    BY DEF PagesAreExact, Undisturbed
  <2>1. /\ report \in PagesTurned /\ Of(report.scope, "UNPAID") \in SUBSET Invoices
        /\ PagesRead(report, Of(report.scope, "UNPAID"))
    BY ReportKinds DEF PagesInv, ReadInv, Of
  <2> QED BY <2>1, AllPagesRead
<1> QED BY <1>1, <1>2, PagesStep, PTL DEF ReportsSpec

\* The reports in the making are those the service builds, with whole-number
\* answers for every question it asks.
THEOREM ReportsTypeCorrect ==
    ASSUME OneRequest, FinitelyMany PROVE ReportsSpec => []ReportsTypeOK
<1>1. ReadInv => ReportsTypeOK
  BY DEF ReadInv
<1> QED BY <1>1, InitRead, NextRead, PTL DEF ReportsSpec

=============================================================================
