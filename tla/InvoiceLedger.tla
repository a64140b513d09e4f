--------------------------- MODULE InvoiceLedger ---------------------------
(***************************************************************************)
(* The invoice ledger of one tenant: `invoices`, `payments`,               *)
(* `payment_refunds` and `credit_notes` as `BillingService`                *)
(* (src/modules/billing/service.rs) moves them.                            *)
(*                                                                         *)
(* Every write to an invoice's money runs in one database transaction that *)
(* starts by locking the invoice row (`SELECT ... FOR UPDATE`), so each is *)
(* one action here.  Three things are not one transaction, and the         *)
(* interleavings come from them:                                           *)
(*   - `update_invoice` reads the invoice before it opens its transaction  *)
(*     (StartUpdate ... FinishUpdate, one `edit` slot per request);        *)
(*   - a payment gateway charges the customer long after the checkout was  *)
(*     opened, and its webhooks arrive late, twice, or out of order;       *)
(*   - the invoice mail leaves inside the send transaction, which may      *)
(*     still roll back.                                                    *)
(*                                                                         *)
(* Money is a natural number of the smallest unit.  The document's text,   *)
(* dates, contacts, currencies and numbers are left out (numbers are in    *)
(* InvoiceNumbering).  A missing value (SQL NULL, Rust None) is `None`.    *)
(***************************************************************************)
EXTENDS Integers, FiniteSets

CONSTANTS
  Invoice,      \* invoice ids
  Editor,       \* concurrent PUT /invoices/{id} requests
  PaymentId,    \* payment row ids
  Charge,       \* gateway charges, by provider reference
  Refund,       \* gateway refunds, by provider reference
  NoteId,       \* credit note ids
  LineTotals,   \* what the lines of a request may add up to
  TaxAmounts,   \* explicit `tax_amount`s a request may carry
  Discounts,    \* `discount_amount`s a request may carry
  Amounts,      \* what one payment, refund or credit note may be for
  TaxPct,       \* the tenant's default tax rate, in percent
  Delegation,   \* Feature::DelegatedInvoiceIssuer with a connected provider
  None

ASSUME AmountsAssumption ==
  /\ LineTotals \subseteq Nat
  /\ TaxAmounts \subseteq Nat
  /\ Discounts \subseteq Nat
  /\ Amounts \subseteq Nat \ {0}
  /\ TaxPct \in Nat
  /\ Delegation \in BOOLEAN

(* A webhook carries finitely many refunds.                                *)
ASSUME RefundAssumption == IsFiniteSet(Refund)

VARIABLES
  inv,       \* invoices: the row, with `lines` the SUM of its invoice_lines
  payments,  \* payments of each invoice
  refunds,   \* payment_refunds of each invoice
  notes,     \* credit_notes of each invoice
  edit,      \* what each update_invoice in flight read before its transaction
  mailed,    \* invoices some customer has received by mail
  charge,    \* the gateway's checkouts and charges
  refunded,  \* the gateway's refunds
  acked,     \* charges and refunds whose webhook was answered 200
  misfiled   \* invoices with a payment that staff filed under a gateway
             \* reference for something other than what was captured

vars == <<inv, payments, refunds, notes, edit, mailed, charge, refunded, acked, misfiled>>
moneyVars == <<payments, refunds, notes>>
gatewayVars == <<charge, refunded, acked, misfiled>>

-----------------------------------------------------------------------------
(* Rows.                                                                   *)

Unissued == {"draft", "pending"}
Frozen == {"sent", "paid", "partially_paid", "void", "written_off"}
Statuses == {"absent"} \cup Unissued \cup Frozen

ASSUME NoneAssumption ==
  /\ None \notin Invoice
  /\ None \notin Charge
  /\ None \notin Nat
  /\ None \notin Statuses

InvoiceRow ==
  [status : Statuses, lines : Nat, subtotal : Nat, tax : Nat, discount : Nat,
   paid : Int, credited : Int, balance : Int,
   sent : BOOLEAN,       \* sent_at, with issuer_snapshot and stored document
   paidAt : BOOLEAN,     \* paid_at
   voided : BOOLEAN,     \* voided_at
   writtenOff : Int,     \* write_off_amount when written_off_at is set, else 0
   amends : Invoice \cup {None},
   external : BOOLEAN]   \* external_provider

Payment == [id : PaymentId, amount : Nat, ref : Charge \cup {None}]
RefundRow == [id : Refund, payment : PaymentId, amount : Nat]
CreditNote == [id : NoteId, amount : Nat, status : {"issued", "void"}]

Blank ==
  [status |-> "absent", lines |-> 0, subtotal |-> 0, tax |-> 0, discount |-> 0,
   paid |-> 0, credited |-> 0, balance |-> 0, sent |-> FALSE, paidAt |-> FALSE,
   voided |-> FALSE, writtenOff |-> 0, amends |-> None, external |-> FALSE]

Idle == [inv |-> None, subtotal |-> 0, tax |-> 0, discount |-> 0, sent |-> FALSE]
NoCharge == [state |-> "none", inv |-> None, amount |-> 0]
NoRefund == [charge |-> None, amount |-> 0]

-----------------------------------------------------------------------------
(* Figures.                                                                *)

Total(r) == r.subtotal + r.tax - r.discount

(* SUM(amount) over a set of rows: one unit per smallest coin of each row.  *)
Units(S) == UNION {{r} \X (1 .. r.amount) : r \in S}
SumAmount(S) == Cardinality(Units(S))

Issued(N) == {n \in N : n.status = "issued"}

(* apply_tax's rate arm: taxable * pct / 100, half away from zero.          *)
RatedTax(lines) == (lines * TaxPct + 50) \div 100

(* Mutants: an overpaid invoice given a status the schema does not know; a  *)
(* status that never walks back from paid; no arm for void and written_off. *)
DerivedStatusOverpaid(r, paid, credited) ==
  IF r.status \in Unissued THEN r.status
  ELSE IF r.writtenOff # 0 THEN "written_off"
  ELSE IF r.voided THEN "void"
  ELSE IF Total(r) - paid - credited < 0 THEN "overpaid"
  ELSE IF Total(r) - paid - credited = 0 THEN "paid"
  ELSE IF paid > 0 THEN "partially_paid" ELSE "sent"
DerivedStatusSticky(r, paid, credited) ==
  IF r.status \in Unissued \cup {"paid", "void", "written_off"} THEN r.status
  ELSE IF Total(r) - paid - credited <= 0 THEN "paid"
  ELSE IF paid > 0 THEN "partially_paid" ELSE "sent"
DerivedStatusMoneyOnly(r, paid, credited) ==
  IF r.status \in Unissued THEN r.status
  ELSE IF Total(r) - paid - credited <= 0 THEN "paid"
  ELSE IF paid > 0 THEN "partially_paid" ELSE "sent"

(* The status CASE of recompute_invoice_balance.                           *)
DerivedStatus(r, paid, credited) ==
  IF r.status \in Unissued THEN r.status
  ELSE IF r.writtenOff # 0 THEN "written_off"
  ELSE IF r.voided THEN "void"
  ELSE IF Total(r) - paid - credited <= 0 THEN "paid"
  ELSE IF paid > 0 THEN "partially_paid"
  ELSE "sent"

(* Mutant: the balance forgets the credits.                                *)
RecomputeUncredited(r, P, R, N) ==
  LET paid == SumAmount(P) - SumAmount(R)
      credited == SumAmount(Issued(N))
  IN [r EXCEPT !.paid = paid, !.credited = credited,
               !.balance = Total(r) - paid,
               !.status = DerivedStatus(r, paid, credited),
               !.paidAt = (Total(r) - paid <= 0)]

(* recompute_invoice_balance: row r after the payments, refunds and credit  *)
(* notes of its invoice became P, R and N.                                  *)
Recompute(r, P, R, N) ==
  LET paid == SumAmount(P) - SumAmount(R)
      credited == SumAmount(Issued(N))
  IN [r EXCEPT !.paid = paid,
               !.credited = credited,
               !.balance = Total(r) - paid - credited,
               !.status = DerivedStatus(r, paid, credited),
               !.paidAt = (Total(r) - paid <= 0)]

Remaining(r) == Total(r) - r.paid - r.credited

AllPayments == UNION {payments[i] : i \in Invoice}
AllRefunds == UNION {refunds[i] : i \in Invoice}
AllNotes == UNION {notes[i] : i \in Invoice}

-----------------------------------------------------------------------------
Init ==
  /\ inv = [i \in Invoice |-> Blank]
  /\ payments = [i \in Invoice |-> {}]
  /\ refunds = [i \in Invoice |-> {}]
  /\ notes = [i \in Invoice |-> {}]
  /\ edit = [e \in Editor |-> Idle]
  /\ mailed = {}
  /\ charge = [c \in Charge |-> NoCharge]
  /\ refunded = [r \in Refund |-> NoRefund]
  /\ acked = {} /\ misfiled = {}

(* create_invoice: a draft, or a sent invoice when the provider issued it. *)
CreateInvoice(i, lines, tax, discount, external) ==
  /\ inv[i].status = "absent"
  /\ external => Delegation
  /\ LET applied == IF tax = None THEN RatedTax(lines) ELSE tax
     IN inv' = [inv EXCEPT ![i] =
                 [Blank EXCEPT !.status = IF external THEN "sent" ELSE "draft",
                               !.lines = lines,
                               !.subtotal = lines,
                               !.tax = applied,
                               !.discount = discount,
                               !.balance = lines + applied - discount,
                               !.sent = external,
                               !.external = external]]
  /\ UNCHANGED <<moneyVars, edit, mailed, gatewayVars>>

-----------------------------------------------------------------------------
(* update_invoice.  The request's inputs: new lines, an explicit tax, a    *)
(* discount, a tax rate, each None when the body leaves it out, and the    *)
(* status, which is anything but void and written_off.                     *)

PutStatuses == {None, "draft", "pending", "sent", "paid", "partially_paid"}

Request ==
  [lines : LineTotals \cup {None}, tax : TaxAmounts \cup {None},
   discount : Discounts \cup {None}, rate : BOOLEAN, status : PutStatuses]

(* The get_invoice before the transaction, and the first frozen guard.     *)
StartUpdate(e, i) ==
  /\ edit[e].inv = None
  /\ inv[i].status \in Unissued
  /\ edit' = [edit EXCEPT ![e] =
                [inv |-> i, subtotal |-> inv[i].subtotal, tax |-> inv[i].tax,
                 discount |-> inv[i].discount, sent |-> inv[i].sent]]
  /\ UNCHANGED <<inv, moneyVars, mailed, gatewayVars>>

(* A refusal (frozen meanwhile, an original that cannot be replaced, no    *)
(* recipient, the mail relay) or a lost connection: the transaction rolls  *)
(* back and nothing of it is left.                                         *)
AbandonUpdate(e) ==
  /\ edit[e].inv # None
  /\ edit' = [edit EXCEPT ![e] = Idle]
  /\ UNCHANGED <<inv, moneyVars, mailed, gatewayVars>>

(* apply_tax runs when the request touches lines, rate or tax, and then    *)
(* sums the stored lines.                                                  *)
AppliesTax(q) == q.lines # None \/ q.rate \/ q.tax # None

(* The header update_invoice writes: `c` is the row as read before the     *)
(* transaction, `r` the locked row.                                        *)
UpdatedRow(c, r, q) ==
  LET lines == IF q.lines = None THEN r.lines ELSE q.lines
      subtotal == IF AppliesTax(q) THEN lines ELSE c.subtotal
      tax == CASE q.tax # None -> q.tax
               [] q.tax = None /\ AppliesTax(q) -> RatedTax(lines)
               [] OTHER -> c.tax
      discount == IF q.discount = None THEN c.discount ELSE q.discount
  IN [r EXCEPT !.lines = lines,
               !.subtotal = subtotal,
               !.tax = tax,
               !.discount = discount,
               !.balance = subtotal + tax - discount - r.paid
                             - (IF AppliesTax(q) THEN r.credited ELSE 0),
               !.status = IF q.status = None THEN r.status ELSE q.status,
               !.sent = c.sent \/ q.status = "sent"]

JustSent(c, q) == q.status = "sent" /\ ~c.sent

(* Mutant: only the status of the invoice to replace is looked at.         *)
ReplaceableTwice(o) == inv[o].status \in {"sent", "void"}

(* What an amendment's send requires of the invoice it replaces.           *)
Replaceable(o) ==
  /\ inv[o].status = "sent"
  /\ inv[o].paid <= 0
  /\ inv[o].credited <= 0

(* Mutant: the locked status is looked at again only when it would change. *)
FinishUpdateUnguarded(e, q) ==
  /\ edit[e].inv # None
  /\ ~JustSent(edit[e], q)
  /\ q.status # None => inv[edit[e].inv].status \in Unissued
  /\ inv' = [inv EXCEPT ![edit[e].inv] = UpdatedRow(edit[e], @, q)]
  /\ edit' = [edit EXCEPT ![e] = Idle]
  /\ UNCHANGED <<moneyVars, mailed, gatewayVars>>

(* An update whose status is not a first send.                             *)
FinishUpdate(e, q) ==
  /\ edit[e].inv # None
  /\ ~JustSent(edit[e], q)
  /\ LET c == edit[e]
     IN /\ inv[c.inv].status \in Unissued
        /\ inv' = [inv EXCEPT ![c.inv] = UpdatedRow(c, @, q)]
  /\ edit' = [edit EXCEPT ![e] = Idle]
  /\ UNCHANGED <<moneyVars, mailed, gatewayVars>>

(* The send: header, snapshot, document and mail, and the void of the      *)
(* invoice this one amends, in one transaction.  `email` is FALSE for the  *)
(* postal and other delivery methods.                                      *)
SendInvoice(e, q, email) ==
  /\ edit[e].inv # None
  /\ JustSent(edit[e], q)
  /\ LET c == edit[e]
         i == c.inv
         o == inv[i].amends
     IN /\ inv[i].status \in Unissued
        /\ o # None => Replaceable(o)
        /\ inv' = [j \in Invoice |->
                     CASE j = i -> UpdatedRow(c, inv[i], q)
                       [] j # i /\ j = o ->
                            [inv[j] EXCEPT !.status = "void", !.voided = TRUE,
                                           !.balance = 0]
                       [] OTHER -> inv[j]]
        /\ mailed' = IF email THEN mailed \cup {i} ELSE mailed
  /\ edit' = [edit EXCEPT ![e] = Idle]
  /\ UNCHANGED <<moneyVars, gatewayVars>>

(* The mail left and a later statement of the transaction failed: the      *)
(* provider's void of the replaced invoice, an audit row, the commit.      *)
SendRolledBack(e, q) ==
  /\ edit[e].inv # None
  /\ JustSent(edit[e], q)
  /\ LET i == edit[e].inv
     IN /\ inv[i].status \in Unissued
        /\ inv[i].amends # None => Replaceable(inv[i].amends)
        /\ mailed' = mailed \cup {i}
  /\ edit' = [edit EXCEPT ![e] = Idle]
  /\ UNCHANGED <<inv, moneyVars, gatewayVars>>

-----------------------------------------------------------------------------
(* Corrections.                                                            *)

(* amend_invoice: a draft copy that names the sent invoice it will replace.*)
AmendInvoice(o, n) ==
  /\ Replaceable(o)
  /\ \A j \in Invoice : inv[j].amends = o => inv[j].status \notin Unissued
  /\ inv[n].status = "absent"
  /\ inv' = [inv EXCEPT ![n] =
               [Blank EXCEPT !.status = "draft",
                             !.lines = inv[o].lines,
                             !.subtotal = inv[o].subtotal,
                             !.tax = inv[o].tax,
                             !.discount = inv[o].discount,
                             !.balance = Total(inv[o]),
                             !.amends = o]]
  /\ UNCHANGED <<moneyVars, edit, mailed, gatewayVars>>

VoidInvoice(i) ==
  /\ inv[i].status \in Unissued
  /\ inv' = [inv EXCEPT ![i].status = "void", ![i].voided = TRUE]
  /\ UNCHANGED <<moneyVars, edit, mailed, gatewayVars>>

WriteOffInvoice(i) ==
  /\ inv[i].status \in {"sent", "partially_paid"}
  /\ inv[i].balance > 0
  /\ inv' = [inv EXCEPT ![i].status = "written_off",
                        ![i].writtenOff = inv[i].balance]
  /\ UNCHANGED <<moneyVars, edit, mailed, gatewayVars>>

(* The accounting provider reports that it voided the invoice it issued.   *)
VoidDelegatedInvoice(i) ==
  /\ inv[i].external
  /\ inv[i].status # "void"
  /\ inv' = [inv EXCEPT ![i].status = "void", ![i].voided = TRUE]
  /\ UNCHANGED <<moneyVars, edit, mailed, gatewayVars>>

(* lock_and_check_credit_note_invoice.                                     *)
Creditable(r, amount) ==
  /\ r.status \in Frozen \ {"written_off", "void"}
  /\ amount <= Total(r) - r.credited

CreateCreditNote(i, n, amount) ==
  /\ n \notin {m.id : m \in AllNotes}
  /\ Creditable(inv[i], amount)
  /\ notes' = [notes EXCEPT ![i] =
                 @ \cup {[id |-> n, amount |-> amount, status |-> "issued"]}]
  /\ inv' = [inv EXCEPT ![i] = Recompute(@, payments[i], refunds[i], notes'[i])]
  /\ UNCHANGED <<payments, refunds, edit, mailed, gatewayVars>>

VoidCreditNote(i, m) ==
  /\ m \in Issued(notes[i])
  /\ notes' = [notes EXCEPT ![i] =
                 (@ \ {m}) \cup {[m EXCEPT !.status = "void"]}]
  /\ inv' = [inv EXCEPT ![i] = Recompute(@, payments[i], refunds[i], notes'[i])]
  /\ UNCHANGED <<payments, refunds, edit, mailed, gatewayVars>>

-----------------------------------------------------------------------------
(* Payments.                                                               *)

(* Mutants: a draft takes payments; an overpayment is accepted.            *)
AcceptsPaymentOnDraft(r, amount) ==
  r.status # "absent" /\ amount <= Remaining(r)
AcceptsPaymentAnyAmount(r, amount) ==
  r.status # "absent" /\ r.status \notin Unissued

(* The guard create_payment and record_gateway_payment share.              *)
AcceptsPayment(r, amount) ==
  /\ r.status # "absent"
  /\ r.status \notin Unissued
  /\ amount <= Remaining(r)

(* Insert one payment row and recompute, under the invoice's lock.         *)
InsertPayment(i, p, amount, ref) ==
  /\ p \notin {q.id : q \in AllPayments}
  /\ payments' = [payments EXCEPT ![i] =
                    @ \cup {[id |-> p, amount |-> amount, ref |-> ref]}]
  /\ inv' = [inv EXCEPT ![i] = Recompute(@, payments'[i], refunds[i], notes[i])]

(* Mutant: no unique index on the gateway reference.                       *)
RecordedRefsNone == {}

(* What the unique (tenant_id, gateway_transaction_id) index holds.        *)
RecordedRefs == {p.ref : p \in AllPayments}

(* create_payment.  Staff may file a payment under any gateway reference   *)
(* and for any amount; only the unique index refuses a second one.         *)
CreatePayment(i, p, amount, ref) ==
  /\ AcceptsPayment(inv[i], amount)
  /\ ref # None => ref \notin RecordedRefs
  /\ InsertPayment(i, p, amount, ref)
  /\ misfiled' = IF ref # None /\ (charge[ref].state # "captured" \/ charge[ref].amount # amount)
                 THEN misfiled \cup {i} ELSE misfiled
  /\ UNCHANGED <<refunds, notes, edit, mailed, charge, refunded, acked>>

(* delete_payment; payment_refunds.payment_id is ON DELETE CASCADE.        *)
DeletePayment(i, p) ==
  /\ p \in payments[i]
  /\ payments' = [payments EXCEPT ![i] = @ \ {p}]
  /\ refunds' = [refunds EXCEPT ![i] = {r \in @ : r.payment # p.id}]
  /\ inv' = [inv EXCEPT ![i] = Recompute(@, payments'[i], refunds'[i], notes[i])]
  /\ UNCHANGED <<notes, edit, mailed, gatewayVars>>

-----------------------------------------------------------------------------
(* The payment gateway.  It is external: it may charge an open checkout at *)
(* any later time, refund up to what it charged, and deliver each webhook  *)
(* any number of times in any order.                                       *)

(* create_invoice_checkout_session, reading without a lock.                *)
OpenCheckout(c, i, amount) ==
  /\ charge[c].state = "none"
  /\ inv[i].status \in {"sent", "paid", "partially_paid"}
  /\ inv[i].balance > 0
  /\ amount <= inv[i].balance
  /\ charge' = [charge EXCEPT ![c] =
                  [state |-> "open", inv |-> i, amount |-> amount]]
  /\ UNCHANGED <<inv, moneyVars, edit, mailed, refunded, acked, misfiled>>

CustomerPays(c) ==
  /\ charge[c].state = "open"
  /\ charge' = [charge EXCEPT ![c].state = "captured"]
  /\ UNCHANGED <<inv, moneyVars, edit, mailed, refunded, acked, misfiled>>

IssuedRefunds(c) == {r \in Refund : refunded[r].charge = c}

GatewayRefunds(c, r, amount) ==
  /\ charge[c].state = "captured"
  /\ refunded[r] = NoRefund
  /\ SumAmount({[id |-> s, amount |-> refunded[s].amount] : s \in IssuedRefunds(c)})
       + amount <= charge[c].amount
  /\ refunded' = [refunded EXCEPT ![r] = [charge |-> c, amount |-> amount]]
  /\ UNCHANGED <<inv, moneyVars, edit, mailed, charge, acked, misfiled>>

(* record_gateway_payment answers 200 whether or not it inserts a row.     *)
RecordGatewayPayment(c, p) ==
  /\ charge[c].state = "captured"
  /\ AcceptsPayment(inv[charge[c].inv], charge[c].amount)
  /\ c \notin RecordedRefs
  /\ InsertPayment(charge[c].inv, p, charge[c].amount, c)
  /\ acked' = acked \cup {c}
  /\ UNCHANGED <<refunds, notes, edit, mailed, charge, refunded, misfiled>>

DropGatewayPayment(c) ==
  /\ charge[c].state = "captured"
  /\ \/ ~AcceptsPayment(inv[charge[c].inv], charge[c].amount)
     \/ c \in RecordedRefs
  /\ acked' = acked \cup {c}
  /\ UNCHANGED <<inv, moneyVars, edit, mailed, charge, refunded, misfiled>>

(* record_gateway_refunds for an event that carries the refunds S.         *)
RecordGatewayRefunds(c, S, i, p) ==
  /\ S \subseteq IssuedRefunds(c)
  /\ p \in payments[i] /\ p.ref = c
  /\ LET new == {s \in S : s \notin {r.id : r \in AllRefunds}}
     IN refunds' = [refunds EXCEPT ![i] =
          @ \cup {[id |-> s, payment |-> p.id, amount |-> refunded[s].amount]
                    : s \in new}]
  /\ inv' = [inv EXCEPT ![i] = Recompute(@, payments[i], refunds'[i], notes[i])]
  /\ acked' = acked \cup S
  /\ UNCHANGED <<payments, notes, edit, mailed, charge, refunded, misfiled>>

IgnoreGatewayRefunds(c, S) ==
  /\ S \subseteq IssuedRefunds(c)
  /\ c \notin RecordedRefs
  /\ acked' = acked \cup S
  /\ UNCHANGED <<inv, moneyVars, edit, mailed, charge, refunded, misfiled>>

-----------------------------------------------------------------------------
Next ==
  \/ \E i \in Invoice, l \in LineTotals, t \in TaxAmounts \cup {None},
        d \in Discounts, x \in BOOLEAN : CreateInvoice(i, l, t, d, x)
  \/ \E e \in Editor, i \in Invoice : StartUpdate(e, i)
  \/ \E e \in Editor : AbandonUpdate(e)
  \/ \E e \in Editor, q \in Request : FinishUpdate(e, q)
  \/ \E e \in Editor, q \in Request, m \in BOOLEAN : SendInvoice(e, q, m)
  \/ \E e \in Editor, q \in Request : SendRolledBack(e, q)
  \/ \E o, n \in Invoice : AmendInvoice(o, n)
  \/ \E i \in Invoice : VoidInvoice(i)
  \/ \E i \in Invoice : WriteOffInvoice(i)
  \/ \E i \in Invoice : VoidDelegatedInvoice(i)
  \/ \E i \in Invoice, n \in NoteId, a \in Amounts : CreateCreditNote(i, n, a)
  \/ \E i \in Invoice : \E m \in notes[i] : VoidCreditNote(i, m)
  \/ \E i \in Invoice, p \in PaymentId, a \in Amounts, c \in Charge \cup {None} :
        CreatePayment(i, p, a, c)
  \/ \E i \in Invoice : \E p \in payments[i] : DeletePayment(i, p)
  \/ \E c \in Charge, i \in Invoice, a \in Amounts : OpenCheckout(c, i, a)
  \/ \E c \in Charge : CustomerPays(c)
  \/ \E c \in Charge, r \in Refund, a \in Amounts : GatewayRefunds(c, r, a)
  \/ \E c \in Charge, p \in PaymentId : RecordGatewayPayment(c, p)
  \/ \E c \in Charge : DropGatewayPayment(c)
  \/ \E c \in Charge, S \in (SUBSET Refund) \ {{}}, i \in Invoice :
        \E p \in payments[i] : RecordGatewayRefunds(c, S, i, p)
  \/ \E c \in Charge, S \in (SUBSET Refund) \ {{}} : IgnoreGatewayRefunds(c, S)

Spec == Init /\ [][Next]_vars

-----------------------------------------------------------------------------
(* Properties.                                                             *)

(* Every variable holds rows of the shape the schema gives them.           *)
TypeOK ==
  /\ inv \in [Invoice -> InvoiceRow]
  /\ payments \in [Invoice -> SUBSET Payment]
  /\ refunds \in [Invoice -> SUBSET RefundRow]
  /\ notes \in [Invoice -> SUBSET CreditNote]
  /\ edit \in [Editor -> [inv : Invoice \cup {None}, subtotal : Nat, tax : Nat,
                          discount : Nat, sent : BOOLEAN]]
  /\ mailed \subseteq Invoice
  /\ charge \in [Charge -> [state : {"none", "open", "captured"},
                            inv : Invoice \cup {None}, amount : Nat]]
  /\ refunded \in [Refund -> [charge : Charge \cup {None}, amount : Nat]]
  /\ acked \subseteq Charge \cup Refund
  /\ misfiled \subseteq Invoice

(* An invoice nobody was sent carries no money: create_payment,            *)
(* record_gateway_payment and create_credit_note refuse a draft, and no    *)
(* update puts an issued invoice back to draft.                            *)
UnissuedCarriesNoMoney ==
  \A i \in Invoice :
    inv[i].status \in Unissued \cup {"absent"} =>
      payments[i] = {} /\ refunds[i] = {} /\ notes[i] = {}

(* The cached amount_paid, amount_credited and balance_due always equal    *)
(* what the payment, refund and credit note rows add up to, whichever of   *)
(* the eight writers of an invoice ran last; only a voided invoice may     *)
(* show a balance of zero instead.                                         *)
LedgerAgrees ==
  \A i \in Invoice :
    /\ inv[i].paid = SumAmount(payments[i]) - SumAmount(refunds[i])
    /\ inv[i].credited = SumAmount(Issued(notes[i]))
    /\ \/ inv[i].balance = Remaining(inv[i])
       \/ inv[i].voided /\ inv[i].balance = 0

(* However payments, refunds, credits, deletions and late webhooks         *)
(* interleave, an invoice is never credited beyond its total and, as long  *)
(* as staff file a gateway's payment for what the gateway captured, never  *)
(* paid beyond its total nor refunded beyond what was paid.                *)
NoOverCollection ==
  \A i \in Invoice :
    /\ inv[i].credited > 0 => inv[i].credited <= Total(inv[i])
    /\ i \notin misfiled => /\ inv[i].paid >= 0
                            /\ inv[i].paid > 0 => inv[i].paid <= Total(inv[i])

(* The status of an invoice that went out tells the truth about the money, *)
(* after every order of payments, refunds, credits and their reversals.    *)
StatusFollowsMoney ==
  \A i \in Invoice :
    inv[i].sent =>
      /\ inv[i].status = "paid" => Remaining(inv[i]) <= 0
      /\ inv[i].status = "partially_paid" =>
           inv[i].paid > 0 /\ Remaining(inv[i]) > 0
      /\ inv[i].status = "sent" => inv[i].paid <= 0

(* Redelivered and reordered webhooks count a gateway charge and each of   *)
(* its refunds at most once across all invoices.                           *)
GatewayCountedOnce ==
  /\ \A c \in Charge : Cardinality({p \in AllPayments : p.ref = c}) <= 1
  /\ \A s \in Refund : Cardinality({r \in AllRefunds : r.id = s}) <= 1

(* "What replaces this invoice" has one answer: at most one amendment is   *)
(* being written, at most one went out, and once one went out the invoice  *)
(* it replaces is void.                                                    *)
OneReplacement ==
  \A o \in Invoice :
    LET open == {j \in Invoice : inv[j].amends = o /\ inv[j].status \in Unissued}
        out == {j \in Invoice : inv[j].amends = o /\ inv[j].sent}
    IN /\ Cardinality(open) <= 1
       /\ Cardinality(out) <= 1
       /\ out # {} => inv[o].status = "void"

(* No step changes the lines, the tax, the discount or the subtotal of an  *)
(* invoice that is frozen, nor makes it editable again: not even an        *)
(* update_invoice that read it while it was still a draft.                 *)
IssuedNeverRewritten ==
  [][\A i \in Invoice :
       inv[i].status \in Frozen =>
         /\ inv'[i].status \in Frozen
         /\ inv'[i].lines = inv[i].lines
         /\ inv'[i].subtotal = inv[i].subtotal
         /\ inv'[i].tax = inv[i].tax
         /\ inv'[i].discount = inv[i].discount]_vars

(* void and written_off are decisions: no payment, refund, credit or       *)
(* update that lands later derives another status over them                *)
(* (recompute_invoice_balance looks at written_off_amount and voided_at    *)
(* before it looks at the balance).  A provider that reports its own voids *)
(* may turn the one into the other; nothing opens the invoice again.       *)
TerminalStands ==
  [][\A i \in Invoice :
       inv[i].status \in {"void", "written_off"} =>
         /\ inv'[i].status \in {"void", "written_off"}
         /\ ~Delegation => inv'[i].status = inv[i].status]_vars

-----------------------------------------------------------------------------
(* What comments and documents of the repository say, and the code does    *)
(* not keep.                                                               *)

(* service.rs: the read before update_invoice's transaction "is only a     *)
(* fast-path guard", so the header should agree with the stored lines.     *)
HeaderMatchesLines ==
  \A i \in Invoice : inv[i].subtotal = inv[i].lines

(* docs/invoice-lifecycle.md: sending is "the only place `sent` is         *)
(* written" and "a `sent` invoice is never one nobody received".           *)
SentWasSent ==
  \A i \in Invoice : inv[i].status = "sent" => inv[i].sent

(* docs/invoice-lifecycle.md: "`draft` or `pending` means nobody has been  *)
(* told".                                                                  *)
DraftNobodyTold ==
  \A i \in mailed : inv[i].status \notin Unissued

(* docs/invoice-lifecycle.md: when an amendment is sent the original's     *)
(* "balance goes to zero"; void is terminal.                               *)
ReplacedOwesNothing ==
  \A j \in Invoice :
    inv[j].sent /\ inv[j].amends # None => inv[inv[j].amends].balance = 0

(* docs/invoice-lifecycle.md: voided_at leads the status CASE, "just ahead *)
(* of `written_off_at`", so a voided invoice stays void.                   *)
VoidLeads ==
  \A i \in Invoice : inv[i].voided => inv[i].status = "void"

(* service.rs, record_gateway_refunds: "redelivery and incremental partial *)
(* refunds both converge": an acknowledged refund of a recorded payment    *)
(* is on the ledger.                                                       *)
RefundsConverge ==
  \A s \in Refund \cap acked :
    refunded[s].charge \in RecordedRefs => s \in {r.id : r \in AllRefunds}
=============================================================================
