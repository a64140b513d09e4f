------------------------ MODULE InvoiceLedgerProofs ------------------------
(***************************************************************************)
(* Proofs about InvoiceLedger, for every set of invoices, payments,        *)
(* charges, refunds, credit notes and concurrent updates.                  *)
(***************************************************************************)
EXTENDS InvoiceLedger, FiniteSetTheorems, FunctionTheorems, TLAPS

-----------------------------------------------------------------------------
(* Sums of rows.                                                           *)

(* A finite set of rows with natural amounts has a natural sum.            *)
LEMMA UnitsFinite ==
  ASSUME NEW S, IsFiniteSet(S), \A r \in S : r.amount \in Nat
  PROVE  IsFiniteSet(Units(S))
<1> DEFINE T == {{r} \X (1 .. r.amount) : r \in S}
           f == [r \in S |-> {r} \X (1 .. r.amount)]
<1>1. f \in Surjection(S, T)
  BY DEF Surjection
<1>2. IsFiniteSet(T)
  <2> HIDE DEF f, T
  <2> QED BY <1>1, FS_Surjection
<1>3. \A U \in T : IsFiniteSet(U)
  <2>1. SUFFICES ASSUME NEW r \in S PROVE IsFiniteSet({r} \X (1 .. r.amount))
    OBVIOUS
  <2>2. IsFiniteSet({r})
    BY FS_Singleton
  <2>3. IsFiniteSet(1 .. r.amount)
    BY FS_Interval
  <2> QED BY <2>2, <2>3, FS_Product
<1>4. IsFiniteSet(UNION T)
  <2> HIDE DEF T
  <2> QED BY <1>2, <1>3, FS_UNION
<1> QED BY <1>4 DEF Units

LEMMA SumNat ==
  ASSUME NEW S, IsFiniteSet(S), \A r \in S : r.amount \in Nat
  PROVE  SumAmount(S) \in Nat
BY UnitsFinite, FS_CardinalityType DEF SumAmount

LEMMA SumEmpty == SumAmount({}) = 0
<1>1. Units({}) = {}
  BY DEF Units
<1> QED BY <1>1, FS_EmptySet DEF SumAmount

(* The rated tax of a natural line total is natural.                       *)
LEMMA RatedTaxNat ==
  ASSUME NEW l \in Nat
  PROVE  RatedTax(l) \in Nat
<1>1. TaxPct \in Nat
  BY AmountsAssumption
<1>2. l * TaxPct \in Nat
  BY <1>1
<1> QED BY <1>2 DEF RatedTax

-----------------------------------------------------------------------------
(* The inductive invariant.                                                *)

(* Each table holds finitely many rows, so its sums are numbers.           *)
FiniteRows ==
  \A i \in Invoice :
    IsFiniteSet(payments[i]) /\ IsFiniteSet(refunds[i]) /\ IsFiniteSet(notes[i])

(* A checkout the gateway knows names an invoice.                          *)
ChargesNameInvoices ==
  \A c \in Charge : charge[c].state # "none" => charge[c].inv \in Invoice

IInv ==
  /\ TypeOK
  /\ FiniteRows
  /\ ChargesNameInvoices
  /\ UnissuedCarriesNoMoney
  /\ LedgerAgrees

(* What recompute_invoice_balance does to a row, given that the sums it    *)
(* takes are integers.                                                     *)
LEMMA RecomputeRow ==
  ASSUME NEW r \in InvoiceRow, NEW P, NEW R, NEW N,
         SumAmount(P) \in Nat, SumAmount(R) \in Nat, SumAmount(Issued(N)) \in Nat,
         r.status # "absent"
  PROVE  LET n == Recompute(r, P, R, N)
         IN /\ n \in InvoiceRow
            /\ n.paid = SumAmount(P) - SumAmount(R)
            /\ n.credited = SumAmount(Issued(N))
            /\ n.balance = Remaining(n)
            /\ n.lines = r.lines /\ n.subtotal = r.subtotal
            /\ n.tax = r.tax /\ n.discount = r.discount
            /\ n.amends = r.amends /\ n.sent = r.sent /\ n.voided = r.voided
            /\ r.status \in Unissued => n.status = r.status
            /\ r.status \notin Unissued => n.status \in Frozen
<1> DEFINE paid == SumAmount(P) - SumAmount(R)
           credited == SumAmount(Issued(N))
<1>1. paid \in Int /\ credited \in Int
  OBVIOUS
<1>2. /\ r.status \in Unissued => DerivedStatus(r, paid, credited) = r.status
      /\ r.status \notin Unissued => DerivedStatus(r, paid, credited) \in Frozen
  BY DEF DerivedStatus, Frozen
<1>3. DerivedStatus(r, paid, credited) \in Statuses
  BY <1>2 DEF Statuses, InvoiceRow
<1>4. Total(r) \in Int
  BY DEF Total, InvoiceRow
<1> DEFINE st == DerivedStatus(r, paid, credited)
           tot == Total(r)
           pa == (tot - paid <= 0)
           bal == tot - paid - credited
           n == [r EXCEPT !.paid = paid, !.credited = credited,
                          !.balance = bal,
                          !.status = st, !.paidAt = pa]
<1>5. Recompute(r, P, R, N) = n
  BY DEF Recompute
<1>6. st \in Statuses /\ tot \in Int
  BY <1>3, <1>4
<1>7. pa \in BOOLEAN /\ bal \in Int
  BY <1>1, <1>6
<1> HIDE DEF paid, credited, st, tot, pa, bal
<1>8. /\ n \in InvoiceRow
      /\ n.paid = paid /\ n.credited = credited
      /\ n.balance = bal /\ n.status = st
      /\ n.lines = r.lines /\ n.subtotal = r.subtotal
      /\ n.tax = r.tax /\ n.discount = r.discount
      /\ n.amends = r.amends /\ n.sent = r.sent /\ n.voided = r.voided
  BY <1>1, <1>6, <1>7 DEF InvoiceRow
<1>9. Total(n) = tot
  BY <1>8 DEF Total, tot
<1>10. n.balance = Remaining(n)
  BY <1>8, <1>9 DEF Remaining, bal
<1> QED BY <1>2, <1>5, <1>8, <1>10 DEF st, paid, credited

-----------------------------------------------------------------------------
(* The two shapes of a step.                                               *)

(* The part of the type invariant that is not about rows.                  *)
RestOK ==
  /\ edit \in [Editor -> [inv : Invoice \cup {None}, subtotal : Nat, tax : Nat,
                          discount : Nat, sent : BOOLEAN]]
  /\ mailed \subseteq Invoice
  /\ charge \in [Charge -> [state : {"none", "open", "captured"},
                            inv : Invoice \cup {None}, amount : Nat]]
  /\ refunded \in [Refund -> [charge : Charge \cup {None}, amount : Nat]]
  /\ acked \subseteq Charge \cup Refund
  /\ misfiled \subseteq Invoice
  /\ ChargesNameInvoices

(* The rows of one table add up to a number.                               *)
LEMMA SumsAreNat ==
  /\ \A P \in SUBSET Payment : IsFiniteSet(P) => SumAmount(P) \in Nat
  /\ \A R \in SUBSET RefundRow : IsFiniteSet(R) => SumAmount(R) \in Nat
  /\ \A N \in SUBSET CreditNote :
       IsFiniteSet(N) => SumAmount(Issued(N)) \in Nat
<1>1. ASSUME NEW P \in SUBSET Payment, IsFiniteSet(P) PROVE SumAmount(P) \in Nat
  <2>1. \A r \in P : r.amount \in Nat
    BY DEF Payment
  <2> QED BY <1>1, <2>1, SumNat
<1>2. ASSUME NEW R \in SUBSET RefundRow, IsFiniteSet(R) PROVE SumAmount(R) \in Nat
  <2>1. \A r \in R : r.amount \in Nat
    BY DEF RefundRow
  <2> QED BY <1>2, <2>1, SumNat
<1>3. ASSUME NEW N \in SUBSET CreditNote, IsFiniteSet(N)
      PROVE  SumAmount(Issued(N)) \in Nat
  <2>1. \A r \in Issued(N) : r.amount \in Nat
    BY DEF CreditNote, Issued
  <2>2. IsFiniteSet(Issued(N))
    BY <1>3, FS_Subset DEF Issued
  <2> QED BY <2>1, <2>2, SumNat
<1> QED BY <1>1, <1>2, <1>3

(* An invoice that was never issued has nothing paid and nothing credited. *)
LEMMA UnissuedFigures ==
  ASSUME IInv, NEW i \in Invoice, inv[i].status \in Unissued \cup {"absent"}
  PROVE  inv[i].paid = 0 /\ inv[i].credited = 0
<1>1. payments[i] = {} /\ refunds[i] = {} /\ notes[i] = {}
  BY DEF IInv, UnissuedCarriesNoMoney
<1>2. Issued({}) = {}
  BY DEF Issued
<1>3. /\ inv[i].paid = SumAmount(payments[i]) - SumAmount(refunds[i])
      /\ inv[i].credited = SumAmount(Issued(notes[i]))
  BY DEF IInv, LedgerAgrees
<1>4. SumAmount(payments[i]) = 0 /\ SumAmount(refunds[i]) = 0
  BY <1>1, SumEmpty
<1>5. SumAmount(Issued(notes[i])) = 0
  BY <1>1, <1>2, SumEmpty
<1> QED BY <1>3, <1>4, <1>5

(* A step that writes invoice rows and no money table, and keeps the paid   *)
(* and credited figures of every row.                                      *)
LEMMA RowsStep ==
  ASSUME IInv, inv' \in [Invoice -> InvoiceRow],
         UNCHANGED moneyVars,
         RestOK',
         \A j \in Invoice :
           /\ inv'[j].paid = inv[j].paid
           /\ inv'[j].credited = inv[j].credited
           /\ \/ inv'[j].balance = Remaining(inv'[j])
              \/ inv'[j].voided /\ inv'[j].balance = 0
           /\ inv'[j].status \in Unissued \cup {"absent"} =>
                inv[j].status \in Unissued \cup {"absent"}
  PROVE  IInv'
<1> USE DEF moneyVars
<1>1. TypeOK'
  BY DEF TypeOK, RestOK, IInv
<1>2. FiniteRows'
  BY DEF FiniteRows, IInv
<1>3. ChargesNameInvoices'
  BY DEF RestOK
<1>5. UnissuedCarriesNoMoney'
  BY DEF IInv, UnissuedCarriesNoMoney
<1>6. LedgerAgrees'
  <2> SUFFICES ASSUME NEW j \in Invoice
               PROVE  /\ inv'[j].paid = SumAmount(payments[j]) - SumAmount(refunds[j])
                      /\ inv'[j].credited = SumAmount(Issued(notes[j]))
                      /\ \/ inv'[j].balance = Remaining(inv'[j])
                         \/ inv'[j].voided /\ inv'[j].balance = 0
    BY DEF LedgerAgrees
  <2> QED BY DEF IInv, LedgerAgrees
<1> QED BY <1>1, <1>2, <1>3, <1>5, <1>6 DEF IInv

(* The same for a step that writes one row.                                *)
LEMMA RowStep ==
  ASSUME IInv, NEW i \in Invoice, NEW n \in InvoiceRow,
         inv' = [inv EXCEPT ![i] = n],
         UNCHANGED moneyVars,
         RestOK',
         n.paid = inv[i].paid, n.credited = inv[i].credited,
         n.balance = Remaining(n) \/ (n.voided /\ n.balance = 0),
         n.status \in Unissued \cup {"absent"} =>
           inv[i].status \in Unissued \cup {"absent"}
  PROVE  IInv'
<1>1. inv' \in [Invoice -> InvoiceRow]
  BY DEF IInv, TypeOK
<1>2. \A j \in Invoice : inv'[j] = IF j = i THEN n ELSE inv[j]
  BY DEF IInv, TypeOK
<1>3. \A j \in Invoice :
        inv[j].balance = Remaining(inv[j]) \/ (inv[j].voided /\ inv[j].balance = 0)
  BY DEF IInv, LedgerAgrees
<1>4. ASSUME NEW j \in Invoice
      PROVE  /\ inv'[j].paid = inv[j].paid
             /\ inv'[j].credited = inv[j].credited
             /\ \/ inv'[j].balance = Remaining(inv'[j])
                \/ inv'[j].voided /\ inv'[j].balance = 0
             /\ inv'[j].status \in Unissued \cup {"absent"} =>
                  inv[j].status \in Unissued \cup {"absent"}
  <2>1. CASE j = i
    BY <1>2, <2>1
  <2>2. CASE j # i
    <3>1. inv'[j] = inv[j]
      BY <1>2, <2>2
    <3> QED BY <1>3, <3>1
  <2> QED BY <2>1, <2>2
<1> QED BY <1>1, <1>4, RowsStep

(* A step that gives an issued invoice new payments P, refunds R and       *)
(* credit notes N and recomputes its row.                                  *)
LEMMA MoneyStep ==
  ASSUME IInv, NEW i \in Invoice,
         NEW P \in SUBSET Payment, IsFiniteSet(P),
         NEW R \in SUBSET RefundRow, IsFiniteSet(R),
         NEW N \in SUBSET CreditNote, IsFiniteSet(N),
         inv[i].status \notin Unissued \cup {"absent"},
         payments' = [payments EXCEPT ![i] = P],
         refunds' = [refunds EXCEPT ![i] = R],
         notes' = [notes EXCEPT ![i] = N],
         inv' = [inv EXCEPT ![i] = Recompute(inv[i], P, R, N)],
         RestOK'
  PROVE  IInv'
<1> DEFINE n == Recompute(inv[i], P, R, N)
<1>1. inv[i] \in InvoiceRow
  BY DEF IInv, TypeOK
<1>2. SumAmount(P) \in Nat /\ SumAmount(R) \in Nat /\ SumAmount(Issued(N)) \in Nat
  BY SumsAreNat
<1>3. /\ n \in InvoiceRow
      /\ n.paid = SumAmount(P) - SumAmount(R)
      /\ n.credited = SumAmount(Issued(N))
      /\ n.balance = Remaining(n)
      /\ n.status \in Frozen
  BY <1>1, <1>2, RecomputeRow
<1> HIDE DEF n
<1>4. /\ \A j \in Invoice : inv'[j] = IF j = i THEN n ELSE inv[j]
      /\ \A j \in Invoice : payments'[j] = IF j = i THEN P ELSE payments[j]
      /\ \A j \in Invoice : refunds'[j] = IF j = i THEN R ELSE refunds[j]
      /\ \A j \in Invoice : notes'[j] = IF j = i THEN N ELSE notes[j]
  BY DEF IInv, TypeOK, n
<1>5. TypeOK'
  BY <1>3 DEF TypeOK, RestOK, IInv, n
<1>6. FiniteRows'
  BY <1>4 DEF FiniteRows, IInv
<1>7. ChargesNameInvoices'
  BY DEF RestOK
<1>8. UnissuedCarriesNoMoney'
  BY <1>3, <1>4 DEF IInv, UnissuedCarriesNoMoney, Frozen, Unissued
<1>9. LedgerAgrees'
  BY <1>3, <1>4 DEF IInv, LedgerAgrees
<1> QED BY <1>5, <1>6, <1>7, <1>8, <1>9 DEF IInv

-----------------------------------------------------------------------------
(* The row of an id nobody used yet.                                       *)
LEMMA BlankRow ==
  /\ Blank \in InvoiceRow
  /\ Blank.paid = 0 /\ Blank.credited = 0 /\ Blank.balance = 0
  /\ Blank.subtotal = 0 /\ Blank.tax = 0 /\ Blank.discount = 0
  /\ Blank.status = "absent" /\ Blank.voided = FALSE
BY DEF Blank, InvoiceRow, Statuses

LEMMA InitInv == Init => IInv
<1> SUFFICES ASSUME Init PROVE IInv
  OBVIOUS
<1>2. TypeOK
  BY BlankRow DEF Init, TypeOK, Idle, NoCharge, NoRefund
<1>3. FiniteRows /\ ChargesNameInvoices
  BY FS_EmptySet DEF Init, FiniteRows, ChargesNameInvoices, NoCharge
<1>4. UnissuedCarriesNoMoney
  BY DEF Init, UnissuedCarriesNoMoney
<1>5. LedgerAgrees
  <2>1. Issued({}) = {}
    BY DEF Issued
  <2>2. Remaining(Blank) = 0
    BY BlankRow DEF Remaining, Total
  <2>3. SUFFICES ASSUME NEW i \in Invoice
                 PROVE  /\ inv[i].paid = SumAmount(payments[i]) - SumAmount(refunds[i])
                        /\ inv[i].credited = SumAmount(Issued(notes[i]))
                        /\ inv[i].balance = Remaining(inv[i])
    BY DEF LedgerAgrees
  <2>4. inv[i] = Blank /\ payments[i] = {} /\ refunds[i] = {} /\ notes[i] = {}
    BY DEF Init
  <2> QED BY <2>1, <2>2, <2>4, BlankRow, SumEmpty
<1> QED BY <1>2, <1>3, <1>4, <1>5 DEF IInv

LEMMA RestUnchanged ==
  ASSUME IInv, UNCHANGED <<edit, mailed, charge, refunded, acked>>,
         misfiled' \subseteq Invoice
  PROVE  RestOK'
BY DEF IInv, TypeOK, RestOK, ChargesNameInvoices

LEMMA CreateInvoiceInv ==
  ASSUME IInv, NEW i \in Invoice, NEW l \in LineTotals,
         NEW t \in TaxAmounts \cup {None}, NEW d \in Discounts, NEW x \in BOOLEAN,
         CreateInvoice(i, l, t, d, x)
  PROVE  IInv'
<1> DEFINE tax == IF t = None THEN RatedTax(l) ELSE t
           bal == l + tax - d
           st == IF x THEN "sent" ELSE "draft"
           n == [Blank EXCEPT !.status = st, !.lines = l, !.subtotal = l,
                              !.tax = tax, !.discount = d, !.balance = bal,
                              !.sent = x, !.external = x]
<1>1. l \in Nat /\ d \in Nat /\ tax \in Nat /\ bal \in Int /\ st \in Statuses
  <2>1. l \in Nat /\ d \in Nat
    BY AmountsAssumption
  <2>2. tax \in Nat
    BY <2>1, RatedTaxNat, AmountsAssumption
  <2> HIDE DEF tax
  <2> QED BY <2>1, <2>2 DEF Statuses, Unissued, Frozen
<1>2. inv' = [inv EXCEPT ![i] = n]
  BY DEF CreateInvoice
<1>3. inv[i].paid = 0 /\ inv[i].credited = 0
  BY UnissuedFigures DEF CreateInvoice
<1>4. bal = l + tax - d
  OBVIOUS
<1> HIDE DEF tax, st, bal
<1>5. n \in InvoiceRow
  BY <1>1, BlankRow DEF InvoiceRow
<1>6. n.paid = 0 /\ n.credited = 0 /\ n.balance = bal /\ n.subtotal = l
      /\ n.tax = tax /\ n.discount = d
  BY BlankRow DEF InvoiceRow
<1>7. n.balance = Remaining(n)
  BY <1>1, <1>4, <1>6 DEF Remaining, Total
<1>8. RestOK' /\ UNCHANGED moneyVars
  BY RestUnchanged DEF CreateInvoice, gatewayVars, IInv, TypeOK
<1>9. inv[i].status = "absent"
  BY DEF CreateInvoice
<1> HIDE DEF n
<1> QED BY <1>2, <1>3, <1>5, <1>6, <1>7, <1>8, <1>9, RowStep

-----------------------------------------------------------------------------
(* The row update_invoice writes.                                          *)

EditSlot ==
  [inv : Invoice \cup {None}, subtotal : Nat, tax : Nat, discount : Nat,
   sent : BOOLEAN]

(* However stale the read c is, the row written over an unpaid, uncredited *)
(* invoice is well formed and its balance agrees with its own figures.     *)
LEMMA UpdatedRowOK ==
  ASSUME NEW c \in EditSlot, NEW r \in InvoiceRow, NEW q \in Request,
         r.paid = 0, r.credited = 0
  PROVE  LET n == UpdatedRow(c, r, q)
         IN /\ n \in InvoiceRow
            /\ n.paid = 0 /\ n.credited = 0
            /\ n.balance = Remaining(n)
            /\ n.amends = r.amends
            /\ n.voided = r.voided
<1> DEFINE lines == IF q.lines = None THEN r.lines ELSE q.lines
           subtotal == IF AppliesTax(q) THEN lines ELSE c.subtotal
           tax == CASE q.tax # None -> q.tax
                    [] q.tax = None /\ AppliesTax(q) -> RatedTax(lines)
                    [] OTHER -> c.tax
           discount == IF q.discount = None THEN c.discount ELSE q.discount
           bal == subtotal + tax - discount - r.paid
                    - (IF AppliesTax(q) THEN r.credited ELSE 0)
           st == IF q.status = None THEN r.status ELSE q.status
           sent == c.sent \/ q.status = "sent"
           n == [r EXCEPT !.lines = lines, !.subtotal = subtotal, !.tax = tax,
                          !.discount = discount, !.balance = bal,
                          !.status = st, !.sent = sent]
<1>1. UpdatedRow(c, r, q) = n
  BY DEF UpdatedRow
<1>2. lines \in Nat
  BY AmountsAssumption DEF Request, InvoiceRow
<1>3. subtotal \in Nat
  <2> HIDE DEF lines
  <2> QED BY <1>2 DEF EditSlot
<1>4. tax \in Nat
  <2> HIDE DEF lines
  <2>1. RatedTax(lines) \in Nat
    BY <1>2, RatedTaxNat
  <2>2. q.tax # None => q.tax \in Nat
    BY AmountsAssumption DEF Request
  <2>3. c.tax \in Nat
    BY DEF EditSlot
  <2> QED BY <2>1, <2>2, <2>3
<1>5. discount \in Nat
  BY AmountsAssumption DEF Request, EditSlot
<1>6. bal = subtotal + tax - discount /\ bal \in Int
  <2> HIDE DEF subtotal, tax, discount
  <2> QED BY <1>3, <1>4, <1>5
<1>7. st \in Statuses
  BY DEF Request, PutStatuses, Statuses, Unissued, Frozen, InvoiceRow
<1>8. sent \in BOOLEAN
  BY DEF EditSlot
<1> HIDE DEF lines, subtotal, tax, discount, bal, st, sent
<1>9. n \in InvoiceRow
  BY <1>2, <1>3, <1>4, <1>5, <1>6, <1>7, <1>8 DEF InvoiceRow
<1>10. /\ n.paid = r.paid /\ n.credited = r.credited /\ n.balance = bal
       /\ n.subtotal = subtotal /\ n.tax = tax /\ n.discount = discount
       /\ n.amends = r.amends /\ n.voided = r.voided
  BY DEF InvoiceRow
<1> HIDE DEF n
<1>11. n.balance = Remaining(n)
  BY <1>3, <1>4, <1>5, <1>6, <1>10 DEF Remaining, Total
<1> QED BY <1>1, <1>9, <1>10, <1>11

(* An open update slot names an invoice, and closing it keeps the rest.    *)
LEMMA EditFacts ==
  ASSUME IInv, NEW e \in Editor, edit[e].inv # None
  PROVE  /\ edit[e] \in EditSlot
         /\ edit[e].inv \in Invoice
         /\ inv[edit[e].inv] \in InvoiceRow
BY DEF IInv, TypeOK, EditSlot

LEMMA EditClosed ==
  ASSUME IInv, NEW e \in Editor, edit' = [edit EXCEPT ![e] = Idle],
         mailed' \subseteq Invoice, UNCHANGED gatewayVars
  PROVE  RestOK'
BY DEF IInv, TypeOK, RestOK, ChargesNameInvoices, gatewayVars, Idle

(* A step that writes no row.                                              *)
LEMMA RestStep ==
  ASSUME IInv, UNCHANGED <<inv, moneyVars>>, RestOK'
  PROVE  IInv'
BY DEF IInv, TypeOK, RestOK, FiniteRows, UnissuedCarriesNoMoney, LedgerAgrees,
   moneyVars

-----------------------------------------------------------------------------
(* One lemma per action: it preserves the invariant.                       *)

LEMMA StartUpdateInv ==
  ASSUME IInv, NEW e \in Editor, NEW i \in Invoice, StartUpdate(e, i)
  PROVE  IInv'
<1>1. inv[i] \in InvoiceRow
  BY DEF IInv, TypeOK
<1>2. [inv |-> i, subtotal |-> inv[i].subtotal, tax |-> inv[i].tax,
       discount |-> inv[i].discount, sent |-> inv[i].sent] \in EditSlot
  BY <1>1 DEF EditSlot, InvoiceRow
<1>3. edit' \in [Editor -> EditSlot]
  BY <1>2 DEF StartUpdate, IInv, TypeOK, EditSlot
<1>4. RestOK'
  BY <1>3 DEF StartUpdate, gatewayVars, IInv, TypeOK, RestOK, EditSlot,
     ChargesNameInvoices
<1> QED BY <1>4, RestStep DEF StartUpdate

LEMMA AbandonUpdateInv ==
  ASSUME IInv, NEW e \in Editor, AbandonUpdate(e)
  PROVE  IInv'
<1>1. mailed' \subseteq Invoice
  BY DEF AbandonUpdate, IInv, TypeOK
<1> QED BY <1>1, EditClosed, RestStep DEF AbandonUpdate

LEMMA FinishUpdateInv ==
  ASSUME IInv, NEW e \in Editor, NEW q \in Request, FinishUpdate(e, q)
  PROVE  IInv'
<1> DEFINE i == edit[e].inv
           n == UpdatedRow(edit[e], inv[i], q)
<1>1. edit[e] \in EditSlot /\ i \in Invoice /\ inv[i] \in InvoiceRow
  BY EditFacts DEF FinishUpdate
<1>2. inv[i].status \in Unissued
  BY DEF FinishUpdate
<1>3. inv[i].paid = 0 /\ inv[i].credited = 0
  BY <1>1, <1>2, UnissuedFigures
<1>4. n \in InvoiceRow /\ n.paid = 0 /\ n.credited = 0 /\ n.balance = Remaining(n)
  BY <1>1, <1>3, UpdatedRowOK
<1>5. inv' = [inv EXCEPT ![i] = n]
  BY DEF FinishUpdate
<1>6. RestOK'
  <2>1. mailed' \subseteq Invoice
    BY DEF FinishUpdate, IInv, TypeOK
  <2> QED BY <2>1, EditClosed DEF FinishUpdate
<1>7. UNCHANGED moneyVars
  BY DEF FinishUpdate
<1> HIDE DEF n, i
<1> QED BY <1>1, <1>2, <1>3, <1>4, <1>5, <1>6, <1>7, RowStep

(* The row of an invoice whose amendment went out.                         *)
LEMMA ReplacedRow ==
  ASSUME NEW r \in InvoiceRow
  PROVE  LET w == [r EXCEPT !.status = "void", !.voided = TRUE, !.balance = 0]
         IN /\ w \in InvoiceRow /\ w.paid = r.paid /\ w.credited = r.credited
            /\ w.voided = TRUE /\ w.balance = 0 /\ w.status = "void"
<1>1. "void" \in Statuses
  BY DEF Statuses, Frozen
<1>2. TRUE \in BOOLEAN /\ 0 \in Int
  OBVIOUS
<1> QED BY <1>1, <1>2 DEF InvoiceRow

LEMMA SendInvoiceInv ==
  ASSUME IInv, NEW e \in Editor, NEW q \in Request, NEW m \in BOOLEAN,
         SendInvoice(e, q, m)
  PROVE  IInv'
<1> DEFINE i == edit[e].inv
           o == inv[i].amends
           n == UpdatedRow(edit[e], inv[i], q)
<1>1. edit[e] \in EditSlot /\ i \in Invoice /\ inv[i] \in InvoiceRow
  BY EditFacts DEF SendInvoice
<1>2. inv[i].status \in Unissued
  BY DEF SendInvoice
<1>3. inv[i].paid = 0 /\ inv[i].credited = 0
  BY <1>1, <1>2, UnissuedFigures
<1>4. n \in InvoiceRow /\ n.paid = 0 /\ n.credited = 0 /\ n.balance = Remaining(n)
  BY <1>1, <1>3, UpdatedRowOK
<1>5. inv' = [j \in Invoice |->
                CASE j = i -> n
                  [] j # i /\ j = o ->
                       [inv[j] EXCEPT !.status = "void", !.voided = TRUE,
                                      !.balance = 0]
                  [] OTHER -> inv[j]]
  BY DEF SendInvoice
<1>6. RestOK'
  <2>1. mailed' \subseteq Invoice
    BY <1>1 DEF SendInvoice, IInv, TypeOK
  <2> QED BY <2>1, EditClosed DEF SendInvoice
<1>7. UNCHANGED moneyVars
  BY DEF SendInvoice
<1> HIDE DEF n, i
<1>8. ASSUME NEW j \in Invoice
      PROVE  /\ inv'[j] \in InvoiceRow
             /\ inv'[j].paid = inv[j].paid
             /\ inv'[j].credited = inv[j].credited
             /\ \/ inv'[j].balance = Remaining(inv'[j])
                \/ inv'[j].voided /\ inv'[j].balance = 0
             /\ inv'[j].status \in Unissued \cup {"absent"} =>
                  inv[j].status \in Unissued \cup {"absent"}
  <2>0. inv[j] \in InvoiceRow
    BY DEF IInv, TypeOK
  <2>1. CASE j = i
    <3>1. inv'[j] = n
      BY <1>5, <2>1
    <3> QED BY <1>2, <1>3, <1>4, <2>1, <3>1
  <2>2. CASE j # i /\ j = o
    <3>1. inv'[j] = [inv[j] EXCEPT !.status = "void", !.voided = TRUE,
                                   !.balance = 0]
      BY <1>5, <2>2
    <3>2. "void" \in Statuses /\ "void" \notin Unissued \cup {"absent"}
      BY DEF Statuses, Frozen, Unissued
    <3> DEFINE w == [inv[j] EXCEPT !.status = "void", !.voided = TRUE,
                                   !.balance = 0]
    <3>3. w \in InvoiceRow /\ w.paid = inv[j].paid /\ w.credited = inv[j].credited
          /\ w.voided = TRUE /\ w.balance = 0 /\ w.status = "void"
      BY <2>0, ReplacedRow
    <3> HIDE DEF w
    <3>4. inv'[j] = w
      BY <3>1 DEF w
    <3> QED BY <3>2, <3>3, <3>4
  <2>3. CASE j # i /\ j # o
    <3>1. inv'[j] = inv[j]
      BY <1>5, <2>3
    <3>2. inv[j].balance = Remaining(inv[j]) \/ (inv[j].voided /\ inv[j].balance = 0)
      BY DEF IInv, LedgerAgrees
    <3> QED BY <2>0, <3>1, <3>2
  <2> QED BY <2>1, <2>2, <2>3
<1>9. inv' \in [Invoice -> InvoiceRow]
  BY <1>5, <1>8
<1> QED BY <1>6, <1>7, <1>8, <1>9, RowsStep

LEMMA SendRolledBackInv ==
  ASSUME IInv, NEW e \in Editor, NEW q \in Request, SendRolledBack(e, q)
  PROVE  IInv'
<1>1. mailed' \subseteq Invoice
  BY EditFacts DEF SendRolledBack, IInv, TypeOK
<1> QED BY <1>1, EditClosed, RestStep DEF SendRolledBack

LEMMA AmendInvoiceInv ==
  ASSUME IInv, NEW o \in Invoice, NEW n \in Invoice, AmendInvoice(o, n)
  PROVE  IInv'
<1> DEFINE bal == Total(inv[o])
           r == [Blank EXCEPT !.status = "draft", !.lines = inv[o].lines,
                              !.subtotal = inv[o].subtotal, !.tax = inv[o].tax,
                              !.discount = inv[o].discount, !.balance = bal,
                              !.amends = o]
<1>1. inv[o] \in InvoiceRow
  BY DEF IInv, TypeOK
<1>2. bal \in Int /\ "draft" \in Statuses
  BY <1>1 DEF Total, InvoiceRow, Statuses, Unissued
<1>3. bal = inv[o].subtotal + inv[o].tax - inv[o].discount
  BY DEF Total
<1>4. inv' = [inv EXCEPT ![n] = r]
  BY DEF AmendInvoice
<1>5. inv[n].status = "absent"
  BY DEF AmendInvoice
<1>6. inv[n].paid = 0 /\ inv[n].credited = 0
  BY <1>5, UnissuedFigures
<1>7. RestOK' /\ UNCHANGED moneyVars
  BY RestUnchanged DEF AmendInvoice, gatewayVars, IInv, TypeOK
<1> HIDE DEF bal
<1>8. r \in InvoiceRow
  BY <1>1, <1>2, BlankRow DEF InvoiceRow
<1>9. r.paid = 0 /\ r.credited = 0 /\ r.balance = bal
      /\ r.subtotal = inv[o].subtotal /\ r.tax = inv[o].tax
      /\ r.discount = inv[o].discount
  BY BlankRow DEF InvoiceRow
<1> HIDE DEF r
<1>10. r.balance = Remaining(r)
  BY <1>1, <1>2, <1>3, <1>9 DEF Remaining, Total, InvoiceRow
<1> QED BY <1>4, <1>5, <1>6, <1>7, <1>8, <1>9, <1>10, RowStep

(* void_invoice and void_delegated_invoice write the same columns.         *)
LEMMA VoidRowInv ==
  ASSUME IInv, NEW i \in Invoice,
         inv' = [inv EXCEPT ![i].status = "void", ![i].voided = TRUE],
         UNCHANGED <<moneyVars, edit, mailed, gatewayVars>>
  PROVE  IInv'
<1> DEFINE r == [inv[i] EXCEPT !.status = "void", !.voided = TRUE]
<1>1. inv[i] \in InvoiceRow
  BY DEF IInv, TypeOK
<1>2. "void" \in Statuses /\ "void" \notin Unissued \cup {"absent"}
  BY DEF Statuses, Frozen, Unissued
<1>3. /\ r \in InvoiceRow /\ r.paid = inv[i].paid /\ r.credited = inv[i].credited
      /\ r.balance = inv[i].balance /\ r.subtotal = inv[i].subtotal
      /\ r.tax = inv[i].tax /\ r.discount = inv[i].discount
      /\ r.status = "void" /\ r.voided = TRUE
  BY <1>1, <1>2 DEF InvoiceRow
<1>4. inv' = [inv EXCEPT ![i] = r]
  BY <1>1 DEF IInv, TypeOK, InvoiceRow
<1>5. RestOK' /\ UNCHANGED moneyVars
  BY RestUnchanged DEF gatewayVars, IInv, TypeOK
<1>6. inv[i].balance = Remaining(inv[i]) \/ inv[i].balance = 0
  BY DEF IInv, LedgerAgrees
<1> HIDE DEF r
<1>7. r.balance = Remaining(r) \/ (r.voided /\ r.balance = 0)
  BY <1>3, <1>6 DEF Remaining, Total
<1> QED BY <1>2, <1>3, <1>4, <1>5, <1>7, RowStep

LEMMA WriteOffInvoiceInv ==
  ASSUME IInv, NEW i \in Invoice, WriteOffInvoice(i)
  PROVE  IInv'
<1> DEFINE b == inv[i].balance
           r == [inv[i] EXCEPT !.status = "written_off", !.writtenOff = b]
<1>1. inv[i] \in InvoiceRow /\ b \in Int
  BY DEF IInv, TypeOK, InvoiceRow
<1>2. "written_off" \in Statuses /\ "written_off" \notin Unissued \cup {"absent"}
  BY DEF Statuses, Frozen, Unissued
<1>3. inv' = [inv EXCEPT ![i] = r]
  BY <1>1 DEF WriteOffInvoice, IInv, TypeOK, InvoiceRow
<1>4. /\ r \in InvoiceRow /\ r.paid = inv[i].paid /\ r.credited = inv[i].credited
      /\ r.balance = inv[i].balance /\ r.subtotal = inv[i].subtotal
      /\ r.tax = inv[i].tax /\ r.discount = inv[i].discount
      /\ r.status = "written_off" /\ r.voided = inv[i].voided
  <2> HIDE DEF b
  <2> QED BY <1>1, <1>2 DEF InvoiceRow
<1>5. RestOK' /\ UNCHANGED moneyVars
  BY RestUnchanged DEF WriteOffInvoice, gatewayVars, IInv, TypeOK
<1>6. inv[i].balance = Remaining(inv[i]) \/ (inv[i].voided /\ inv[i].balance = 0)
  BY DEF IInv, LedgerAgrees
<1> HIDE DEF r
<1>7. r.balance = Remaining(r) \/ (r.voided /\ r.balance = 0)
  BY <1>4, <1>6 DEF Remaining, Total
<1> QED BY <1>2, <1>3, <1>4, <1>5, <1>7, RowStep

LEMMA CreateCreditNoteInv ==
  ASSUME IInv, NEW i \in Invoice, NEW n \in NoteId, NEW a \in Amounts,
         CreateCreditNote(i, n, a)
  PROVE  IInv'
<1> DEFINE m == [id |-> n, amount |-> a, status |-> "issued"]
           N == notes[i] \cup {m}
<1>1. m \in CreditNote
  BY AmountsAssumption DEF CreditNote
<1>2. /\ notes[i] \in SUBSET CreditNote /\ payments[i] \in SUBSET Payment
      /\ refunds[i] \in SUBSET RefundRow
      /\ IsFiniteSet(notes[i]) /\ IsFiniteSet(payments[i]) /\ IsFiniteSet(refunds[i])
  BY DEF IInv, TypeOK, FiniteRows
<1>3. N \in SUBSET CreditNote /\ IsFiniteSet(N)
  BY <1>1, <1>2, FS_AddElement
<1>4. inv[i].status \notin Unissued \cup {"absent"}
  BY DEF CreateCreditNote, Creditable, Frozen, Unissued
<1>5. /\ notes' = [notes EXCEPT ![i] = N]
      /\ payments' = [payments EXCEPT ![i] = payments[i]]
      /\ refunds' = [refunds EXCEPT ![i] = refunds[i]]
  BY DEF CreateCreditNote, IInv, TypeOK
<1>6. inv' = [inv EXCEPT ![i] = Recompute(inv[i], payments[i], refunds[i], N)]
  BY <1>5 DEF CreateCreditNote, IInv, TypeOK
<1>7. RestOK'
  BY RestUnchanged DEF CreateCreditNote, gatewayVars, IInv, TypeOK
<1> HIDE DEF N
<1> QED BY <1>2, <1>3, <1>4, <1>5, <1>6, <1>7, MoneyStep

LEMMA VoidCreditNoteInv ==
  ASSUME IInv, NEW i \in Invoice, NEW m \in notes[i], VoidCreditNote(i, m)
  PROVE  IInv'
<1> DEFINE v == [m EXCEPT !.status = "void"]
           N == (notes[i] \ {m}) \cup {v}
<1>2. /\ notes[i] \in SUBSET CreditNote /\ payments[i] \in SUBSET Payment
      /\ refunds[i] \in SUBSET RefundRow
      /\ IsFiniteSet(notes[i]) /\ IsFiniteSet(payments[i]) /\ IsFiniteSet(refunds[i])
  BY DEF IInv, TypeOK, FiniteRows
<1>1. v \in CreditNote
  BY <1>2 DEF CreditNote
<1>3. N \in SUBSET CreditNote /\ IsFiniteSet(N)
  <2>1. IsFiniteSet(notes[i] \ {m})
    BY <1>2, FS_Subset
  <2> QED BY <1>1, <1>2, <2>1, FS_AddElement
<1>4. inv[i].status \notin Unissued \cup {"absent"}
  BY DEF IInv, UnissuedCarriesNoMoney
<1>5. /\ notes' = [notes EXCEPT ![i] = N]
      /\ payments' = [payments EXCEPT ![i] = payments[i]]
      /\ refunds' = [refunds EXCEPT ![i] = refunds[i]]
  BY DEF VoidCreditNote, IInv, TypeOK
<1>6. inv' = [inv EXCEPT ![i] = Recompute(inv[i], payments[i], refunds[i], N)]
  BY <1>5 DEF VoidCreditNote, IInv, TypeOK
<1>7. RestOK'
  BY RestUnchanged DEF VoidCreditNote, gatewayVars, IInv, TypeOK
<1> HIDE DEF N
<1> QED BY <1>2, <1>3, <1>4, <1>5, <1>6, <1>7, MoneyStep

(* The insert create_payment and record_gateway_payment share.             *)
LEMMA InsertPaymentInv ==
  ASSUME IInv, NEW i \in Invoice, NEW p \in PaymentId, NEW a \in Nat,
         NEW ref \in Charge \cup {None},
         AcceptsPayment(inv[i], a), InsertPayment(i, p, a, ref),
         UNCHANGED <<refunds, notes>>, RestOK'
  PROVE  IInv'
<1> DEFINE r == [id |-> p, amount |-> a, ref |-> ref]
           P == payments[i] \cup {r}
<1>1. r \in Payment
  BY DEF Payment
<1>2. /\ notes[i] \in SUBSET CreditNote /\ payments[i] \in SUBSET Payment
      /\ refunds[i] \in SUBSET RefundRow
      /\ IsFiniteSet(notes[i]) /\ IsFiniteSet(payments[i]) /\ IsFiniteSet(refunds[i])
  BY DEF IInv, TypeOK, FiniteRows
<1>3. P \in SUBSET Payment /\ IsFiniteSet(P)
  BY <1>1, <1>2, FS_AddElement
<1>4. inv[i].status \notin Unissued \cup {"absent"}
  BY DEF AcceptsPayment
<1>5. /\ payments' = [payments EXCEPT ![i] = P]
      /\ notes' = [notes EXCEPT ![i] = notes[i]]
      /\ refunds' = [refunds EXCEPT ![i] = refunds[i]]
  BY DEF InsertPayment, IInv, TypeOK
<1>6. inv' = [inv EXCEPT ![i] = Recompute(inv[i], P, refunds[i], notes[i])]
  BY <1>5 DEF InsertPayment, IInv, TypeOK
<1> HIDE DEF P
<1> QED BY <1>2, <1>3, <1>4, <1>5, <1>6, MoneyStep

LEMMA CreatePaymentInv ==
  ASSUME IInv, NEW i \in Invoice, NEW p \in PaymentId, NEW a \in Amounts,
         NEW c \in Charge \cup {None}, CreatePayment(i, p, a, c)
  PROVE  IInv'
<1>1. a \in Nat
  BY AmountsAssumption
<1>2. RestOK'
  <2>1. misfiled' \subseteq Invoice
    BY DEF CreatePayment, IInv, TypeOK
  <2> QED BY <2>1, RestUnchanged DEF CreatePayment
<1> QED BY <1>1, <1>2, InsertPaymentInv DEF CreatePayment

LEMMA DeletePaymentInv ==
  ASSUME IInv, NEW i \in Invoice, NEW p \in payments[i], DeletePayment(i, p)
  PROVE  IInv'
<1> DEFINE P == payments[i] \ {p}
           R == {r \in refunds[i] : r.payment # p.id}
<1>2. /\ notes[i] \in SUBSET CreditNote /\ payments[i] \in SUBSET Payment
      /\ refunds[i] \in SUBSET RefundRow
      /\ IsFiniteSet(notes[i]) /\ IsFiniteSet(payments[i]) /\ IsFiniteSet(refunds[i])
  BY DEF IInv, TypeOK, FiniteRows
<1>3. P \in SUBSET Payment /\ IsFiniteSet(P)
  BY <1>2, FS_Subset
<1>4. R \in SUBSET RefundRow /\ IsFiniteSet(R)
  BY <1>2, FS_Subset
<1>5. inv[i].status \notin Unissued \cup {"absent"}
  BY DEF IInv, UnissuedCarriesNoMoney
<1>6. /\ payments' = [payments EXCEPT ![i] = P]
      /\ refunds' = [refunds EXCEPT ![i] = R]
      /\ notes' = [notes EXCEPT ![i] = notes[i]]
  BY DEF DeletePayment, IInv, TypeOK
<1>7. inv' = [inv EXCEPT ![i] = Recompute(inv[i], P, R, notes[i])]
  BY <1>6 DEF DeletePayment, IInv, TypeOK
<1>8. RestOK'
  BY RestUnchanged DEF DeletePayment, gatewayVars, IInv, TypeOK
<1> HIDE DEF P, R
<1> QED BY <1>2, <1>3, <1>4, <1>5, <1>6, <1>7, <1>8, MoneyStep

(* The steps of the gateway itself write no row of the tenant.             *)
LEMMA OpenCheckoutInv ==
  ASSUME IInv, NEW c \in Charge, NEW i \in Invoice, NEW a \in Amounts,
         OpenCheckout(c, i, a)
  PROVE  IInv'
<1>1. a \in Nat
  BY AmountsAssumption
<1>2. RestOK'
  BY <1>1 DEF OpenCheckout, IInv, TypeOK, RestOK, ChargesNameInvoices
<1> QED BY <1>2, RestStep DEF OpenCheckout

LEMMA CustomerPaysInv ==
  ASSUME IInv, NEW c \in Charge, CustomerPays(c)
  PROVE  IInv'
<1>1. RestOK'
  BY DEF CustomerPays, IInv, TypeOK, RestOK, ChargesNameInvoices
<1> QED BY <1>1, RestStep DEF CustomerPays

LEMMA GatewayRefundsInv ==
  ASSUME IInv, NEW c \in Charge, NEW r \in Refund, NEW a \in Amounts,
         GatewayRefunds(c, r, a)
  PROVE  IInv'
<1>1. a \in Nat
  BY AmountsAssumption
<1>2. RestOK'
  BY <1>1 DEF GatewayRefunds, IInv, TypeOK, RestOK, ChargesNameInvoices
<1> QED BY <1>2, RestStep DEF GatewayRefunds

(* Acknowledging a webhook changes only `acked`.                           *)
LEMMA AckedRest ==
  ASSUME IInv, UNCHANGED <<edit, mailed, charge, refunded, misfiled>>,
         acked' \subseteq Charge \cup Refund
  PROVE  RestOK'
BY DEF IInv, TypeOK, RestOK, ChargesNameInvoices

LEMMA RecordGatewayPaymentInv ==
  ASSUME IInv, NEW c \in Charge, NEW p \in PaymentId, RecordGatewayPayment(c, p)
  PROVE  IInv'
<1>1. charge[c].inv \in Invoice /\ charge[c].amount \in Nat
  BY DEF RecordGatewayPayment, IInv, TypeOK, ChargesNameInvoices
<1>2. RestOK'
  <2>1. acked' \subseteq Charge \cup Refund
    BY DEF RecordGatewayPayment, IInv, TypeOK
  <2> QED BY <2>1, AckedRest DEF RecordGatewayPayment
<1> QED BY <1>1, <1>2, InsertPaymentInv DEF RecordGatewayPayment

LEMMA DropGatewayPaymentInv ==
  ASSUME IInv, NEW c \in Charge, DropGatewayPayment(c)
  PROVE  IInv'
<1>1. acked' \subseteq Charge \cup Refund
  BY DEF DropGatewayPayment, IInv, TypeOK
<1> QED BY <1>1, AckedRest, RestStep DEF DropGatewayPayment

LEMMA RecordGatewayRefundsInv ==
  ASSUME IInv, NEW c \in Charge, NEW S \in SUBSET Refund, NEW i \in Invoice,
         NEW p \in payments[i], RecordGatewayRefunds(c, S, i, p)
  PROVE  IInv'
<1> DEFINE new == {s \in S : s \notin {r.id : r \in AllRefunds}}
           row(s) == [id |-> s, payment |-> p.id, amount |-> refunded[s].amount]
           A == {row(s) : s \in new}
           R == refunds[i] \cup A
           f == [s \in new |-> row(s)]
<1>2. /\ notes[i] \in SUBSET CreditNote /\ payments[i] \in SUBSET Payment
      /\ refunds[i] \in SUBSET RefundRow
      /\ IsFiniteSet(notes[i]) /\ IsFiniteSet(payments[i]) /\ IsFiniteSet(refunds[i])
  BY DEF IInv, TypeOK, FiniteRows
<1>3. A \in SUBSET RefundRow
  <2>1. p.id \in PaymentId
    BY <1>2 DEF Payment
  <2>2. \A s \in Refund : refunded[s].amount \in Nat
    BY DEF IInv, TypeOK
  <2> QED BY <2>1, <2>2 DEF RefundRow
<1>4. IsFiniteSet(A)
  <2>1. IsFiniteSet(new)
    BY RefundAssumption, FS_Subset
  <2>2. f \in Surjection(new, A)
    BY DEF Surjection
  <2> HIDE DEF f, A, new
  <2> QED BY <2>1, <2>2, FS_Surjection
<1>5. R \in SUBSET RefundRow /\ IsFiniteSet(R)
  <2> HIDE DEF A
  <2> QED BY <1>2, <1>3, <1>4, FS_Union
<1>6. inv[i].status \notin Unissued \cup {"absent"}
  BY DEF IInv, UnissuedCarriesNoMoney
<1>7. /\ refunds' = [refunds EXCEPT ![i] = R]
      /\ payments' = [payments EXCEPT ![i] = payments[i]]
      /\ notes' = [notes EXCEPT ![i] = notes[i]]
  BY DEF RecordGatewayRefunds, IInv, TypeOK
<1>8. inv' = [inv EXCEPT ![i] = Recompute(inv[i], payments[i], R, notes[i])]
  <2>1. refunds'[i] = R
    BY <1>7 DEF IInv, TypeOK
  <2> HIDE DEF R
  <2> QED BY <2>1 DEF RecordGatewayRefunds
<1>9. RestOK'
  <2>1. acked' \subseteq Charge \cup Refund
    BY DEF RecordGatewayRefunds, IInv, TypeOK
  <2> QED BY <2>1, AckedRest DEF RecordGatewayRefunds
<1> HIDE DEF R
<1> QED BY <1>2, <1>5, <1>6, <1>7, <1>8, <1>9, MoneyStep

LEMMA IgnoreGatewayRefundsInv ==
  ASSUME IInv, NEW c \in Charge, NEW S \in SUBSET Refund,
         IgnoreGatewayRefunds(c, S)
  PROVE  IInv'
<1>1. acked' \subseteq Charge \cup Refund
  BY DEF IgnoreGatewayRefunds, IInv, TypeOK
<1> QED BY <1>1, AckedRest, RestStep DEF IgnoreGatewayRefunds

-----------------------------------------------------------------------------
(* Every step keeps the inductive invariant.                               *)
LEMMA NextInv == IInv /\ [Next]_vars => IInv'
<1> SUFFICES ASSUME IInv, [Next]_vars PROVE IInv'
  OBVIOUS
<1>1. ASSUME NEW i \in Invoice, NEW l \in LineTotals,
             NEW t \in TaxAmounts \cup {None}, NEW d \in Discounts,
             NEW x \in BOOLEAN, CreateInvoice(i, l, t, d, x)
      PROVE  IInv'
  BY <1>1, CreateInvoiceInv
<1>2. ASSUME NEW e \in Editor, NEW i \in Invoice, StartUpdate(e, i)
      PROVE  IInv'
  BY <1>2, StartUpdateInv
<1>3. ASSUME NEW e \in Editor, AbandonUpdate(e) PROVE IInv'
  BY <1>3, AbandonUpdateInv
<1>4. ASSUME NEW e \in Editor, NEW q \in Request, FinishUpdate(e, q)
      PROVE  IInv'
  BY <1>4, FinishUpdateInv
<1>5. ASSUME NEW e \in Editor, NEW q \in Request, NEW m \in BOOLEAN,
             SendInvoice(e, q, m)
      PROVE  IInv'
  BY <1>5, SendInvoiceInv
<1>6. ASSUME NEW e \in Editor, NEW q \in Request, SendRolledBack(e, q)
      PROVE  IInv'
  BY <1>6, SendRolledBackInv
<1>7. ASSUME NEW o \in Invoice, NEW n \in Invoice, AmendInvoice(o, n)
      PROVE  IInv'
  BY <1>7, AmendInvoiceInv
<1>8. ASSUME NEW i \in Invoice, VoidInvoice(i) \/ VoidDelegatedInvoice(i)
      PROVE  IInv'
  BY <1>8, VoidRowInv DEF VoidInvoice, VoidDelegatedInvoice
<1>9. ASSUME NEW i \in Invoice, WriteOffInvoice(i) PROVE IInv'
  BY <1>9, WriteOffInvoiceInv
<1>10. ASSUME NEW i \in Invoice, NEW n \in NoteId, NEW a \in Amounts,
              CreateCreditNote(i, n, a)
       PROVE  IInv'
  BY <1>10, CreateCreditNoteInv
<1>11. ASSUME NEW i \in Invoice, NEW m \in notes[i], VoidCreditNote(i, m)
       PROVE  IInv'
  BY <1>11, VoidCreditNoteInv
<1>12. ASSUME NEW i \in Invoice, NEW p \in PaymentId, NEW a \in Amounts,
              NEW c \in Charge \cup {None}, CreatePayment(i, p, a, c)
       PROVE  IInv'
  BY <1>12, CreatePaymentInv
<1>13. ASSUME NEW i \in Invoice, NEW p \in payments[i], DeletePayment(i, p)
       PROVE  IInv'
  BY <1>13, DeletePaymentInv
<1>14. ASSUME NEW c \in Charge, NEW i \in Invoice, NEW a \in Amounts,
              OpenCheckout(c, i, a)
       PROVE  IInv'
  BY <1>14, OpenCheckoutInv
<1>15. ASSUME NEW c \in Charge, CustomerPays(c) PROVE IInv'
  BY <1>15, CustomerPaysInv
<1>16. ASSUME NEW c \in Charge, NEW r \in Refund, NEW a \in Amounts,
              GatewayRefunds(c, r, a)
       PROVE  IInv'
  BY <1>16, GatewayRefundsInv
<1>17. ASSUME NEW c \in Charge, NEW p \in PaymentId, RecordGatewayPayment(c, p)
       PROVE  IInv'
  BY <1>17, RecordGatewayPaymentInv
<1>18. ASSUME NEW c \in Charge, DropGatewayPayment(c) PROVE IInv'
  BY <1>18, DropGatewayPaymentInv
<1>19. ASSUME NEW c \in Charge, NEW S \in SUBSET Refund, NEW i \in Invoice,
              NEW p \in payments[i], RecordGatewayRefunds(c, S, i, p)
       PROVE  IInv'
  BY <1>19, RecordGatewayRefundsInv
<1>20. ASSUME NEW c \in Charge, NEW S \in SUBSET Refund,
              IgnoreGatewayRefunds(c, S)
       PROVE  IInv'
  BY <1>20, IgnoreGatewayRefundsInv
<1>21. CASE UNCHANGED vars
  <2>1. RestOK'
    BY <1>21, RestUnchanged DEF vars, IInv, TypeOK
  <2> QED BY <1>21, <2>1, RestStep DEF vars, moneyVars
<1> QED
  BY <1>1, <1>2, <1>3, <1>4, <1>5, <1>6, <1>7, <1>8, <1>9, <1>10, <1>11, <1>12,
     <1>13, <1>14, <1>15, <1>16, <1>17, <1>18, <1>19, <1>20, <1>21 DEF Next

(* Whatever the sets of invoices, payments, webhooks and concurrent        *)
(* updates: every table keeps the shape of its schema.                     *)
THEOREM TypeCorrect == Spec => []TypeOK
<1>1. IInv => TypeOK
  BY DEF IInv
<1> QED BY <1>1, InitInv, NextInv, PTL DEF Spec

(* The cached figures of an invoice equal the sums of its rows after every *)
(* interleaving of the writers of recompute_invoice_balance and of stale   *)
(* updates.                                                                *)
THEOREM LedgerCorrect == Spec => []LedgerAgrees
<1>1. IInv => LedgerAgrees
  BY DEF IInv
<1> QED BY <1>1, InitInv, NextInv, PTL DEF Spec

(* No payment, refund or credit note is ever on an invoice that was not    *)
(* issued.                                                                 *)
THEOREM DraftsClean == Spec => []UnissuedCarriesNoMoney
<1>1. IInv => UnissuedCarriesNoMoney
  BY DEF IInv
<1> QED BY <1>1, InitInv, NextInv, PTL DEF Spec

-----------------------------------------------------------------------------
(* An issued invoice is never rewritten.                                   *)

(* Row n is row r with the same document figures, still issued.            *)
SameDocument(r, n) ==
  /\ n.status \in Frozen
  /\ n.lines = r.lines
  /\ n.subtotal = r.subtotal
  /\ n.tax = r.tax
  /\ n.discount = r.discount

DocumentsKept ==
  \A i \in Invoice : inv[i].status \in Frozen => SameDocument(inv[i], inv'[i])

(* A step that writes one row keeps the documents if that row was not      *)
(* issued or keeps its document.                                           *)
LEMMA OneRowKept ==
  ASSUME IInv, NEW i \in Invoice, NEW n, inv' = [inv EXCEPT ![i] = n],
         inv[i].status \in Frozen => SameDocument(inv[i], n)
  PROVE  DocumentsKept
<1>1. \A j \in Invoice : inv'[j] = IF j = i THEN n ELSE inv[j]
  BY DEF IInv, TypeOK
<1> QED BY <1>1 DEF DocumentsKept, SameDocument

LEMMA NoRowKept ==
  ASSUME inv' = inv
  PROVE  DocumentsKept
BY DEF DocumentsKept, SameDocument

(* recompute_invoice_balance keeps the document.                           *)
LEMMA RecomputeKept ==
  ASSUME IInv, NEW i \in Invoice, NEW P, NEW R, NEW N,
         inv' = [inv EXCEPT ![i] = Recompute(inv[i], P, R, N)]
  PROVE  DocumentsKept
<1> DEFINE n == Recompute(inv[i], P, R, N)
<1>1. inv[i] \in InvoiceRow
  BY DEF IInv, TypeOK
<1>2. /\ n.lines = inv[i].lines /\ n.subtotal = inv[i].subtotal
      /\ n.tax = inv[i].tax /\ n.discount = inv[i].discount
      /\ n.status = DerivedStatus(inv[i], SumAmount(P) - SumAmount(R),
                                  SumAmount(Issued(N)))
  BY <1>1 DEF Recompute, InvoiceRow
<1>3. inv[i].status \in Frozen => n.status \in Frozen
  BY <1>2 DEF DerivedStatus, Frozen, Unissued
<1> HIDE DEF n
<1>4. inv[i].status \in Frozen => SameDocument(inv[i], n)
  BY <1>2, <1>3 DEF SameDocument
<1>5. inv' = [inv EXCEPT ![i] = n]
  BY DEF n
<1> QED BY <1>4, <1>5, OneRowKept

LEMMA FrozenNotUnissued ==
  \A s : s \in Unissued \cup {"absent"} => s \notin Frozen
BY DEF Unissued, Frozen

(* Two rows: the amendment, a draft until now, and the invoice it voids.   *)
LEMMA SendKept ==
  ASSUME IInv, NEW e \in Editor, NEW q \in Request, NEW m \in BOOLEAN,
         SendInvoice(e, q, m)
  PROVE  DocumentsKept
<1> DEFINE i == edit[e].inv
           o == inv[i].amends
<1>1. SUFFICES ASSUME NEW j \in Invoice, inv[j].status \in Frozen
               PROVE  SameDocument(inv[j], inv'[j])
  BY DEF DocumentsKept
<1>2. inv[j] \in InvoiceRow
  BY DEF IInv, TypeOK
<1>3. j # i
  BY <1>1, FrozenNotUnissued DEF SendInvoice
<1>4. CASE j = o
  <2> DEFINE w == [inv[j] EXCEPT !.status = "void", !.voided = TRUE, !.balance = 0]
  <2>1. inv'[j] = w
    BY <1>3, <1>4 DEF SendInvoice
  <2>2. /\ w.status = "void" /\ w.lines = inv[j].lines
        /\ w.subtotal = inv[j].subtotal /\ w.tax = inv[j].tax
        /\ w.discount = inv[j].discount
    BY <1>2 DEF InvoiceRow
  <2> HIDE DEF w
  <2> QED BY <2>1, <2>2 DEF SameDocument, Frozen
<1>5. CASE j # o
  <2>1. inv'[j] = inv[j]
    BY <1>3, <1>5 DEF SendInvoice
  <2> QED BY <1>1, <2>1 DEF SameDocument
<1> QED BY <1>4, <1>5

(* Statuses written by hand over an issued row.                            *)
LEMMA VoidKept ==
  ASSUME IInv, NEW i \in Invoice, VoidInvoice(i) \/ VoidDelegatedInvoice(i)
  PROVE  DocumentsKept
<1> DEFINE r == [inv[i] EXCEPT !.status = "void", !.voided = TRUE]
<1>1. inv[i] \in InvoiceRow
  BY DEF IInv, TypeOK
<1>2. inv' = [inv EXCEPT ![i] = r]
  BY <1>1 DEF VoidInvoice, VoidDelegatedInvoice, IInv, TypeOK, InvoiceRow
<1>3. SameDocument(inv[i], r)
  BY <1>1 DEF SameDocument, Frozen, InvoiceRow
<1> HIDE DEF r
<1> QED BY <1>2, <1>3, OneRowKept

LEMMA WriteOffKept ==
  ASSUME IInv, NEW i \in Invoice, WriteOffInvoice(i)
  PROVE  DocumentsKept
<1> DEFINE b == inv[i].balance
           r == [inv[i] EXCEPT !.status = "written_off", !.writtenOff = b]
<1>1. inv[i] \in InvoiceRow
  BY DEF IInv, TypeOK
<1>2. inv' = [inv EXCEPT ![i] = r]
  BY <1>1 DEF WriteOffInvoice, IInv, TypeOK, InvoiceRow
<1>3. SameDocument(inv[i], r)
  <2> HIDE DEF b
  <2> QED BY <1>1 DEF SameDocument, Frozen, InvoiceRow
<1> HIDE DEF r
<1> QED BY <1>2, <1>3, OneRowKept

LEMMA NextKept == IInv /\ [Next]_vars => DocumentsKept
<1> SUFFICES ASSUME IInv, [Next]_vars PROVE DocumentsKept
  OBVIOUS
<1>1. ASSUME NEW i \in Invoice, NEW l \in LineTotals,
             NEW t \in TaxAmounts \cup {None}, NEW d \in Discounts,
             NEW x \in BOOLEAN, CreateInvoice(i, l, t, d, x)
      PROVE  DocumentsKept
  <2>1. PICK n : inv' = [inv EXCEPT ![i] = n]
    BY <1>1 DEF CreateInvoice
  <2>2. inv[i].status \notin Frozen
    BY <1>1 DEF CreateInvoice, Frozen
  <2> QED BY <2>1, <2>2, OneRowKept
<1>2. ASSUME NEW e \in Editor, NEW q \in Request, FinishUpdate(e, q)
      PROVE  DocumentsKept
  <2>1. edit[e].inv \in Invoice
    BY <1>2, EditFacts DEF FinishUpdate
  <2>2. inv' = [inv EXCEPT ![edit[e].inv] =
                  UpdatedRow(edit[e], inv[edit[e].inv], q)]
    BY <1>2 DEF FinishUpdate
  <2>3. inv[edit[e].inv].status \notin Frozen
    BY <1>2, FrozenNotUnissued DEF FinishUpdate
  <2> QED BY <2>1, <2>2, <2>3, OneRowKept
<1>3. ASSUME NEW o \in Invoice, NEW n \in Invoice, AmendInvoice(o, n)
      PROVE  DocumentsKept
  <2>1. PICK r : inv' = [inv EXCEPT ![n] = r]
    BY <1>3 DEF AmendInvoice
  <2>2. inv[n].status \notin Frozen
    BY <1>3 DEF AmendInvoice, Frozen
  <2> QED BY <2>1, <2>2, OneRowKept
<1>4. ASSUME NEW i \in Invoice, NEW n \in NoteId, NEW a \in Amounts,
             CreateCreditNote(i, n, a)
      PROVE  DocumentsKept
  BY <1>4, RecomputeKept DEF CreateCreditNote
<1>5. ASSUME NEW i \in Invoice, NEW m \in notes[i], VoidCreditNote(i, m)
      PROVE  DocumentsKept
  BY <1>5, RecomputeKept DEF VoidCreditNote
<1>6. ASSUME NEW i \in Invoice, NEW p \in PaymentId, NEW a \in Amounts,
             NEW c \in Charge \cup {None}, CreatePayment(i, p, a, c)
      PROVE  DocumentsKept
  BY <1>6, RecomputeKept DEF CreatePayment, InsertPayment
<1>7. ASSUME NEW i \in Invoice, NEW p \in payments[i], DeletePayment(i, p)
      PROVE  DocumentsKept
  BY <1>7, RecomputeKept DEF DeletePayment
<1>8. ASSUME NEW c \in Charge, NEW p \in PaymentId, RecordGatewayPayment(c, p)
      PROVE  DocumentsKept
  <2>1. charge[c].inv \in Invoice
    BY <1>8 DEF RecordGatewayPayment, IInv, ChargesNameInvoices
  <2> QED BY <1>8, <2>1, RecomputeKept DEF RecordGatewayPayment, InsertPayment
<1>9. ASSUME NEW c \in Charge, NEW S \in SUBSET Refund, NEW i \in Invoice,
             NEW p \in payments[i], RecordGatewayRefunds(c, S, i, p)
      PROVE  DocumentsKept
  BY <1>9, RecomputeKept DEF RecordGatewayRefunds
<1>10. ASSUME inv' = inv PROVE DocumentsKept
  BY <1>10, NoRowKept
<1> QED
  BY <1>1, <1>2, <1>3, <1>4, <1>5, <1>6, <1>7, <1>8, <1>9, <1>10,
     SendKept, VoidKept, WriteOffKept
  DEF Next, vars, StartUpdate, AbandonUpdate, SendRolledBack, OpenCheckout,
      CustomerPays, GatewayRefunds, DropGatewayPayment, IgnoreGatewayRefunds

(* No step, not even an update that read the invoice while it was a draft, *)
(* changes the document of an issued invoice or makes it editable again.   *)
THEOREM IssuedStands == Spec => IssuedNeverRewritten
<1>1. IInv /\ [Next]_vars =>
        [\A i \in Invoice :
           inv[i].status \in Frozen =>
             /\ inv'[i].status \in Frozen
             /\ inv'[i].lines = inv[i].lines
             /\ inv'[i].subtotal = inv[i].subtotal
             /\ inv'[i].tax = inv[i].tax
             /\ inv'[i].discount = inv[i].discount]_vars
  BY NextKept DEF DocumentsKept, SameDocument
<1> QED BY <1>1, InitInv, NextInv, PTL DEF Spec, IssuedNeverRewritten
-----------------------------------------------------------------------------
(* Documents: what was sent, what a status says, and what replaces what.   *)

(* The invoice was voided by the amendment that replaced it.               *)
Replaced(r) == r.status = "void" /\ r.voided /\ r.writtenOff = 0

(* What holds of each row.  An invoice that did not go out yet was neither *)
(* sent nor closed, and only a closed one has an amount written off.       *)
RowHistory(r) ==
  /\ r.status \in Unissued \cup {"absent"} => ~r.sent /\ ~r.voided /\ r.writtenOff = 0
  /\ r.writtenOff # 0 => r.status \in {"written_off", "void"}
  /\ r.sent =>
       /\ r.status = "paid" => Remaining(r) <= 0
       /\ r.status = "partially_paid" => r.paid > 0 /\ Remaining(r) > 0
       /\ r.status = "sent" => r.paid <= 0

(* An update in flight read a draft, which was not sent.                   *)
EditsReadDrafts == \A e \in Editor : ~edit[e].sent

(* One amendment is open, one went out, and what it replaces is void.      *)
ReplacementsUnique ==
  \A i, j \in Invoice :
    /\ inv[i].amends = inv[j].amends /\ inv[i].amends # None
    /\ \/ inv[i].status \in Unissued /\ inv[j].status \in Unissued
       \/ inv[i].sent /\ inv[j].sent
    => i = j

ReplacedAreVoid ==
  \A i \in Invoice :
    inv[i].sent /\ inv[i].amends # None => Replaced(inv[inv[i].amends])

DocInv ==
  /\ \A i \in Invoice : RowHistory(inv[i])
  /\ EditsReadDrafts
  /\ ReplacementsUnique
  /\ ReplacedAreVoid

LEMMA RowType ==
  ASSUME IInv, NEW i \in Invoice
  PROVE  inv[i] \in InvoiceRow /\ inv[i].amends \in Invoice \cup {None}
BY DEF IInv, TypeOK, InvoiceRow

(* A step that writes one row which goes on as what it was: the same       *)
(* amendment of the same invoice, sent or not as before, and void if it    *)
(* was replaced.                                                           *)
LEMMA DocRowStep ==
  ASSUME IInv, DocInv, NEW i \in Invoice, NEW n, inv' = [inv EXCEPT ![i] = n],
         RowHistory(n), n.amends = inv[i].amends, n.sent = inv[i].sent,
         n.status \in Unissued => inv[i].status \in Unissued,
         Replaced(inv[i]) => Replaced(n),
         EditsReadDrafts'
  PROVE  DocInv'
<1>1. \A j \in Invoice : inv'[j] = IF j = i THEN n ELSE inv[j]
  BY DEF IInv, TypeOK
<1>2. \A j \in Invoice : /\ inv'[j].amends = inv[j].amends /\ inv'[j].sent = inv[j].sent
                         /\ inv'[j].status \in Unissued => inv[j].status \in Unissued
                         /\ Replaced(inv[j]) => Replaced(inv'[j])
                         /\ RowHistory(inv'[j])
  BY <1>1 DEF DocInv
<1>3. ReplacementsUnique'
  BY <1>2 DEF DocInv, ReplacementsUnique
<1>4. ReplacedAreVoid'
  BY <1>2, RowType DEF DocInv, ReplacedAreVoid
<1> QED BY <1>2, <1>3, <1>4 DEF DocInv

LEMMA DocElsewhere ==
  ASSUME DocInv, inv' = inv, EditsReadDrafts'
  PROVE  DocInv'
BY DEF DocInv, RowHistory, Replaced, ReplacementsUnique, ReplacedAreVoid, Remaining, Total

(* recompute_invoice_balance derives the status from the money, except for *)
(* an invoice that is closed.                                              *)
LEMMA RecomputeDoc ==
  ASSUME IInv, DocInv, NEW i \in Invoice, NEW P, NEW R, NEW N,
         SumAmount(P) \in Nat, SumAmount(R) \in Nat, SumAmount(Issued(N)) \in Nat,
         inv[i].status \notin Unissued \cup {"absent"},
         inv' = [inv EXCEPT ![i] = Recompute(inv[i], P, R, N)],
         edit' = edit
  PROVE  DocInv'
<1> DEFINE n == Recompute(inv[i], P, R, N)
           r == inv[i]
           paid == SumAmount(P) - SumAmount(R)
           credited == SumAmount(Issued(N))
<1>1. r \in InvoiceRow
  BY RowType
<1>2. /\ n \in InvoiceRow /\ n.paid = paid /\ n.credited = credited
      /\ n.amends = r.amends /\ n.sent = r.sent /\ n.voided = r.voided
      /\ n.subtotal = r.subtotal /\ n.tax = r.tax /\ n.discount = r.discount
      /\ n.status \in Frozen
  BY <1>1, RecomputeRow
<1>3. n.writtenOff = r.writtenOff /\ n.status = DerivedStatus(r, paid, credited)
  BY <1>1 DEF Recompute, InvoiceRow
<1>4. Remaining(n) = Total(r) - paid - credited
  BY <1>2 DEF Remaining, Total
<1>5. paid \in Int /\ credited \in Int /\ Total(r) \in Int
  BY <1>1 DEF Total, InvoiceRow
<1> HIDE DEF n, paid, credited
<1>6. RowHistory(n)
  <2>1. n.status \notin Unissued \cup {"absent"}
    BY <1>2 DEF Frozen, Unissued
  <2>2. n.writtenOff # 0 => n.status = "written_off"
    BY <1>3 DEF DerivedStatus
  <2>3. /\ n.status = "paid" => Remaining(n) <= 0
        /\ n.status = "partially_paid" => n.paid > 0 /\ Remaining(n) > 0
        /\ n.status = "sent" => n.paid <= 0
    BY <1>2, <1>3, <1>4, <1>5 DEF DerivedStatus
  <2> QED BY <2>1, <2>2, <2>3 DEF RowHistory
<1>7. Replaced(r) => Replaced(n)
  BY <1>2, <1>3 DEF Replaced, DerivedStatus
<1>8. n.status \notin Unissued
  BY <1>2 DEF Frozen, Unissued
<1>9. inv' = [inv EXCEPT ![i] = n]
  BY DEF n
<1>10. EditsReadDrafts'
  BY DEF DocInv, EditsReadDrafts
<1> QED BY <1>2, <1>6, <1>7, <1>8, <1>9, <1>10, DocRowStep

(* What update_invoice writes beside the figures.                          *)
LEMMA UpdatedRowDoc ==
  ASSUME NEW c \in EditSlot, NEW r \in InvoiceRow, NEW q \in Request
  PROVE  LET n == UpdatedRow(c, r, q)
         IN /\ n.amends = r.amends /\ n.voided = r.voided
            /\ n.writtenOff = r.writtenOff /\ n.paid = r.paid
            /\ n.sent = (c.sent \/ q.status = "sent")
            /\ n.status = IF q.status = None THEN r.status ELSE q.status
<1> DEFINE n == UpdatedRow(c, r, q)
<1>1. n.amends = r.amends /\ n.voided = r.voided
  BY DEF UpdatedRow, InvoiceRow
<1>2. n.writtenOff = r.writtenOff /\ n.paid = r.paid
  BY DEF UpdatedRow, InvoiceRow
<1>3. n.sent = (c.sent \/ q.status = "sent")
  BY DEF UpdatedRow, InvoiceRow
<1>4. n.status = IF q.status = None THEN r.status ELSE q.status
  BY DEF UpdatedRow, InvoiceRow
<1> QED BY <1>1, <1>2, <1>3, <1>4

LEMMA EditClosedDrafts ==
  ASSUME IInv, DocInv, NEW e \in Editor, edit' = [edit EXCEPT ![e] = Idle]
  PROVE  EditsReadDrafts'
<1>1. Idle.sent = FALSE
  BY DEF Idle
<1> QED BY <1>1 DEF DocInv, EditsReadDrafts, IInv, TypeOK

LEMMA CreateInvoiceDoc ==
  ASSUME IInv, DocInv, NEW i \in Invoice, NEW l \in LineTotals,
         NEW t \in TaxAmounts \cup {None}, NEW d \in Discounts, NEW x \in BOOLEAN,
         CreateInvoice(i, l, t, d, x)
  PROVE  DocInv'
<1> DEFINE tax == IF t = None THEN RatedTax(l) ELSE t
           bal == l + tax - d
           st == IF x THEN "sent" ELSE "draft"
           n == [Blank EXCEPT !.status = st, !.lines = l, !.subtotal = l,
                              !.tax = tax, !.discount = d, !.balance = bal,
                              !.sent = x, !.external = x]
<1>1. inv' = [inv EXCEPT ![i] = n] /\ inv[i].status = "absent" /\ edit' = edit
  BY DEF CreateInvoice
<1>2. st = IF x THEN "sent" ELSE "draft"
  OBVIOUS
<1> HIDE DEF tax, bal, st
<1>3. /\ n.amends = None /\ n.sent = x /\ n.status = st
      /\ n.voided = FALSE /\ n.writtenOff = 0 /\ n.paid = 0
  BY DEF Blank
<1> HIDE DEF n
<1>4. \A j \in Invoice : inv'[j] = IF j = i THEN n ELSE inv[j]
  BY <1>1 DEF IInv, TypeOK
<1>5. RowHistory(n)
  BY <1>2, <1>3 DEF RowHistory, Unissued
<1>6. EditsReadDrafts'
  BY <1>1 DEF DocInv, EditsReadDrafts
<1>7. ReplacementsUnique'
  BY <1>3, <1>4 DEF DocInv, ReplacementsUnique
<1>8. ReplacedAreVoid'
  <2>1. ~Replaced(inv[i])
    BY <1>1 DEF Replaced
  <2> QED BY <1>3, <1>4, <2>1, RowType DEF DocInv, ReplacedAreVoid
<1>9. \A j \in Invoice : RowHistory(inv'[j])
  BY <1>4, <1>5 DEF DocInv
<1> QED BY <1>6, <1>7, <1>8, <1>9 DEF DocInv

(* A new amendment of o: the only open one, and o is not replaced yet.     *)
LEMMA AmendInvoiceDoc ==
  ASSUME IInv, DocInv, NEW o \in Invoice, NEW n \in Invoice, AmendInvoice(o, n)
  PROVE  DocInv'
<1> DEFINE bal == Total(inv[o])
           r == [Blank EXCEPT !.status = "draft", !.lines = inv[o].lines,
                              !.subtotal = inv[o].subtotal, !.tax = inv[o].tax,
                              !.discount = inv[o].discount, !.balance = bal,
                              !.amends = o]
<1>1. inv' = [inv EXCEPT ![n] = r] /\ inv[n].status = "absent" /\ edit' = edit
  BY DEF AmendInvoice
<1> HIDE DEF bal
<1>2. /\ r.amends = o /\ r.sent = FALSE /\ r.status = "draft"
      /\ r.voided = FALSE /\ r.writtenOff = 0 /\ r.paid = 0
  BY DEF Blank
<1> HIDE DEF r
<1>3. \A j \in Invoice : inv'[j] = IF j = n THEN r ELSE inv[j]
  BY <1>1 DEF IInv, TypeOK
<1>4. \A j \in Invoice : inv[j].amends = o => inv[j].status \notin Unissued
  BY DEF AmendInvoice
<1>5. RowHistory(r)
  BY <1>2 DEF RowHistory
<1>6. EditsReadDrafts'
  BY <1>1 DEF DocInv, EditsReadDrafts
<1>7. ReplacementsUnique'
  BY <1>2, <1>3, <1>4 DEF DocInv, ReplacementsUnique
<1>8. ReplacedAreVoid'
  <2>1. ~Replaced(inv[n])
    BY <1>1 DEF Replaced
  <2> QED BY <1>2, <1>3, <2>1, RowType DEF DocInv, ReplacedAreVoid
<1>9. \A j \in Invoice : RowHistory(inv'[j])
  BY <1>3, <1>5 DEF DocInv
<1> QED BY <1>6, <1>7, <1>8, <1>9 DEF DocInv

LEMMA StartUpdateDoc ==
  ASSUME IInv, DocInv, NEW e \in Editor, NEW i \in Invoice, StartUpdate(e, i)
  PROVE  DocInv'
<1> DEFINE c == [inv |-> i, subtotal |-> inv[i].subtotal, tax |-> inv[i].tax,
                 discount |-> inv[i].discount, sent |-> inv[i].sent]
<1>1. c.sent = inv[i].sent
  OBVIOUS
<1>2. ~inv[i].sent
  BY DEF StartUpdate, DocInv, RowHistory
<1>3. edit' = [edit EXCEPT ![e] = c]
  BY DEF StartUpdate
<1> HIDE DEF c
<1>4. EditsReadDrafts'
  BY <1>1, <1>2, <1>3 DEF DocInv, EditsReadDrafts, IInv, TypeOK
<1> QED BY <1>4, DocElsewhere DEF StartUpdate

(* An update that is no first send leaves the invoice as unsent as it was. *)
LEMMA FinishUpdateDoc ==
  ASSUME IInv, DocInv, NEW e \in Editor, NEW q \in Request, FinishUpdate(e, q)
  PROVE  DocInv'
<1> DEFINE i == edit[e].inv
           n == UpdatedRow(edit[e], inv[i], q)
<1>1. edit[e] \in EditSlot /\ i \in Invoice /\ inv[i] \in InvoiceRow
  BY EditFacts DEF FinishUpdate
<1>2. /\ inv' = [inv EXCEPT ![i] = n] /\ inv[i].status \in Unissued
      /\ edit' = [edit EXCEPT ![e] = Idle]
  BY DEF FinishUpdate
<1>3. ~edit[e].sent /\ q.status # "sent"
  BY DEF FinishUpdate, JustSent, DocInv, EditsReadDrafts
<1>4. /\ n.amends = inv[i].amends /\ n.voided = inv[i].voided
      /\ n.writtenOff = inv[i].writtenOff
      /\ n.sent = FALSE
  BY <1>1, <1>3, UpdatedRowDoc
<1> HIDE DEF n, i
<1>5. ~inv[i].sent /\ ~inv[i].voided /\ inv[i].writtenOff = 0
  BY <1>1, <1>2 DEF DocInv, RowHistory
<1>6. RowHistory(n)
  BY <1>4, <1>5 DEF RowHistory
<1>7. n.sent = inv[i].sent
  BY <1>1, <1>4, <1>5 DEF InvoiceRow
<1>8. ~Replaced(inv[i])
  BY <1>5 DEF Replaced
<1> QED BY <1>1, <1>2, <1>4, <1>6, <1>7, <1>8, DocRowStep, EditClosedDrafts

(* The send: what it replaces was not replaced before, and is void now.    *)
LEMMA SendInvoiceDoc ==
  ASSUME IInv, DocInv, NEW e \in Editor, NEW q \in Request, NEW m \in BOOLEAN,
         SendInvoice(e, q, m)
  PROVE  DocInv'
<1> DEFINE i == edit[e].inv
           o == inv[i].amends
           n == UpdatedRow(edit[e], inv[i], q)
           W(j) == [inv[j] EXCEPT !.status = "void", !.voided = TRUE, !.balance = 0]
<1>1. edit[e] \in EditSlot /\ i \in Invoice /\ inv[i] \in InvoiceRow
  BY EditFacts DEF SendInvoice
<1>2. inv[i].status \in Unissued /\ q.status = "sent" /\ (o # None => Replaceable(o))
  BY DEF SendInvoice, JustSent
<1>3. /\ n.amends = o /\ n.voided = inv[i].voided /\ n.writtenOff = inv[i].writtenOff
      /\ n.paid = inv[i].paid /\ n.sent = TRUE /\ n.status = "sent"
  <2>1. "sent" # None
    BY NoneAssumption DEF Statuses, Frozen
  <2>2. /\ n.amends = o /\ n.voided = inv[i].voided
        /\ n.writtenOff = inv[i].writtenOff /\ n.paid = inv[i].paid
        /\ n.sent = (edit[e].sent \/ q.status = "sent")
        /\ n.status = IF q.status = None THEN inv[i].status ELSE q.status
    BY <1>1, UpdatedRowDoc, Zenon
  <2> HIDE DEF n, o
  <2> QED BY <1>2, <2>1, <2>2
<1>4. inv[i].paid = 0
  BY <1>1, <1>2, UnissuedFigures
<1>5. \A j \in Invoice : inv'[j] = CASE j = i -> n
                                    [] j # i /\ j = o -> W(j)
                                    [] OTHER -> inv[j]
  BY DEF SendInvoice
<1>6. edit' = [edit EXCEPT ![e] = Idle]
  BY DEF SendInvoice
<1>7. o \in Invoice \cup {None}
  BY <1>1 DEF InvoiceRow
<1>8. ASSUME NEW j \in Invoice
      PROVE  /\ W(j).amends = inv[j].amends /\ W(j).sent = inv[j].sent
             /\ W(j).status = "void" /\ W(j).voided = TRUE
             /\ W(j).writtenOff = inv[j].writtenOff
  BY RowType DEF InvoiceRow
<1> HIDE DEF n, i, W
<1>9. ~inv[i].sent /\ ~inv[i].voided /\ inv[i].writtenOff = 0
  BY <1>1, <1>2 DEF DocInv, RowHistory
<1>10. RowHistory(n)
  BY <1>3, <1>4, <1>9 DEF RowHistory, Unissued
<1>11. o # None => /\ o \in Invoice /\ o # i /\ inv[o].status = "sent"
                   /\ inv[o].writtenOff = 0 /\ Replaced(W(o))
  <2> SUFFICES ASSUME o # None
               PROVE  /\ o \in Invoice /\ o # i /\ inv[o].status = "sent"
                      /\ inv[o].writtenOff = 0 /\ Replaced(W(o))
    OBVIOUS
  <2>1. o \in Invoice /\ inv[o].status = "sent"
    BY <1>2, <1>7 DEF Replaceable
  <2>2. o # i
    BY <1>2, <2>1 DEF Unissued
  <2>3. RowHistory(inv[o])
    BY <2>1 DEF DocInv
  <2>4. inv[o].writtenOff = 0
    BY <2>1, <2>3 DEF RowHistory
  <2> QED BY <1>8, <2>1, <2>2, <2>4 DEF Replaced
<1>12. \A j \in Invoice : inv'[j] = IF j = i THEN n ELSE IF j = o THEN W(j) ELSE inv[j]
  BY <1>5
<1>13. \A j \in Invoice : RowHistory(inv'[j])
  <2>1. ASSUME NEW j \in Invoice, j = o PROVE RowHistory(W(j))
    BY <1>8, <2>1 DEF RowHistory, Unissued
  <2> QED BY <1>10, <1>12, <2>1 DEF DocInv
(* Nobody else replaces o: it would be void already.                       *)
<1>14. o # None => \A j \in Invoice : inv[j].amends = o => ~inv[j].sent
  BY <1>11 DEF DocInv, ReplacedAreVoid, Replaced
<1>15. \A j \in Invoice :
         /\ inv'[j].amends = inv[j].amends
         /\ inv'[j].sent => j = i \/ inv[j].sent
         /\ inv'[j].status \in Unissued => inv[j].status \in Unissued
  BY <1>3, <1>8, <1>12 DEF Unissued
<1>16. ReplacementsUnique'
  BY <1>14, <1>15, <1>1 DEF DocInv, ReplacementsUnique
<1>17. \A j \in Invoice : Replaced(inv[j]) => Replaced(inv'[j])
  BY <1>9, <1>8, <1>12 DEF Replaced
<1>18. ReplacedAreVoid'
  <2> SUFFICES ASSUME NEW j \in Invoice, inv'[j].sent, inv'[j].amends # None
               PROVE  Replaced(inv'[inv'[j].amends])
    BY DEF ReplacedAreVoid
  <2>1. CASE j = i
    BY <1>11, <1>12, <1>15, <2>1
  <2>2. CASE j # i
    BY <1>15, <1>17, <2>2, RowType DEF DocInv, ReplacedAreVoid
  <2> QED BY <2>1, <2>2
<1>19. EditsReadDrafts'
  BY <1>6, EditClosedDrafts
<1> QED BY <1>13, <1>16, <1>18, <1>19 DEF DocInv

LEMMA VoidDoc ==
  ASSUME IInv, DocInv, NEW i \in Invoice, VoidInvoice(i) \/ VoidDelegatedInvoice(i)
  PROVE  DocInv'
<1> DEFINE r == [inv[i] EXCEPT !.status = "void", !.voided = TRUE]
<1>1. inv[i] \in InvoiceRow
  BY RowType
<1>2. inv' = [inv EXCEPT ![i] = r] /\ edit' = edit
  BY <1>1 DEF VoidInvoice, VoidDelegatedInvoice, IInv, TypeOK, InvoiceRow
<1>3. /\ r.status = "void" /\ r.voided = TRUE /\ r.sent = inv[i].sent
      /\ r.amends = inv[i].amends /\ r.writtenOff = inv[i].writtenOff
  BY <1>1 DEF InvoiceRow
<1> HIDE DEF r
<1>4. RowHistory(r)
  BY <1>3 DEF RowHistory, Unissued
<1>5. Replaced(inv[i]) => Replaced(r)
  BY <1>3 DEF Replaced
<1>6. r.status \notin Unissued
  BY <1>3 DEF Unissued
<1>7. EditsReadDrafts'
  BY <1>2 DEF DocInv, EditsReadDrafts
<1> QED BY <1>2, <1>3, <1>4, <1>5, <1>6, <1>7, DocRowStep

LEMMA WriteOffDoc ==
  ASSUME IInv, DocInv, NEW i \in Invoice, WriteOffInvoice(i)
  PROVE  DocInv'
<1> DEFINE b == inv[i].balance
           r == [inv[i] EXCEPT !.status = "written_off", !.writtenOff = b]
<1>1. inv[i] \in InvoiceRow
  BY RowType
<1>2. inv' = [inv EXCEPT ![i] = r] /\ edit' = edit
  BY <1>1 DEF WriteOffInvoice, IInv, TypeOK, InvoiceRow
<1>3. /\ r.status = "written_off" /\ r.sent = inv[i].sent /\ r.amends = inv[i].amends
  <2> HIDE DEF b
  <2> QED BY <1>1 DEF InvoiceRow
<1> HIDE DEF r
<1>4. RowHistory(r)
  BY <1>3 DEF RowHistory, Unissued
<1>5. ~Replaced(inv[i])
  BY DEF Replaced, WriteOffInvoice
<1>6. r.status \notin Unissued
  BY <1>3 DEF Unissued
<1>7. EditsReadDrafts'
  BY <1>2 DEF DocInv, EditsReadDrafts
<1> QED BY <1>2, <1>3, <1>4, <1>5, <1>6, <1>7, DocRowStep

(* The sums recompute_invoice_balance takes after the rows changed.        *)
LEMMA SumsAreNatNext ==
  ASSUME IInv', NEW i \in Invoice
  PROVE  /\ SumAmount(payments'[i]) \in Nat
         /\ SumAmount(refunds'[i]) \in Nat
         /\ SumAmount(Issued(notes'[i])) \in Nat
<1>1. /\ payments'[i] \subseteq Payment /\ refunds'[i] \subseteq RefundRow
      /\ notes'[i] \subseteq CreditNote
  BY DEF IInv, TypeOK
<1>2. IsFiniteSet(payments'[i]) /\ IsFiniteSet(refunds'[i]) /\ IsFiniteSet(notes'[i])
  BY DEF IInv, FiniteRows
<1>3. IsFiniteSet(Issued(notes'[i])) /\ Issued(notes'[i]) \subseteq CreditNote
  BY <1>1, <1>2, FS_Subset DEF Issued
<1>4. SumAmount(payments'[i]) \in Nat
  BY <1>1, <1>2, SumNat DEF Payment
<1>5. SumAmount(refunds'[i]) \in Nat
  BY <1>1, <1>2, SumNat DEF RefundRow
<1>6. SumAmount(Issued(notes'[i])) \in Nat
  BY <1>3, SumNat DEF CreditNote
<1> QED BY <1>4, <1>5, <1>6

(* The step writes the money of invoice i and recomputes its row.          *)
Recomputes(i) ==
  /\ inv[i].status \notin Unissued \cup {"absent"}
  /\ inv' = [inv EXCEPT ![i] = Recompute(inv[i], payments'[i], refunds'[i], notes'[i])]
  /\ edit' = edit

LEMMA RecomputesDoc ==
  ASSUME IInv, IInv', DocInv, NEW i \in Invoice, Recomputes(i)
  PROVE  DocInv'
BY SumsAreNatNext, RecomputeDoc DEF Recomputes

(* Every writer of payments, refunds or credit notes recomputes.           *)
LEMMA MoneyRecomputes ==
  ASSUME IInv,
         \/ \E i \in Invoice, n \in NoteId, a \in Amounts : CreateCreditNote(i, n, a)
         \/ \E i \in Invoice : \E m \in notes[i] : VoidCreditNote(i, m)
         \/ \E i \in Invoice, p \in PaymentId, a \in Amounts, c \in Charge \cup {None} :
              CreatePayment(i, p, a, c)
         \/ \E i \in Invoice : \E p \in payments[i] : DeletePayment(i, p)
         \/ \E c \in Charge, p \in PaymentId : RecordGatewayPayment(c, p)
         \/ \E c \in Charge, S \in SUBSET Refund, i \in Invoice :
              \E p \in payments[i] : RecordGatewayRefunds(c, S, i, p)
  PROVE  \E i \in Invoice : Recomputes(i)
<1>1. ASSUME NEW i \in Invoice, NEW n \in NoteId, NEW a \in Amounts,
             CreateCreditNote(i, n, a)
      PROVE  Recomputes(i)
  <2>1. inv[i].status \notin Unissued \cup {"absent"}
    BY <1>1 DEF CreateCreditNote, Creditable, Frozen, Unissued
  <2> QED BY <1>1, <2>1 DEF CreateCreditNote, Recomputes
<1>2. ASSUME NEW i \in Invoice, NEW m \in notes[i], VoidCreditNote(i, m)
      PROVE  Recomputes(i)
  <2>1. inv[i].status \notin Unissued \cup {"absent"}
    BY <1>2 DEF IInv, UnissuedCarriesNoMoney
  <2> QED BY <1>2, <2>1 DEF VoidCreditNote, Recomputes
<1>3. ASSUME NEW i \in Invoice, NEW p \in PaymentId, NEW a \in Amounts,
             NEW c \in Charge \cup {None}, CreatePayment(i, p, a, c)
      PROVE  Recomputes(i)
  BY <1>3 DEF CreatePayment, AcceptsPayment, InsertPayment, Recomputes
<1>4. ASSUME NEW i \in Invoice, NEW p \in payments[i], DeletePayment(i, p)
      PROVE  Recomputes(i)
  <2>1. inv[i].status \notin Unissued \cup {"absent"}
    BY <1>4 DEF IInv, UnissuedCarriesNoMoney
  <2> QED BY <1>4, <2>1 DEF DeletePayment, Recomputes
<1>5. ASSUME NEW c \in Charge, NEW p \in PaymentId, RecordGatewayPayment(c, p)
      PROVE  charge[c].inv \in Invoice /\ Recomputes(charge[c].inv)
  <2>1. charge[c].inv \in Invoice
    BY <1>5 DEF RecordGatewayPayment, IInv, ChargesNameInvoices
  <2> QED BY <1>5, <2>1
          DEF RecordGatewayPayment, AcceptsPayment, InsertPayment, Recomputes
<1>6. ASSUME NEW c \in Charge, NEW S \in SUBSET Refund, NEW i \in Invoice,
             NEW p \in payments[i], RecordGatewayRefunds(c, S, i, p)
      PROVE  Recomputes(i)
  <2>1. inv[i].status \notin Unissued \cup {"absent"}
    BY <1>6 DEF IInv, UnissuedCarriesNoMoney
  <2> QED BY <1>6, <2>1 DEF RecordGatewayRefunds, Recomputes
<1> QED BY <1>1, <1>2, <1>3, <1>4, <1>5, <1>6

LEMMA InitDoc == Init => DocInv
<1> SUFFICES ASSUME Init PROVE DocInv
  OBVIOUS
<1>1. \A i \in Invoice : inv[i] = Blank
  BY DEF Init
<1>2. \A i \in Invoice : /\ inv[i].status = "absent" /\ ~inv[i].sent /\ ~inv[i].voided
                         /\ inv[i].writtenOff = 0 /\ inv[i].amends = None
  BY <1>1 DEF Blank
<1>3. \A e \in Editor : ~edit[e].sent
  BY DEF Init, Idle
<1> QED BY <1>2, <1>3
        DEF DocInv, RowHistory, EditsReadDrafts, ReplacementsUnique, ReplacedAreVoid

(* The rows stay, whatever the gateway or a refused update does.           *)
LEMMA SameRowsDoc ==
  ASSUME IInv, DocInv, inv' = inv,
         edit' = edit \/ \E e \in Editor : edit' = [edit EXCEPT ![e] = Idle]
  PROVE  DocInv'
<1>1. EditsReadDrafts'
  BY EditClosedDrafts DEF DocInv, EditsReadDrafts
<1> QED BY <1>1, DocElsewhere

LEMMA NextDoc == IInv /\ DocInv /\ [Next]_vars => DocInv'
<1> SUFFICES ASSUME IInv, DocInv, [Next]_vars PROVE DocInv'
  OBVIOUS
<1>1. IInv'
  BY NextInv
<1>2. ASSUME inv' = inv, edit' = edit PROVE DocInv'
  BY <1>2, SameRowsDoc
<1>3. ASSUME NEW i \in Invoice, Recomputes(i) PROVE DocInv'
  BY <1>1, <1>3, RecomputesDoc
<1>4. CASE UNCHANGED vars
  BY <1>2, <1>4 DEF vars
<1>5. CASE \E e \in Editor : AbandonUpdate(e)
  BY <1>5, SameRowsDoc DEF AbandonUpdate
<1>6. CASE \E e \in Editor, q \in Request : SendRolledBack(e, q)
  BY <1>6, SameRowsDoc DEF SendRolledBack
<1>7. CASE \/ \E c \in Charge, i \in Invoice, a \in Amounts : OpenCheckout(c, i, a)
           \/ \E c \in Charge : CustomerPays(c)
           \/ \E c \in Charge, r \in Refund, a \in Amounts : GatewayRefunds(c, r, a)
           \/ \E c \in Charge : DropGatewayPayment(c)
           \/ \E c \in Charge, S \in SUBSET Refund : IgnoreGatewayRefunds(c, S)
  BY <1>2, <1>7 DEF OpenCheckout, CustomerPays, GatewayRefunds, DropGatewayPayment,
                    IgnoreGatewayRefunds
<1>8. CASE \/ \E i \in Invoice, n \in NoteId, a \in Amounts : CreateCreditNote(i, n, a)
           \/ \E i \in Invoice : \E m \in notes[i] : VoidCreditNote(i, m)
           \/ \E i \in Invoice, p \in PaymentId, a \in Amounts, c \in Charge \cup {None} :
                CreatePayment(i, p, a, c)
           \/ \E i \in Invoice : \E p \in payments[i] : DeletePayment(i, p)
           \/ \E c \in Charge, p \in PaymentId : RecordGatewayPayment(c, p)
           \/ \E c \in Charge, S \in SUBSET Refund, i \in Invoice :
                \E p \in payments[i] : RecordGatewayRefunds(c, S, i, p)
  BY <1>3, <1>8, MoneyRecomputes
<1> QED
  BY <1>4, <1>5, <1>6, <1>7, <1>8, CreateInvoiceDoc, StartUpdateDoc, FinishUpdateDoc,
     SendInvoiceDoc, AmendInvoiceDoc, VoidDoc, WriteOffDoc
  DEF Next

(* Whatever order payments, refunds, credits and their reversals come in,  *)
(* the status recompute_invoice_balance derives for an invoice that went   *)
(* out tells the truth about its money.                                    *)
THEOREM StatusTruthful == Spec => []StatusFollowsMoney
<1>1. DocInv => StatusFollowsMoney
  BY DEF DocInv, RowHistory, StatusFollowsMoney
<1> QED BY <1>1, InitInv, NextInv, InitDoc, NextDoc, PTL DEF Spec

(* A set no two members of which differ has at most one.                   *)
LEMMA AtMostOne ==
  ASSUME NEW S, \A x, y \in S : x = y
  PROVE  Cardinality(S) <= 1
<1>1. CASE S = {}
  BY <1>1, FS_EmptySet
<1>2. CASE S # {}
  <2>1. PICK x \in S : S = {x}
    BY <1>2
  <2> QED BY <2>1, FS_Singleton
<1> QED BY <1>1, <1>2

(* amend_invoice and the send of an amendment keep one answer to "what     *)
(* replaces this invoice": one open amendment, one that went out, and then *)
(* the replaced invoice is void for good.                                  *)
THEOREM ReplacedOnce == Spec => []OneReplacement
<1>1. DocInv => OneReplacement
  <2> SUFFICES ASSUME DocInv, NEW o \in Invoice
               PROVE  LET open == {j \in Invoice : /\ inv[j].amends = o
                                                   /\ inv[j].status \in Unissued}
                          out == {j \in Invoice : inv[j].amends = o /\ inv[j].sent}
                      IN /\ Cardinality(open) <= 1
                         /\ Cardinality(out) <= 1
                         /\ out # {} => inv[o].status = "void"
    BY DEF OneReplacement
  <2> DEFINE open == {j \in Invoice : inv[j].amends = o /\ inv[j].status \in Unissued}
             out == {j \in Invoice : inv[j].amends = o /\ inv[j].sent}
  <2>1. o # None
    BY NoneAssumption
  <2>2. \A x, y \in open : x = y
    BY <2>1 DEF DocInv, ReplacementsUnique
  <2>3. \A x, y \in out : x = y
    BY <2>1 DEF DocInv, ReplacementsUnique
  <2>4. out # {} => inv[o].status = "void"
    BY <2>1 DEF DocInv, ReplacedAreVoid, Replaced
  <2> HIDE DEF open, out
  <2> QED BY <2>2, <2>3, <2>4, AtMostOne DEF open, out
<1> QED BY <1>1, InitInv, NextInv, InitDoc, NextDoc, PTL DEF Spec

-----------------------------------------------------------------------------
(* Closed invoices.  A provider that issues the invoices may report a void *)
(* of an invoice that was written off here; without one, the two columns   *)
(* recompute_invoice_balance reads and the status always agree.            *)

RowClosed(r) ==
  /\ ~r.external
  /\ r.voided <=> r.status = "void"
  /\ r.writtenOff # 0 <=> r.status = "written_off"

ClosedAgree == \A i \in Invoice : RowClosed(inv[i])

(* What one step does to the closed invoices.                              *)
ClosedKept ==
  \A i \in Invoice :
    inv[i].status \in {"void", "written_off"} => inv'[i].status = inv[i].status

(* A step that writes one row.                                             *)
LEMMA OneRowClosed ==
  ASSUME IInv, ClosedAgree, NEW i \in Invoice, NEW n, inv' = [inv EXCEPT ![i] = n],
         RowClosed(n),
         inv[i].status \in {"void", "written_off"} => n.status = inv[i].status
  PROVE  ClosedAgree' /\ ClosedKept
<1>1. \A j \in Invoice : inv'[j] = IF j = i THEN n ELSE inv[j]
  BY DEF IInv, TypeOK
<1> QED BY <1>1 DEF ClosedAgree, ClosedKept

LEMMA RecomputeClosed ==
  ASSUME IInv, IInv', ClosedAgree, NEW i \in Invoice, Recomputes(i)
  PROVE  ClosedAgree' /\ ClosedKept
<1> DEFINE r == inv[i]
           paid == SumAmount(payments'[i]) - SumAmount(refunds'[i])
           credited == SumAmount(Issued(notes'[i]))
           n == Recompute(r, payments'[i], refunds'[i], notes'[i])
<1>1. r \in InvoiceRow /\ inv' = [inv EXCEPT ![i] = n]
  BY RowType DEF Recomputes
<1>2. /\ n.external = r.external /\ n.voided = r.voided /\ n.writtenOff = r.writtenOff
      /\ n.status = DerivedStatus(r, paid, credited)
  BY <1>1 DEF Recompute, InvoiceRow
<1>3. RowClosed(r) /\ r.status \notin Unissued
  BY DEF ClosedAgree, Recomputes
<1> HIDE DEF n, paid, credited, r
<1>4. n.status = DerivedStatus(r, paid, credited)
  BY <1>2
<1>5. r.writtenOff # 0 => n.status = "written_off"
  BY <1>3, <1>4 DEF DerivedStatus
<1>6. r.writtenOff = 0 /\ r.voided => n.status = "void"
  BY <1>3, <1>4 DEF DerivedStatus
<1>7. r.writtenOff = 0 /\ ~r.voided => n.status \notin {"void", "written_off"}
  BY <1>3, <1>4 DEF DerivedStatus
<1>8. r.writtenOff # 0 => ~r.voided
  BY <1>3 DEF RowClosed
<1>9. RowClosed(n)
  BY <1>2, <1>3, <1>5, <1>6, <1>7, <1>8 DEF RowClosed
<1>10. r.status \in {"void", "written_off"} => n.status = r.status
  BY <1>3, <1>5, <1>6, <1>8 DEF RowClosed
<1> QED BY <1>1, <1>9, <1>10, OneRowClosed DEF r

LEMMA SendClosed ==
  ASSUME IInv, ClosedAgree, NEW e \in Editor, NEW q \in Request, NEW m \in BOOLEAN,
         SendInvoice(e, q, m)
  PROVE  ClosedAgree' /\ ClosedKept
<1> DEFINE i == edit[e].inv
           o == inv[i].amends
           n == UpdatedRow(edit[e], inv[i], q)
           W(j) == [inv[j] EXCEPT !.status = "void", !.voided = TRUE, !.balance = 0]
<1>1. edit[e] \in EditSlot /\ i \in Invoice /\ inv[i] \in InvoiceRow
  BY EditFacts DEF SendInvoice
<1>2. inv[i].status \in Unissued /\ q.status = "sent" /\ (o # None => Replaceable(o))
  BY DEF SendInvoice, JustSent
<1>3. /\ n.voided = inv[i].voided /\ n.writtenOff = inv[i].writtenOff
      /\ n.status = "sent"
  BY <1>1, <1>2, UpdatedRowDoc, NoneAssumption DEF Statuses, Frozen
<1>4. n.external = inv[i].external
  BY <1>1 DEF UpdatedRow, InvoiceRow
<1>5. \A j \in Invoice : inv'[j] = CASE j = i -> n
                                    [] j # i /\ j = o -> W(j)
                                    [] OTHER -> inv[j]
  BY DEF SendInvoice
<1>6. ASSUME NEW j \in Invoice
      PROVE  /\ W(j).external = inv[j].external /\ W(j).status = "void"
             /\ W(j).voided = TRUE /\ W(j).writtenOff = inv[j].writtenOff
  BY RowType DEF InvoiceRow
<1>7. o \in Invoice => o # None
  BY NoneAssumption
<1> HIDE DEF n, W
<1>8. RowClosed(n)
  BY <1>1, <1>2, <1>3, <1>4 DEF ClosedAgree, RowClosed, Unissued
<1>9. ASSUME NEW j \in Invoice, j = o
      PROVE  RowClosed(W(j)) /\ inv[j].status = "sent"
  <2>1. inv[j].status = "sent"
    BY <1>2, <1>7, <1>9 DEF Replaceable
  <2> QED BY <1>6, <2>1 DEF ClosedAgree, RowClosed
<1> HIDE DEF i, o
<1>10. \A j \in Invoice : inv'[j] = IF j = i THEN n ELSE IF j = o THEN W(j) ELSE inv[j]
  BY <1>5
<1>11. ClosedAgree'
  BY <1>8, <1>9, <1>10 DEF ClosedAgree
<1>12. ClosedKept
  BY <1>2, <1>9, <1>10 DEF ClosedKept, Unissued
<1> QED BY <1>11, <1>12

LEMMA FinishUpdateClosed ==
  ASSUME IInv, ClosedAgree, NEW e \in Editor, NEW q \in Request, FinishUpdate(e, q)
  PROVE  ClosedAgree' /\ ClosedKept
<1> DEFINE i == edit[e].inv
           n == UpdatedRow(edit[e], inv[i], q)
<1>1. edit[e] \in EditSlot /\ i \in Invoice /\ inv[i] \in InvoiceRow
  BY EditFacts DEF FinishUpdate
<1>2. inv' = [inv EXCEPT ![i] = n] /\ inv[i].status \in Unissued
  BY DEF FinishUpdate
<1>3. /\ n.voided = inv[i].voided /\ n.writtenOff = inv[i].writtenOff
      /\ n.status = IF q.status = None THEN inv[i].status ELSE q.status
  BY <1>1, UpdatedRowDoc
<1>4. n.external = inv[i].external
  BY <1>1 DEF UpdatedRow, InvoiceRow
<1>5. q.status \in PutStatuses
  BY DEF Request
<1> HIDE DEF n, i
<1>6. RowClosed(inv[i]) /\ inv[i].status \notin {"void", "written_off"}
  BY <1>1, <1>2 DEF ClosedAgree, Unissued
<1>7. n.status \notin {"void", "written_off"}
  BY <1>3, <1>5, <1>6 DEF PutStatuses
<1>8. RowClosed(n)
  BY <1>3, <1>4, <1>6, <1>7 DEF RowClosed
<1> QED BY <1>1, <1>2, <1>6, <1>8, OneRowClosed

LEMMA CreateClosed ==
  ASSUME IInv, ClosedAgree, Delegation = FALSE, NEW i \in Invoice, NEW l \in LineTotals,
         NEW t \in TaxAmounts \cup {None}, NEW d \in Discounts, NEW x \in BOOLEAN,
         CreateInvoice(i, l, t, d, x)
  PROVE  ClosedAgree' /\ ClosedKept
<1> DEFINE tax == IF t = None THEN RatedTax(l) ELSE t
           bal == l + tax - d
           st == IF x THEN "sent" ELSE "draft"
           n == [Blank EXCEPT !.status = st, !.lines = l, !.subtotal = l,
                              !.tax = tax, !.discount = d, !.balance = bal,
                              !.sent = x, !.external = x]
<1>1. inv' = [inv EXCEPT ![i] = n] /\ inv[i].status = "absent" /\ ~x
  BY DEF CreateInvoice
<1>2. st \notin {"void", "written_off"}
  OBVIOUS
<1> HIDE DEF tax, bal, st
<1>3. /\ n.external = x /\ n.status = st /\ n.voided = FALSE /\ n.writtenOff = 0
  BY DEF Blank
<1> HIDE DEF n
<1>4. RowClosed(n)
  BY <1>1, <1>2, <1>3 DEF RowClosed
<1> QED BY <1>1, <1>4, OneRowClosed

LEMMA AmendClosed ==
  ASSUME IInv, ClosedAgree, NEW o \in Invoice, NEW n \in Invoice, AmendInvoice(o, n)
  PROVE  ClosedAgree' /\ ClosedKept
<1> DEFINE bal == Total(inv[o])
           r == [Blank EXCEPT !.status = "draft", !.lines = inv[o].lines,
                              !.subtotal = inv[o].subtotal, !.tax = inv[o].tax,
                              !.discount = inv[o].discount, !.balance = bal,
                              !.amends = o]
<1>1. inv' = [inv EXCEPT ![n] = r] /\ inv[n].status = "absent"
  BY DEF AmendInvoice
<1> HIDE DEF bal
<1>2. /\ r.external = FALSE /\ r.status = "draft" /\ r.voided = FALSE /\ r.writtenOff = 0
  BY DEF Blank
<1> HIDE DEF r
<1>3. RowClosed(r)
  BY <1>2 DEF RowClosed
<1> QED BY <1>1, <1>3, OneRowClosed

LEMMA VoidClosed ==
  ASSUME IInv, ClosedAgree, NEW i \in Invoice, VoidInvoice(i)
  PROVE  ClosedAgree' /\ ClosedKept
<1> DEFINE r == [inv[i] EXCEPT !.status = "void", !.voided = TRUE]
<1>1. inv[i] \in InvoiceRow
  BY RowType
<1>2. inv' = [inv EXCEPT ![i] = r] /\ inv[i].status \in Unissued
  BY <1>1 DEF VoidInvoice, IInv, TypeOK, InvoiceRow
<1>3. /\ r.status = "void" /\ r.voided = TRUE /\ r.external = inv[i].external
      /\ r.writtenOff = inv[i].writtenOff
  BY <1>1 DEF InvoiceRow
<1> HIDE DEF r
<1>4. RowClosed(r) /\ inv[i].status \notin {"void", "written_off"}
  BY <1>2, <1>3 DEF ClosedAgree, RowClosed, Unissued
<1> QED BY <1>2, <1>4, OneRowClosed

LEMMA WriteOffClosed ==
  ASSUME IInv, ClosedAgree, NEW i \in Invoice, WriteOffInvoice(i)
  PROVE  ClosedAgree' /\ ClosedKept
<1> DEFINE b == inv[i].balance
           r == [inv[i] EXCEPT !.status = "written_off", !.writtenOff = b]
<1>1. inv[i] \in InvoiceRow
  BY RowType
<1>2. inv' = [inv EXCEPT ![i] = r] /\ b > 0 /\ inv[i].status \in {"sent", "partially_paid"}
  BY <1>1 DEF WriteOffInvoice, IInv, TypeOK, InvoiceRow
<1>3. b \in Int
  BY <1>1 DEF InvoiceRow
<1> HIDE DEF b
<1>4. /\ r.status = "written_off" /\ r.voided = inv[i].voided
      /\ r.external = inv[i].external /\ r.writtenOff = b
  BY <1>1 DEF InvoiceRow
<1> HIDE DEF r
<1>5. RowClosed(r)
  BY <1>2, <1>3, <1>4 DEF ClosedAgree, RowClosed
<1> QED BY <1>2, <1>5, OneRowClosed

LEMMA NextClosed ==
  ASSUME Delegation = FALSE
  PROVE  IInv /\ ClosedAgree /\ [Next]_vars => ClosedAgree' /\ ClosedKept
<1> SUFFICES ASSUME IInv, ClosedAgree, [Next]_vars PROVE ClosedAgree' /\ ClosedKept
  OBVIOUS
<1>1. IInv'
  BY NextInv
<1>2. ASSUME inv' = inv PROVE ClosedAgree' /\ ClosedKept
  BY <1>2 DEF ClosedAgree, RowClosed, ClosedKept
<1>3. ASSUME NEW i \in Invoice, Recomputes(i) PROVE ClosedAgree' /\ ClosedKept
  BY <1>1, <1>3, RecomputeClosed
<1>4. CASE UNCHANGED vars
  BY <1>2, <1>4 DEF vars
<1>5. CASE \/ \E e \in Editor, i \in Invoice : StartUpdate(e, i)
           \/ \E e \in Editor : AbandonUpdate(e)
           \/ \E e \in Editor, q \in Request : SendRolledBack(e, q)
           \/ \E c \in Charge, i \in Invoice, a \in Amounts : OpenCheckout(c, i, a)
           \/ \E c \in Charge : CustomerPays(c)
           \/ \E c \in Charge, r \in Refund, a \in Amounts : GatewayRefunds(c, r, a)
           \/ \E c \in Charge : DropGatewayPayment(c)
           \/ \E c \in Charge, S \in SUBSET Refund : IgnoreGatewayRefunds(c, S)
  BY <1>2, <1>5 DEF StartUpdate, AbandonUpdate, SendRolledBack, OpenCheckout,
                    CustomerPays, GatewayRefunds, DropGatewayPayment, IgnoreGatewayRefunds
<1>6. CASE \/ \E i \in Invoice, n \in NoteId, a \in Amounts : CreateCreditNote(i, n, a)
           \/ \E i \in Invoice : \E m \in notes[i] : VoidCreditNote(i, m)
           \/ \E i \in Invoice, p \in PaymentId, a \in Amounts, c \in Charge \cup {None} :
                CreatePayment(i, p, a, c)
           \/ \E i \in Invoice : \E p \in payments[i] : DeletePayment(i, p)
           \/ \E c \in Charge, p \in PaymentId : RecordGatewayPayment(c, p)
           \/ \E c \in Charge, S \in SUBSET Refund, i \in Invoice :
                \E p \in payments[i] : RecordGatewayRefunds(c, S, i, p)
  BY <1>3, <1>6, MoneyRecomputes
<1>7. CASE \E i \in Invoice : VoidDelegatedInvoice(i)
  BY <1>7 DEF VoidDelegatedInvoice, ClosedAgree, RowClosed
<1> QED
  BY <1>4, <1>5, <1>6, <1>7, CreateClosed, FinishUpdateClosed, SendClosed, AmendClosed,
     VoidClosed, WriteOffClosed
  DEF Next

(* With or without a provider: the status is closed exactly when one of    *)
(* the two columns says so.                                                *)

Closed == {"void", "written_off"}

RowEnded(r) == (r.voided \/ r.writtenOff # 0) <=> r.status \in Closed

EndedAgree == \A i \in Invoice : RowEnded(inv[i])

EndedKept == \A i \in Invoice : inv[i].status \in Closed => inv'[i].status \in Closed

LEMMA OneRowEnded ==
  ASSUME IInv, EndedAgree, NEW i \in Invoice, NEW n, inv' = [inv EXCEPT ![i] = n],
         RowEnded(n), inv[i].status \in Closed => n.status \in Closed
  PROVE  EndedAgree' /\ EndedKept
<1>1. \A j \in Invoice : inv'[j] = IF j = i THEN n ELSE inv[j]
  BY DEF IInv, TypeOK
<1> QED BY <1>1 DEF EndedAgree, EndedKept

LEMMA RecomputeEnded ==
  ASSUME IInv, IInv', EndedAgree, NEW i \in Invoice, Recomputes(i)
  PROVE  EndedAgree' /\ EndedKept
<1> DEFINE r == inv[i]
           paid == SumAmount(payments'[i]) - SumAmount(refunds'[i])
           credited == SumAmount(Issued(notes'[i]))
           n == Recompute(r, payments'[i], refunds'[i], notes'[i])
<1>1. r \in InvoiceRow /\ inv' = [inv EXCEPT ![i] = n]
  BY RowType DEF Recomputes
<1>2. /\ n.voided = r.voided /\ n.writtenOff = r.writtenOff
      /\ n.status = DerivedStatus(r, paid, credited)
  BY <1>1 DEF Recompute, InvoiceRow
<1>3. RowEnded(r) /\ r.status \notin Unissued
  BY DEF EndedAgree, Recomputes
<1> HIDE DEF n, paid, credited, r
<1>4. n.status \in Closed <=> r.voided \/ r.writtenOff # 0
  BY <1>2, <1>3 DEF DerivedStatus, Closed
<1>5. RowEnded(n) /\ (r.status \in Closed => n.status \in Closed)
  BY <1>2, <1>3, <1>4 DEF RowEnded
<1> QED BY <1>1, <1>5, OneRowEnded DEF r

(* An amendment that is sent voids the invoice it replaces.                *)
LEMMA SendEnded ==
  ASSUME IInv, EndedAgree, NEW e \in Editor, NEW q \in Request, NEW m \in BOOLEAN,
         SendInvoice(e, q, m)
  PROVE  EndedAgree' /\ EndedKept
<1> DEFINE i == edit[e].inv
           o == inv[i].amends
           n == UpdatedRow(edit[e], inv[i], q)
           W(j) == [inv[j] EXCEPT !.status = "void", !.voided = TRUE, !.balance = 0]
<1>1. edit[e] \in EditSlot /\ i \in Invoice /\ inv[i] \in InvoiceRow
  BY EditFacts DEF SendInvoice
<1>2. inv[i].status \in Unissued /\ q.status = "sent"
  BY DEF SendInvoice, JustSent
<1>3. /\ n.voided = inv[i].voided /\ n.writtenOff = inv[i].writtenOff
      /\ n.status = "sent"
  BY <1>1, <1>2, UpdatedRowDoc, NoneAssumption DEF Statuses, Frozen
<1>4. \A j \in Invoice : inv'[j] = CASE j = i -> n
                                    [] j # i /\ j = o -> W(j)
                                    [] OTHER -> inv[j]
  BY DEF SendInvoice
<1>5. \A j \in Invoice : W(j).status = "void" /\ W(j).voided = TRUE
  BY RowType DEF InvoiceRow
<1> HIDE DEF n, W
<1>6. RowEnded(n) /\ inv[i].status \notin Closed
  BY <1>1, <1>2, <1>3 DEF EndedAgree, RowEnded, Closed, Unissued
<1>7. \A j \in Invoice : RowEnded(W(j)) /\ W(j).status \in Closed
  BY <1>5 DEF RowEnded, Closed
<1> HIDE DEF i, o
<1>8. \A j \in Invoice : inv'[j] = IF j = i THEN n ELSE IF j = o THEN W(j) ELSE inv[j]
  BY <1>4
<1> QED BY <1>6, <1>7, <1>8 DEF EndedAgree, EndedKept

LEMMA FinishUpdateEnded ==
  ASSUME IInv, EndedAgree, NEW e \in Editor, NEW q \in Request, FinishUpdate(e, q)
  PROVE  EndedAgree' /\ EndedKept
<1> DEFINE i == edit[e].inv
           n == UpdatedRow(edit[e], inv[i], q)
<1>1. edit[e] \in EditSlot /\ i \in Invoice /\ inv[i] \in InvoiceRow
  BY EditFacts DEF FinishUpdate
<1>2. inv' = [inv EXCEPT ![i] = n] /\ inv[i].status \in Unissued
  BY DEF FinishUpdate
<1>3. /\ n.voided = inv[i].voided /\ n.writtenOff = inv[i].writtenOff
      /\ n.status = IF q.status = None THEN inv[i].status ELSE q.status
  BY <1>1, UpdatedRowDoc
<1>4. q.status \in PutStatuses
  BY DEF Request
<1> HIDE DEF n, i
<1>5. RowEnded(inv[i]) /\ inv[i].status \notin Closed
  BY <1>1, <1>2 DEF EndedAgree, Unissued, Closed
<1>6. n.status \notin Closed
  BY <1>3, <1>4, <1>5 DEF PutStatuses, Closed
<1>7. RowEnded(n)
  BY <1>3, <1>5, <1>6 DEF RowEnded
<1> QED BY <1>1, <1>2, <1>5, <1>7, OneRowEnded

(* A new invoice or amendment is open, and says so.                        *)
LEMMA NewRowEnded ==
  ASSUME IInv, EndedAgree,
         \/ \E i \in Invoice, l \in LineTotals, t \in TaxAmounts \cup {None}, d \in Discounts,
               x \in BOOLEAN : CreateInvoice(i, l, t, d, x)
         \/ \E o, n \in Invoice : AmendInvoice(o, n)
  PROVE  EndedAgree' /\ EndedKept
<1> DEFINE Fresh(i) == /\ inv' = [inv EXCEPT ![i] = inv'[i]]
                       /\ inv[i].status = "absent"
                       /\ inv'[i].voided = FALSE /\ inv'[i].writtenOff = 0
                       /\ inv'[i].status \in {"draft", "sent"}
<1>1. PICK i \in Invoice : Fresh(i)
  <2>1. ASSUME NEW i \in Invoice, NEW l \in LineTotals, NEW t \in TaxAmounts \cup {None},
               NEW d \in Discounts, NEW x \in BOOLEAN, CreateInvoice(i, l, t, d, x)
        PROVE  Fresh(i)
    BY <2>1 DEF CreateInvoice, Blank, IInv, TypeOK
  <2>2. ASSUME NEW o \in Invoice, NEW i \in Invoice, AmendInvoice(o, i)
        PROVE  Fresh(i)
    BY <2>2 DEF AmendInvoice, Blank, IInv, TypeOK
  <2> HIDE DEF Fresh
  <2> QED BY <2>1, <2>2
<1> DEFINE n == inv'[i]
<1>2. RowEnded(n) /\ inv[i].status \notin Closed
  BY <1>1 DEF RowEnded, Closed
<1> HIDE DEF n
<1> QED BY <1>1, <1>2, OneRowEnded DEF n

LEMMA DecisionEnded ==
  ASSUME IInv, EndedAgree, NEW i \in Invoice,
         VoidInvoice(i) \/ VoidDelegatedInvoice(i) \/ WriteOffInvoice(i)
  PROVE  EndedAgree' /\ EndedKept
<1> DEFINE v == [inv[i] EXCEPT !.status = "void", !.voided = TRUE]
           b == inv[i].balance
           w == [inv[i] EXCEPT !.status = "written_off", !.writtenOff = b]
<1>1. inv[i] \in InvoiceRow
  BY RowType
<1>2. inv' = [inv EXCEPT ![i] = v] \/ (inv' = [inv EXCEPT ![i] = w] /\ b > 0)
  BY <1>1 DEF VoidInvoice, VoidDelegatedInvoice, WriteOffInvoice, IInv, TypeOK, InvoiceRow
<1>3. v.status = "void" /\ v.voided = TRUE
  BY <1>1 DEF InvoiceRow
<1>4. b \in Int
  BY <1>1 DEF InvoiceRow
<1> HIDE DEF b
<1>5. w.status = "written_off" /\ w.writtenOff = b
  BY <1>1 DEF InvoiceRow
<1> HIDE DEF v, w
<1>6. CASE inv' = [inv EXCEPT ![i] = v]
  <2>1. RowEnded(v) /\ v.status \in Closed
    BY <1>3 DEF RowEnded, Closed
  <2> QED BY <1>6, <2>1, OneRowEnded
<1>7. CASE inv' = [inv EXCEPT ![i] = w] /\ b > 0
  <2>1. RowEnded(w) /\ w.status \in Closed
    BY <1>4, <1>5, <1>7 DEF RowEnded, Closed
  <2> QED BY <1>7, <2>1, OneRowEnded
<1> QED BY <1>2, <1>6, <1>7

LEMMA NextEnded == IInv /\ EndedAgree /\ [Next]_vars => EndedAgree' /\ EndedKept
<1> SUFFICES ASSUME IInv, EndedAgree, [Next]_vars PROVE EndedAgree' /\ EndedKept
  OBVIOUS
<1>1. IInv'
  BY NextInv
<1>2. ASSUME inv' = inv PROVE EndedAgree' /\ EndedKept
  BY <1>2 DEF EndedAgree, RowEnded, EndedKept
<1>3. ASSUME NEW i \in Invoice, Recomputes(i) PROVE EndedAgree' /\ EndedKept
  BY <1>1, <1>3, RecomputeEnded
<1>4. CASE UNCHANGED vars
  BY <1>2, <1>4 DEF vars
<1>5. CASE \/ \E e \in Editor, i \in Invoice : StartUpdate(e, i)
           \/ \E e \in Editor : AbandonUpdate(e)
           \/ \E e \in Editor, q \in Request : SendRolledBack(e, q)
           \/ \E c \in Charge, i \in Invoice, a \in Amounts : OpenCheckout(c, i, a)
           \/ \E c \in Charge : CustomerPays(c)
           \/ \E c \in Charge, r \in Refund, a \in Amounts : GatewayRefunds(c, r, a)
           \/ \E c \in Charge : DropGatewayPayment(c)
           \/ \E c \in Charge, S \in SUBSET Refund : IgnoreGatewayRefunds(c, S)
  BY <1>2, <1>5 DEF StartUpdate, AbandonUpdate, SendRolledBack, OpenCheckout,
                    CustomerPays, GatewayRefunds, DropGatewayPayment, IgnoreGatewayRefunds
<1>6. CASE \/ \E i \in Invoice, n \in NoteId, a \in Amounts : CreateCreditNote(i, n, a)
           \/ \E i \in Invoice : \E m \in notes[i] : VoidCreditNote(i, m)
           \/ \E i \in Invoice, p \in PaymentId, a \in Amounts, c \in Charge \cup {None} :
                CreatePayment(i, p, a, c)
           \/ \E i \in Invoice : \E p \in payments[i] : DeletePayment(i, p)
           \/ \E c \in Charge, p \in PaymentId : RecordGatewayPayment(c, p)
           \/ \E c \in Charge, S \in SUBSET Refund, i \in Invoice :
                \E p \in payments[i] : RecordGatewayRefunds(c, S, i, p)
  BY <1>3, <1>6, MoneyRecomputes
<1> QED
  BY <1>4, <1>5, <1>6, NewRowEnded, FinishUpdateEnded, SendEnded, DecisionEnded
  DEF Next

(* The stronger agreement is one of tenants that issue their own invoices. *)
OwnClosedAgree == Delegation = FALSE => ClosedAgree

(* Money that lands on a void or written-off invoice does not open it      *)
(* again, whoever issues the invoices and whatever the provider reports,   *)
(* and a tenant that issues its own keeps the very status                  *)
(* (recompute_invoice_balance).                                            *)
THEOREM ClosedIsFinal == Spec => TerminalStands
<1>1. Init => EndedAgree /\ OwnClosedAgree
  BY DEF Init, Blank, EndedAgree, RowEnded, Closed, OwnClosedAgree, ClosedAgree, RowClosed
<1>2. IInv /\ EndedAgree /\ OwnClosedAgree /\ [Next]_vars =>
        [\A i \in Invoice :
           inv[i].status \in {"void", "written_off"} =>
             /\ inv'[i].status \in {"void", "written_off"}
             /\ ~Delegation => inv'[i].status = inv[i].status]_vars
  <2> SUFFICES ASSUME IInv, EndedAgree, OwnClosedAgree, [Next]_vars,
                      NEW i \in Invoice, inv[i].status \in {"void", "written_off"}
               PROVE  /\ inv'[i].status \in {"void", "written_off"}
                      /\ ~Delegation => inv'[i].status = inv[i].status
    OBVIOUS
  <2>1. inv'[i].status \in {"void", "written_off"}
    BY NextEnded DEF EndedKept, Closed
  <2>2. ASSUME Delegation = FALSE PROVE inv'[i].status = inv[i].status
    BY <2>2, NextClosed DEF OwnClosedAgree, ClosedKept
  <2>3. ~Delegation => Delegation = FALSE
    BY AmountsAssumption, Zenon
  <2> QED BY <2>1, <2>2, <2>3
<1>3. IInv /\ EndedAgree /\ OwnClosedAgree /\ [Next]_vars => EndedAgree' /\ OwnClosedAgree'
  BY NextEnded, NextClosed DEF OwnClosedAgree
<1> QED BY <1>1, <1>2, <1>3, InitInv, NextInv, PTL DEF Spec, TerminalStands

-----------------------------------------------------------------------------
(* The ledger and the gateway.                                             *)

(* Payment ids, gateway references and refund ids name one row in all.     *)
PaymentsUnique ==
  \A i, j \in Invoice : \A p \in payments[i], q \in payments[j] :
    p.id = q.id \/ (p.ref = q.ref /\ p.ref # None) => i = j /\ p = q

RefundsUnique ==
  \A i, j \in Invoice : \A r \in refunds[i], s \in refunds[j] :
    r.id = s.id => i = j /\ r = s

(* A payment with a reference is what the gateway captured, unless staff   *)
(* misfiled one; a refund row is what the gateway refunded of a payment of *)
(* the same invoice.                                                       *)
PaymentsCaptured ==
  \A i \in Invoice \ misfiled : \A p \in payments[i] :
    p.ref # None => charge[p.ref].state = "captured" /\ charge[p.ref].amount = p.amount

RefundsBacked ==
  \A i \in Invoice : \A r \in refunds[i] :
    \E p \in payments[i] :
      /\ p.id = r.payment
      /\ p.ref # None
      /\ refunded[r.id].charge = p.ref
      /\ refunded[r.id].amount = r.amount

(* The gateway refunds what it captured, and no more than that.            *)
RefundOf(s) == [id |-> s, amount |-> refunded[s].amount]
RefundsOf(c) == {RefundOf(s) : s \in IssuedRefunds(c)}

RefundsCaptured ==
  \A s \in Refund :
    refunded[s].charge # None => charge[refunded[s].charge].state = "captured"

RefundsBounded ==
  \A c \in Charge : SumAmount(RefundsOf(c)) <= charge[c].amount

GatewayInv ==
  /\ PaymentsUnique /\ RefundsUnique
  /\ PaymentsCaptured /\ RefundsBacked
  /\ RefundsCaptured /\ RefundsBounded

(* There are n numbers from 1 to n.                                        *)
LEMMA CountUpTo ==
  ASSUME NEW n \in Nat
  PROVE  IsFiniteSet(1 .. n) /\ Cardinality(1 .. n) = n
<1>1. IsFiniteSet(1 .. n) /\ Cardinality(1 .. n) = IF 1 > n THEN 0 ELSE n - 1 + 1
  BY FS_Interval
<1>2. (IF 1 > n THEN 0 ELSE n - 1 + 1) = n
  OBVIOUS
<1> QED BY <1>1, <1>2

(* Adding a row that is not in the table adds its amount.                  *)
LEMMA SumAdd ==
  ASSUME NEW S, IsFiniteSet(S), \A r \in S : r.amount \in Nat,
         NEW x, x \notin S, x.amount \in Nat
  PROVE  SumAmount(S \cup {x}) = SumAmount(S) + x.amount
<1> DEFINE X == {x} \X (1 .. x.amount)
<1>1. Units(S \cup {x}) = Units(S) \cup X
  BY DEF Units
<1>2. Units(S) \cap X = {}
  BY DEF Units
<1>3. IsFiniteSet(X) /\ Cardinality(X) = x.amount
  <2>1. IsFiniteSet({x}) /\ Cardinality({x}) = 1
    BY FS_Singleton
  <2>2. IsFiniteSet(1 .. x.amount) /\ Cardinality(1 .. x.amount) = x.amount
    BY CountUpTo
  <2>3. /\ IsFiniteSet(X)
        /\ Cardinality(X) = Cardinality({x}) * Cardinality(1 .. x.amount)
    BY <2>1, <2>2, FS_Product
  <2>4. Cardinality(X) = 1 * x.amount
    BY <2>1, <2>2, <2>3
  <2> QED BY <2>3, <2>4
<1>4. IsFiniteSet(Units(S))
  BY UnitsFinite
<1>5. Cardinality(Units(S)) \in Nat
  BY <1>4, FS_CardinalityType
<1> HIDE DEF X
<1>6. Cardinality(Units(S) \cup X) =
        Cardinality(Units(S)) + Cardinality(X) - Cardinality(Units(S) \cap X)
  BY <1>3, <1>4, FS_Union
<1>7. Cardinality(Units(S) \cap X) = 0
  BY <1>2, FS_EmptySet
<1>8. Cardinality(Units(S) \cup X) = Cardinality(Units(S)) + x.amount
  BY <1>3, <1>5, <1>6, <1>7
<1> QED BY <1>1, <1>8 DEF SumAmount

LEMMA InitGateway == Init => GatewayInv
<1> SUFFICES ASSUME Init PROVE GatewayInv
  OBVIOUS
<1>1. \A i \in Invoice : payments[i] = {} /\ refunds[i] = {}
  BY DEF Init
<1>2. \A s \in Refund : refunded[s].charge = None
  BY DEF Init, NoRefund
<1>3. RefundsBounded
  <2> SUFFICES ASSUME NEW c \in Charge PROVE SumAmount(RefundsOf(c)) <= charge[c].amount
    BY DEF RefundsBounded
  <2>1. RefundsOf(c) = {}
    BY <1>2, NoneAssumption DEF RefundsOf, IssuedRefunds
  <2>2. charge[c].amount = 0
    BY DEF Init, NoCharge
  <2> QED BY <2>1, <2>2, SumEmpty
<1> QED BY <1>1, <1>2, <1>3
        DEF GatewayInv, PaymentsUnique, RefundsUnique, PaymentsCaptured, RefundsBacked,
            RefundsCaptured

(* What the gateway knows of the refunds of a charge depends on `refunded` *)
(* alone.                                                                  *)
LEMMA SameRefunds ==
  ASSUME refunded' = refunded
  PROVE  \A c : RefundsOf(c)' = RefundsOf(c)
BY DEF RefundsOf, RefundOf, IssuedRefunds

LEMMA GatewayElsewhere ==
  ASSUME GatewayInv, UNCHANGED <<payments, refunds, charge, refunded, misfiled>>
  PROVE  GatewayInv'
<1>1. RefundsBounded'
  BY SameRefunds DEF GatewayInv, RefundsBounded
<1> QED BY <1>1 DEF GatewayInv, PaymentsUnique, RefundsUnique, PaymentsCaptured,
                    RefundsBacked, RefundsCaptured

(* A payment under a reference nobody recorded, for what was captured or   *)
(* else misfiled.                                                          *)
LEMMA InsertPaymentGateway ==
  ASSUME IInv, GatewayInv, NEW i \in Invoice, NEW p, NEW a, NEW ref,
         InsertPayment(i, p, a, ref),
         ref # None => ref \notin RecordedRefs, misfiled \subseteq misfiled',
         \/ i \in misfiled' \/ ref = None
         \/ charge[ref].state = "captured" /\ charge[ref].amount = a,
         UNCHANGED <<refunds, charge, refunded>>
  PROVE  GatewayInv'
<1> DEFINE x == [id |-> p, amount |-> a, ref |-> ref]
<1>1. \A j \in Invoice : payments'[j] = IF j = i THEN payments[i] \cup {x} ELSE payments[j]
  BY DEF InsertPayment, IInv, TypeOK
<1>2. x.id = p /\ x.amount = a /\ x.ref = ref
  OBVIOUS
<1>3. \A j \in Invoice : \A q \in payments[j] : q.id # p
  BY DEF InsertPayment, AllPayments
<1>4. ref # None => \A j \in Invoice : \A q \in payments[j] : q.ref # ref
  BY DEF RecordedRefs, AllPayments
<1> HIDE DEF x
<1>5. \A j \in Invoice : \A q \in payments'[j] : q \in payments[j] \/ (j = i /\ q = x)
  BY <1>1
<1>6. PaymentsUnique'
  <2> SUFFICES ASSUME NEW j \in Invoice, NEW k \in Invoice,
                      NEW q \in payments'[j], NEW r \in payments'[k],
                      q.id = r.id \/ (q.ref = r.ref /\ q.ref # None)
               PROVE  j = k /\ q = r
    BY DEF PaymentsUnique
  <2>1. CASE q \in payments[j] /\ r \in payments[k]
    BY <2>1 DEF GatewayInv, PaymentsUnique
  <2>2. CASE q \in payments[j] /\ k = i /\ r = x
    BY <1>2, <1>3, <1>4, <2>2
  <2>3. CASE j = i /\ q = x /\ r \in payments[k]
    BY <1>2, <1>3, <1>4, <2>3
  <2> QED BY <1>5, <2>1, <2>2, <2>3
<1>7. PaymentsCaptured'
  BY <1>2, <1>5 DEF GatewayInv, PaymentsCaptured
<1>8. RefundsBacked'
  <2>1. \A j \in Invoice : payments[j] \subseteq payments'[j]
    BY <1>1
  <2> QED BY <2>1 DEF GatewayInv, RefundsBacked
<1>9. RefundsUnique' /\ RefundsCaptured'
  BY DEF GatewayInv, RefundsUnique, RefundsCaptured
<1>10. RefundsBounded'
  BY SameRefunds DEF GatewayInv, RefundsBounded
<1> QED BY <1>6, <1>7, <1>8, <1>9, <1>10 DEF GatewayInv

(* delete_payment cascades to the refunds of the payment and no other.     *)
LEMMA DeletePaymentGateway ==
  ASSUME IInv, GatewayInv, NEW i \in Invoice, NEW p \in payments[i], DeletePayment(i, p)
  PROVE  GatewayInv'
<1>1. \A j \in Invoice : payments'[j] = IF j = i THEN payments[i] \ {p} ELSE payments[j]
  BY DEF DeletePayment, IInv, TypeOK
<1>2. \A j \in Invoice : refunds'[j] = IF j = i THEN {r \in refunds[i] : r.payment # p.id}
                                       ELSE refunds[j]
  BY DEF DeletePayment, IInv, TypeOK
<1>3. UNCHANGED <<charge, refunded, misfiled>>
  BY DEF DeletePayment, gatewayVars
<1>4. \A j \in Invoice : payments'[j] \subseteq payments[j] /\ refunds'[j] \subseteq refunds[j]
  BY <1>1, <1>2
<1>5. PaymentsUnique' /\ RefundsUnique'
  BY <1>4 DEF GatewayInv, PaymentsUnique, RefundsUnique
<1>6. PaymentsCaptured' /\ RefundsCaptured'
  BY <1>3, <1>4 DEF GatewayInv, PaymentsCaptured, RefundsCaptured
<1>7. RefundsBacked'
  <2> SUFFICES ASSUME NEW j \in Invoice, NEW r \in refunds'[j]
               PROVE  \E q \in payments'[j] :
                        /\ q.id = r.payment /\ q.ref # None
                        /\ refunded[r.id].charge = q.ref
                        /\ refunded[r.id].amount = r.amount
    BY <1>3 DEF RefundsBacked
  <2>1. r \in refunds[j]
    BY <1>4
  <2>2. PICK q \in payments[j] : /\ q.id = r.payment /\ q.ref # None
                                 /\ refunded[r.id].charge = q.ref
                                 /\ refunded[r.id].amount = r.amount
    BY <2>1 DEF GatewayInv, RefundsBacked
  <2>3. q \in payments'[j]
    BY <1>1, <1>2, <2>2
  <2> QED BY <2>2, <2>3
<1>8. RefundsBounded'
  BY <1>3, SameRefunds DEF GatewayInv, RefundsBounded
<1> QED BY <1>5, <1>6, <1>7, <1>8 DEF GatewayInv

(* The refunds of one event that no payment_refunds row holds yet.         *)
LEMMA RecordGatewayRefundsGateway ==
  ASSUME IInv, GatewayInv, NEW c \in Charge, NEW S \in SUBSET Refund, NEW i \in Invoice,
         NEW p \in payments[i], RecordGatewayRefunds(c, S, i, p)
  PROVE  GatewayInv'
<1> DEFINE new == {s \in S : s \notin {r.id : r \in AllRefunds}}
           row(s) == [id |-> s, payment |-> p.id, amount |-> refunded[s].amount]
<1>1. \A j \in Invoice : refunds'[j] = IF j = i THEN refunds[i] \cup {row(s) : s \in new}
                                       ELSE refunds[j]
  BY DEF RecordGatewayRefunds, IInv, TypeOK
<1>2. UNCHANGED <<payments, charge, refunded, misfiled>>
  BY DEF RecordGatewayRefunds
<1>3. \A s : row(s).id = s /\ row(s).payment = p.id /\ row(s).amount = refunded[s].amount
  OBVIOUS
<1>4. \A s \in new : /\ refunded[s].charge = c
                     /\ \A j \in Invoice : \A r \in refunds[j] : r.id # s
  BY DEF RecordGatewayRefunds, IssuedRefunds, AllRefunds
<1>5. p.ref = c /\ c # None
  BY NoneAssumption DEF RecordGatewayRefunds
<1> HIDE DEF new, row
<1>6. \A j \in Invoice : \A r \in refunds'[j] :
        r \in refunds[j] \/ (j = i /\ \E s \in new : r = row(s))
  BY <1>1
<1>7. RefundsUnique'
  <2> SUFFICES ASSUME NEW j \in Invoice, NEW k \in Invoice,
                      NEW r \in refunds'[j], NEW s \in refunds'[k], r.id = s.id
               PROVE  j = k /\ r = s
    BY DEF RefundsUnique
  <2>1. CASE r \in refunds[j] /\ s \in refunds[k]
    BY <2>1 DEF GatewayInv, RefundsUnique
  <2>2. CASE r \in refunds[j] /\ \E t \in new : s = row(t)
    BY <1>3, <1>4, <2>2
  <2>3. CASE s \in refunds[k] /\ \E t \in new : r = row(t)
    BY <1>3, <1>4, <2>3
  <2>4. CASE j = i /\ k = i /\ (\E t \in new : r = row(t)) /\ (\E t \in new : s = row(t))
    BY <1>3, <2>4
  <2> QED BY <1>6, <2>1, <2>2, <2>3, <2>4
<1>8. RefundsBacked'
  <2> SUFFICES ASSUME NEW j \in Invoice, NEW r \in refunds'[j]
               PROVE  \E q \in payments[j] :
                        /\ q.id = r.payment /\ q.ref # None
                        /\ refunded[r.id].charge = q.ref
                        /\ refunded[r.id].amount = r.amount
    BY <1>2 DEF RefundsBacked
  <2>1. CASE r \in refunds[j]
    BY <2>1 DEF GatewayInv, RefundsBacked
  <2>2. CASE j = i /\ \E s \in new : r = row(s)
    BY <1>3, <1>4, <1>5, <2>2
  <2> QED BY <1>6, <2>1, <2>2
<1>9. PaymentsUnique' /\ PaymentsCaptured' /\ RefundsCaptured'
  BY <1>2 DEF GatewayInv, PaymentsUnique, PaymentsCaptured, RefundsCaptured
<1>10. RefundsBounded'
  BY <1>2, SameRefunds DEF GatewayInv, RefundsBounded
<1> QED BY <1>7, <1>8, <1>9, <1>10 DEF GatewayInv

(* The gateway opens and captures a charge before it refunds any of it.    *)
LEMMA ChargeGateway ==
  ASSUME IInv, GatewayInv, NEW c \in Charge,
         \/ \E i \in Invoice, a \in Amounts : OpenCheckout(c, i, a)
         \/ CustomerPays(c)
  PROVE  GatewayInv'
<1>1. UNCHANGED <<payments, refunds, refunded, misfiled>>
  BY DEF OpenCheckout, CustomerPays, moneyVars
<1>2. charge[c].state # "captured"
  BY DEF OpenCheckout, CustomerPays
<1>3. \A d \in Charge : d # c => charge'[d] = charge[d]
  BY DEF OpenCheckout, CustomerPays, IInv, TypeOK
<1>4. charge'[c].amount \in Nat
  <2>1. CASE \E i \in Invoice, a \in Amounts : OpenCheckout(c, i, a)
    BY <2>1, AmountsAssumption DEF OpenCheckout, IInv, TypeOK
  <2>2. CASE CustomerPays(c)
    BY <2>2 DEF CustomerPays, IInv, TypeOK
  <2> QED BY <2>1, <2>2
<1>5. \A i \in Invoice \ misfiled : \A p \in payments[i] :
        p.ref # None => p.ref \in Charge /\ p.ref # c
  BY <1>2 DEF GatewayInv, PaymentsCaptured, IInv, TypeOK, Payment
<1>6. \A s \in Refund : refunded[s].charge # None =>
                          refunded[s].charge \in Charge /\ refunded[s].charge # c
  BY <1>2 DEF GatewayInv, RefundsCaptured, IInv, TypeOK
<1>7. PaymentsCaptured' /\ RefundsCaptured'
  BY <1>1, <1>3, <1>5, <1>6 DEF GatewayInv, PaymentsCaptured, RefundsCaptured
<1>8. RefundsBounded'
  <2> SUFFICES ASSUME NEW d \in Charge PROVE SumAmount(RefundsOf(d)) <= charge'[d].amount
    BY <1>1, SameRefunds DEF RefundsBounded
  <2>1. CASE d # c
    BY <1>3, <2>1 DEF GatewayInv, RefundsBounded
  <2>2. CASE d = c
    <3>1. RefundsOf(d) = {}
      BY <1>6, <2>2, NoneAssumption DEF RefundsOf, IssuedRefunds
    <3> QED BY <1>4, <2>2, <3>1, SumEmpty
  <2> QED BY <2>1, <2>2
<1>9. PaymentsUnique' /\ RefundsUnique' /\ RefundsBacked'
  BY <1>1 DEF GatewayInv, PaymentsUnique, RefundsUnique, RefundsBacked
<1> QED BY <1>7, <1>8, <1>9 DEF GatewayInv

LEMMA RefundsOfFinite ==
  ASSUME IInv, NEW c \in Charge
  PROVE  /\ IsFiniteSet(RefundsOf(c))
         /\ \A x \in RefundsOf(c) : x.amount \in Nat
<1>1. IsFiniteSet(IssuedRefunds(c))
  BY RefundAssumption, FS_Subset DEF IssuedRefunds
<1> DEFINE f == [s \in IssuedRefunds(c) |-> RefundOf(s)]
<1>2. f \in Surjection(IssuedRefunds(c), RefundsOf(c))
  BY DEF Surjection, RefundsOf
<1> HIDE DEF f
<1>3. IsFiniteSet(RefundsOf(c))
  BY <1>1, <1>2, FS_Surjection
<1>4. \A x \in RefundsOf(c) : x.amount \in Nat
  BY DEF RefundsOf, RefundOf, IssuedRefunds, IInv, TypeOK
<1> QED BY <1>3, <1>4

LEMMA GatewayRefundsGateway ==
  ASSUME IInv, GatewayInv, NEW c \in Charge, NEW r \in Refund, NEW a \in Amounts,
         GatewayRefunds(c, r, a)
  PROVE  GatewayInv'
<1> DEFINE x == [id |-> r, amount |-> a]
<1>1. /\ refunded' = [refunded EXCEPT ![r] = [charge |-> c, amount |-> a]]
      /\ refunded[r].charge = None /\ charge[c].state = "captured"
      /\ UNCHANGED <<payments, refunds, charge, misfiled>>
  BY DEF GatewayRefunds, NoRefund, moneyVars
<1>2. SumAmount(RefundsOf(c)) + a <= charge[c].amount
  BY DEF GatewayRefunds, RefundsOf, RefundOf
<1>3. a \in Nat /\ c # None
  BY AmountsAssumption, NoneAssumption
<1>4. /\ \A s \in Refund : s # r => refunded'[s] = refunded[s]
      /\ refunded'[r].charge = c /\ refunded'[r].amount = a
  BY <1>1 DEF IInv, TypeOK
<1>5. \A i \in Invoice : \A s \in refunds[i] : s.id \in Refund /\ s.id # r
  BY <1>1 DEF GatewayInv, RefundsBacked, IInv, TypeOK, RefundRow
<1>6. RefundsBacked'
  BY <1>1, <1>4, <1>5 DEF GatewayInv, RefundsBacked
<1>7. RefundsCaptured'
  BY <1>1, <1>4 DEF GatewayInv, RefundsCaptured
<1>8. RefundsOf(c)' = RefundsOf(c) \cup {x} /\ x \notin RefundsOf(c)
  <2>1. IssuedRefunds(c)' = IssuedRefunds(c) \cup {r} /\ r \notin IssuedRefunds(c)
    BY <1>1, <1>3, <1>4 DEF IssuedRefunds
  <2>2. \A s \in IssuedRefunds(c) : RefundOf(s)' = RefundOf(s)
    BY <1>4, <2>1 DEF RefundOf, IssuedRefunds
  <2>3. RefundOf(r)' = x
    BY <1>4 DEF RefundOf
  <2>4. \A s \in IssuedRefunds(c) : RefundOf(s).id = s
    BY DEF RefundOf
  <2>5. x.id = r
    OBVIOUS
  <2>6. RefundsOf(c)' = {RefundOf(s)' : s \in IssuedRefunds(c)'}
    BY DEF RefundsOf
  <2>7. RefundsOf(c)' = RefundsOf(c) \cup {x}
    BY <2>1, <2>2, <2>3, <2>6 DEF RefundsOf
  <2>8. x \notin RefundsOf(c)
    BY <2>1, <2>4, <2>5 DEF RefundsOf
  <2> QED BY <2>7, <2>8
<1>9. \A d \in Charge : d # c => RefundsOf(d)' = RefundsOf(d)
  <2> SUFFICES ASSUME NEW d \in Charge, d # c PROVE RefundsOf(d)' = RefundsOf(d)
    OBVIOUS
  <2>1. d # None
    BY NoneAssumption
  <2>2. IssuedRefunds(d)' = IssuedRefunds(d) /\ r \notin IssuedRefunds(d)
    BY <1>1, <1>4, <2>1 DEF IssuedRefunds
  <2>3. \A s \in IssuedRefunds(d) : RefundOf(s)' = RefundOf(s)
    BY <1>4, <2>2 DEF RefundOf, IssuedRefunds
  <2>4. RefundsOf(d)' = {RefundOf(s)' : s \in IssuedRefunds(d)'}
    BY DEF RefundsOf
  <2> QED BY <2>2, <2>3, <2>4 DEF RefundsOf
<1>10. SumAmount(RefundsOf(c)') = SumAmount(RefundsOf(c)) + a
  <2>1. x.amount = a
    OBVIOUS
  <2> HIDE DEF x
  <2>2. IsFiniteSet(RefundsOf(c)) /\ \A y \in RefundsOf(c) : y.amount \in Nat
    BY RefundsOfFinite
  <2> QED BY <1>3, <1>8, <2>1, <2>2, SumAdd
<1>11. RefundsBounded'
  BY <1>1, <1>2, <1>9, <1>10 DEF GatewayInv, RefundsBounded
<1>12. PaymentsUnique' /\ RefundsUnique' /\ PaymentsCaptured'
  BY <1>1 DEF GatewayInv, PaymentsUnique, RefundsUnique, PaymentsCaptured
<1> QED BY <1>6, <1>7, <1>11, <1>12 DEF GatewayInv

(* Drafts, updates, sends and amendments move no money.                    *)
PaperStep ==
  \/ \E i \in Invoice, l \in LineTotals, t \in TaxAmounts \cup {None},
        d \in Discounts, x \in BOOLEAN : CreateInvoice(i, l, t, d, x)
  \/ \E e \in Editor, i \in Invoice : StartUpdate(e, i)
  \/ \E e \in Editor : AbandonUpdate(e)
  \/ \E e \in Editor, q \in Request : FinishUpdate(e, q)
  \/ \E e \in Editor, q \in Request, m \in BOOLEAN : SendInvoice(e, q, m)
  \/ \E e \in Editor, q \in Request : SendRolledBack(e, q)
  \/ \E o, n \in Invoice : AmendInvoice(o, n)

LEMMA PaperMovesNoMoney ==
  ASSUME PaperStep
  PROVE  UNCHANGED <<payments, refunds, notes, charge, refunded, misfiled>>
<1>1. ASSUME NEW i \in Invoice, NEW l \in LineTotals, NEW t \in TaxAmounts \cup {None},
             NEW d \in Discounts, NEW x \in BOOLEAN, CreateInvoice(i, l, t, d, x)
      PROVE  UNCHANGED <<payments, refunds, notes, charge, refunded, misfiled>>
  BY <1>1 DEF CreateInvoice, moneyVars, gatewayVars
<1>2. ASSUME NEW e \in Editor, NEW i \in Invoice, StartUpdate(e, i)
      PROVE  UNCHANGED <<payments, refunds, notes, charge, refunded, misfiled>>
  BY <1>2 DEF StartUpdate, moneyVars, gatewayVars
<1>3. ASSUME NEW e \in Editor, AbandonUpdate(e)
      PROVE  UNCHANGED <<payments, refunds, notes, charge, refunded, misfiled>>
  BY <1>3 DEF AbandonUpdate, moneyVars, gatewayVars
<1>4. ASSUME NEW e \in Editor, NEW q \in Request, FinishUpdate(e, q)
      PROVE  UNCHANGED <<payments, refunds, notes, charge, refunded, misfiled>>
  BY <1>4 DEF FinishUpdate, moneyVars, gatewayVars
<1>5. ASSUME NEW e \in Editor, NEW q \in Request, NEW m \in BOOLEAN, SendInvoice(e, q, m)
      PROVE  UNCHANGED <<payments, refunds, notes, charge, refunded, misfiled>>
  BY <1>5 DEF SendInvoice, moneyVars, gatewayVars
<1>6. ASSUME NEW e \in Editor, NEW q \in Request, SendRolledBack(e, q)
      PROVE  UNCHANGED <<payments, refunds, notes, charge, refunded, misfiled>>
  BY <1>6 DEF SendRolledBack, moneyVars, gatewayVars
<1>7. ASSUME NEW o \in Invoice, NEW n \in Invoice, AmendInvoice(o, n)
      PROVE  UNCHANGED <<payments, refunds, notes, charge, refunded, misfiled>>
  BY <1>7 DEF AmendInvoice, moneyVars, gatewayVars
<1> QED
  BY <1>1, <1>2, <1>3, <1>4, <1>5, <1>6, <1>7, Zenon DEF PaperStep

LEMMA NextGateway == IInv /\ GatewayInv /\ [Next]_vars => GatewayInv'
<1> SUFFICES ASSUME IInv, GatewayInv, [Next]_vars PROVE GatewayInv'
  OBVIOUS
<1>1. ASSUME UNCHANGED <<payments, refunds, charge, refunded, misfiled>> PROVE GatewayInv'
  BY <1>1, GatewayElsewhere
<1>2. ASSUME NEW i \in Invoice, NEW p \in PaymentId, NEW a \in Amounts,
             NEW c \in Charge \cup {None}, CreatePayment(i, p, a, c)
      PROVE  GatewayInv'
  <2>1. /\ misfiled \subseteq misfiled'
        /\ \/ i \in misfiled' \/ c = None
           \/ charge[c].state = "captured" /\ charge[c].amount = a
    BY <1>2 DEF CreatePayment
  <2> QED BY <1>2, <2>1, InsertPaymentGateway DEF CreatePayment
<1>3. ASSUME NEW c \in Charge, NEW p \in PaymentId, RecordGatewayPayment(c, p)
      PROVE  GatewayInv'
  <2>1. charge[c].inv \in Invoice
    BY <1>3 DEF RecordGatewayPayment, IInv, ChargesNameInvoices
  <2> QED BY <1>3, <2>1, InsertPaymentGateway DEF RecordGatewayPayment
<1>4. CASE UNCHANGED vars
  BY <1>1, <1>4 DEF vars
<1>5. CASE PaperStep
  BY <1>1, <1>5, PaperMovesNoMoney
<1>6. CASE \/ \E i \in Invoice : VoidInvoice(i)
           \/ \E i \in Invoice : WriteOffInvoice(i)
           \/ \E i \in Invoice : VoidDelegatedInvoice(i)
           \/ \E i \in Invoice, n \in NoteId, a \in Amounts : CreateCreditNote(i, n, a)
           \/ \E i \in Invoice : \E m \in notes[i] : VoidCreditNote(i, m)
           \/ \E c \in Charge : DropGatewayPayment(c)
           \/ \E c \in Charge, S \in SUBSET Refund : IgnoreGatewayRefunds(c, S)
  BY <1>1, <1>6 DEF VoidInvoice, WriteOffInvoice, VoidDelegatedInvoice, CreateCreditNote,
                    VoidCreditNote, DropGatewayPayment, IgnoreGatewayRefunds,
                    moneyVars, gatewayVars
<1> QED
  BY <1>2, <1>3, <1>4, <1>5, <1>6, DeletePaymentGateway, RecordGatewayRefundsGateway,
     ChargeGateway, GatewayRefundsGateway
  DEF Next, PaperStep

(* A webhook delivered twice, late or after a manual entry never counts a  *)
(* charge or a refund twice, on whichever invoices it lands.               *)
THEOREM WebhooksCountOnce == Spec => []GatewayCountedOnce
<1>1. GatewayInv => GatewayCountedOnce
  <2> SUFFICES ASSUME GatewayInv PROVE GatewayCountedOnce
    OBVIOUS
  <2>1. ASSUME NEW c \in Charge PROVE Cardinality({p \in AllPayments : p.ref = c}) <= 1
    <3>1. c # None
      BY NoneAssumption
    <3>2. \A p, q \in {p \in AllPayments : p.ref = c} : p = q
      BY <3>1 DEF AllPayments, GatewayInv, PaymentsUnique
    <3> QED BY <3>2, AtMostOne
  <2>2. ASSUME NEW s \in Refund PROVE Cardinality({r \in AllRefunds : r.id = s}) <= 1
    <3>1. \A p, q \in {r \in AllRefunds : r.id = s} : p = q
      BY DEF AllRefunds, GatewayInv, RefundsUnique
    <3> QED BY <3>1, AtMostOne
  <2> QED BY <2>1, <2>2 DEF GatewayCountedOnce
<1> QED BY <1>1, InitInv, NextInv, InitGateway, NextGateway, PTL DEF Spec

-----------------------------------------------------------------------------
(* No over-collection.  What was refunded is compared with what was paid   *)
(* payment by payment: the units of the refunds of a payment are mapped    *)
(* into the units of the payment, and the maps are glued together.         *)

LEMMA SmallerInjects ==
  ASSUME NEW A, NEW B, IsFiniteSet(A), IsFiniteSet(B), Cardinality(A) <= Cardinality(B)
  PROVE  Injection(A, B) # {}
<1> DEFINE m == Cardinality(A)
           n == Cardinality(B)
           f == [k \in 1 .. m |-> k]
<1>1. m \in Nat /\ ExistsBijection(1 .. m, A)
  BY FS_CardinalityType
<1>2. n \in Nat /\ ExistsBijection(1 .. n, B)
  BY FS_CardinalityType
<1>3. ExistsInjection(A, 1 .. m)
  <2>1. ExistsBijection(A, 1 .. m)
    BY <1>1, Fun_ExistsBijSymmetric
  <2> HIDE DEF m
  <2> QED BY <2>1 DEF ExistsBijection, ExistsInjection, Bijection
<1>4. ExistsInjection(1 .. n, B)
  <2> HIDE DEF n
  <2> QED BY <1>2 DEF ExistsBijection, ExistsInjection, Bijection
<1>5. ExistsInjection(1 .. m, 1 .. n)
  <2>1. f \in [1 .. m -> 1 .. n]
    BY <1>1, <1>2
  <2>2. \A a, b \in 1 .. m : f[a] = f[b] => a = b
    OBVIOUS
  <2> HIDE DEF f, m, n
  <2> QED BY <2>1, <2>2, Fun_IsInj, Fun_ExistsInj
<1> HIDE DEF m, n
<1>6. ExistsInjection(A, B)
  BY <1>3, <1>4, <1>5, Fun_ExistsInjTransitive
<1> QED BY <1>6, Fun_ExistsInj

LEMMA SumMono ==
  ASSUME NEW T, IsFiniteSet(T), \A r \in T : r.amount \in Nat, NEW S \in SUBSET T
  PROVE  SumAmount(S) <= SumAmount(T)
<1>1. IsFiniteSet(Units(T))
  BY UnitsFinite
<1>2. Units(S) \in SUBSET Units(T)
  BY DEF Units
<1> QED BY <1>1, <1>2, FS_Subset DEF SumAmount

LEMMA SumSplit ==
  ASSUME NEW S, IsFiniteSet(S), \A r \in S : r.amount \in Nat,
         NEW T, IsFiniteSet(T), \A r \in T : r.amount \in Nat, S \cap T = {}
  PROVE  SumAmount(S \cup T) = SumAmount(S) + SumAmount(T)
<1>1. IsFiniteSet(Units(S)) /\ IsFiniteSet(Units(T))
  BY UnitsFinite
<1>2. Units(S \cup T) = Units(S) \cup Units(T)
  BY DEF Units
<1>3. Units(S) \cap Units(T) = {}
  BY DEF Units
<1>4. Cardinality(Units(S) \cup Units(T)) =
        Cardinality(Units(S)) + Cardinality(Units(T)) - Cardinality(Units(S) \cap Units(T))
  BY <1>1, FS_Union
<1>5. Cardinality(Units(S)) \in Nat /\ Cardinality(Units(T)) \in Nat
  BY <1>1, FS_CardinalityType
<1>6. Cardinality(Units(S) \cap Units(T)) = 0
  BY <1>3, FS_EmptySet
<1>7. Cardinality(Units(S) \cup Units(T)) = Cardinality(Units(S)) + Cardinality(Units(T))
  BY <1>4, <1>5, <1>6
<1> QED BY <1>2, <1>7 DEF SumAmount

(* The recorded refunds of one payment.                                    *)
RefundsFor(i, p) == {r \in refunds[i] : r.payment = p.id}

LEMMA RowsNat ==
  ASSUME IInv, NEW i \in Invoice
  PROVE  /\ IsFiniteSet(payments[i]) /\ \A p \in payments[i] : p.amount \in Nat
         /\ IsFiniteSet(refunds[i]) /\ \A r \in refunds[i] : r.amount \in Nat
         /\ IsFiniteSet(Issued(notes[i])) /\ \A n \in Issued(notes[i]) : n.amount \in Nat
<1>1. /\ payments[i] \subseteq Payment /\ refunds[i] \subseteq RefundRow
      /\ notes[i] \subseteq CreditNote
  BY DEF IInv, TypeOK
<1>2. IsFiniteSet(payments[i]) /\ IsFiniteSet(refunds[i]) /\ IsFiniteSet(notes[i])
  BY DEF IInv, FiniteRows
<1>3. Issued(notes[i]) \in SUBSET notes[i]
  BY DEF Issued
<1>4. IsFiniteSet(Issued(notes[i]))
  BY <1>2, <1>3, FS_Subset
<1> QED BY <1>1, <1>2, <1>3, <1>4 DEF Payment, RefundRow, CreditNote

(* The gateway refunds no more of a charge than it captured, so no payment *)
(* has refunds beyond its amount, where none was misfiled.                 *)
LEMMA RefundsWithinPayment ==
  ASSUME IInv, GatewayInv, NEW i \in Invoice \ misfiled, NEW p \in payments[i]
  PROVE  /\ IsFiniteSet(Units(RefundsFor(i, p)))
         /\ SumAmount(RefundsFor(i, p)) <= p.amount
<1> DEFINE R == RefundsFor(i, p)
<1>1. R \in SUBSET refunds[i]
  BY DEF RefundsFor
<1>2. IsFiniteSet(R) /\ \A r \in R : r.amount \in Nat
  BY <1>1, RowsNat, FS_Subset
<1>3. IsFiniteSet(Units(R))
  BY <1>2, UnitsFinite
<1>4. p \in Payment /\ p.amount \in Nat
  BY DEF IInv, TypeOK, Payment
<1>5. \A r \in R : /\ p.ref # None /\ r.id \in Refund
                   /\ refunded[r.id].charge = p.ref /\ refunded[r.id].amount = r.amount
  <2> SUFFICES ASSUME NEW r \in R
               PROVE  /\ p.ref # None /\ r.id \in Refund
                      /\ refunded[r.id].charge = p.ref /\ refunded[r.id].amount = r.amount
    OBVIOUS
  <2>1. PICK q \in payments[i] : /\ q.id = r.payment /\ q.ref # None
                                 /\ refunded[r.id].charge = q.ref
                                 /\ refunded[r.id].amount = r.amount
    BY <1>1 DEF GatewayInv, RefundsBacked
  <2>2. q = p
    BY <2>1 DEF GatewayInv, PaymentsUnique, RefundsFor
  <2>3. r.id \in Refund
    BY <1>1 DEF IInv, TypeOK, RefundRow
  <2> QED BY <2>1, <2>2, <2>3
<1>6. CASE p.ref = None
  <2>1. R = {}
    BY <1>5, <1>6
  <2> QED BY <1>3, <1>4, <2>1, SumEmpty
<1>7. CASE p.ref # None
  <2> DEFINE c == p.ref
             g == [u \in Units(R) |-> <<RefundOf(u[1].id), u[2]>>]
  <2>1. c \in Charge /\ charge[c].amount = p.amount
    BY <1>4, <1>7 DEF Payment, GatewayInv, PaymentsCaptured
  <2>2. IsFiniteSet(Units(RefundsOf(c)))
    BY <2>1, RefundsOfFinite, UnitsFinite
  <2>3. \A u \in Units(R) : u[1] \in R /\ u[2] \in 1 .. u[1].amount /\ u = <<u[1], u[2]>>
    BY DEF Units
  <2>4. \A r \in R : /\ RefundOf(r.id) \in RefundsOf(c)
                     /\ RefundOf(r.id).amount = r.amount /\ RefundOf(r.id).id = r.id
    BY <1>5 DEF RefundsOf, RefundOf, IssuedRefunds
  <2>5. \A u \in Units(R) : <<RefundOf(u[1].id), u[2]>> \in Units(RefundsOf(c))
    <3> SUFFICES ASSUME NEW u \in Units(R)
                 PROVE  <<RefundOf(u[1].id), u[2]>> \in Units(RefundsOf(c))
      OBVIOUS
    <3> DEFINE x == RefundOf(u[1].id)
    <3>1. x \in RefundsOf(c) /\ u[2] \in 1 .. x.amount
      BY <2>3, <2>4
    <3> HIDE DEF x
    <3>2. <<x, u[2]>> \in Units(RefundsOf(c))
      BY <3>1 DEF Units
    <3> QED BY <3>2 DEF x
  <2>6. \A r, s \in R : r.id = s.id => r = s
    BY <1>1 DEF GatewayInv, RefundsUnique
  <2>7. g \in [Units(R) -> Units(RefundsOf(c))]
    BY <2>5
  <2>8. \A u, v \in Units(R) : g[u] = g[v] => u = v
    <3> SUFFICES ASSUME NEW u \in Units(R), NEW v \in Units(R), g[u] = g[v]
                 PROVE  u = v
      OBVIOUS
    <3>1. RefundOf(u[1].id) = RefundOf(v[1].id) /\ u[2] = v[2]
      OBVIOUS
    <3>2. u[1] = v[1]
      BY <2>3, <2>4, <2>6, <3>1
    <3> QED BY <2>3, <3>1, <3>2
  <2> HIDE DEF g, R, c
  <2>9. g \in Injection(Units(R), Units(RefundsOf(c)))
    BY <2>7, <2>8, Fun_IsInj
  <2>10. SumAmount(R) <= SumAmount(RefundsOf(c))
    BY <2>2, <2>9, FS_Injection DEF SumAmount
  <2>11. SumAmount(RefundsOf(c)) <= charge[c].amount
    BY <2>1 DEF GatewayInv, RefundsBounded
  <2>12. SumAmount(R) \in Nat /\ SumAmount(RefundsOf(c)) \in Nat
    BY <1>2, <2>1, SumNat, RefundsOfFinite
  <2> QED BY <1>3, <1>4, <2>1, <2>10, <2>11, <2>12 DEF R
<1> QED BY <1>6, <1>7

(* Together: such an invoice was never refunded more than it was paid.     *)
LEMMA RefundsWithinPayments ==
  ASSUME IInv, GatewayInv, NEW i \in Invoice \ misfiled
  PROVE  SumAmount(refunds[i]) <= SumAmount(payments[i])
<1> DEFINE P == payments[i]
           R == refunds[i]
           B(p) == {p} \X (1 .. p.amount)
           inj == [p \in P |-> CHOOSE f : f \in Injection(Units(RefundsFor(i, p)), B(p))]
           pay == [u \in Units(R) |-> CHOOSE p : p \in P /\ p.id = u[1].payment]
           f == [u \in Units(R) |-> inj[pay[u]][u]]
<1>1. IsFiniteSet(Units(P))
  BY RowsNat, UnitsFinite
<1>2. \A p \in P : inj[p] \in Injection(Units(RefundsFor(i, p)), B(p))
  <2> SUFFICES ASSUME NEW p \in P
               PROVE  Injection(Units(RefundsFor(i, p)), B(p)) # {}
    OBVIOUS
  <2>1. p.amount \in Nat
    BY RowsNat
  <2>2. IsFiniteSet({p}) /\ Cardinality({p}) = 1
    BY FS_Singleton
  <2>3. IsFiniteSet(1 .. p.amount) /\ Cardinality(1 .. p.amount) = p.amount
    BY <2>1, CountUpTo
  <2>4. IsFiniteSet(B(p)) /\ Cardinality(B(p)) = Cardinality({p}) * Cardinality(1 .. p.amount)
    BY <2>2, <2>3, FS_Product
  <2>5. Cardinality(B(p)) = 1 * p.amount
    BY <2>2, <2>3, <2>4
  <2>6. Cardinality(B(p)) = p.amount
    BY <2>1, <2>5
  <2>7. /\ IsFiniteSet(Units(RefundsFor(i, p)))
        /\ Cardinality(Units(RefundsFor(i, p))) <= Cardinality(B(p))
    BY <2>6, RefundsWithinPayment DEF SumAmount
  <2> HIDE DEF B
  <2> QED BY <2>4, <2>7, SmallerInjects
<1>3. \A u \in Units(R) : /\ pay[u] \in P /\ u \in Units(RefundsFor(i, pay[u]))
  <2> SUFFICES ASSUME NEW u \in Units(R)
               PROVE  pay[u] \in P /\ u \in Units(RefundsFor(i, pay[u]))
    OBVIOUS
  <2>1. u[1] \in R /\ u[2] \in 1 .. u[1].amount /\ u = <<u[1], u[2]>>
    BY DEF Units
  <2>2. \E p : p \in P /\ p.id = u[1].payment
    BY <2>1 DEF GatewayInv, RefundsBacked
  <2>3. pay[u] \in P /\ pay[u].id = u[1].payment
    BY <2>2
  <2> HIDE DEF pay
  <2>4. u[1] \in RefundsFor(i, pay[u])
    BY <2>1, <2>3 DEF RefundsFor
  <2> QED BY <2>1, <2>3, <2>4 DEF Units
<1> HIDE DEF inj, pay
<1>4. \A u \in Units(R) : f[u] \in B(pay[u])
  <2> SUFFICES ASSUME NEW u \in Units(R) PROVE inj[pay[u]][u] \in B(pay[u])
    OBVIOUS
  <2>1. inj[pay[u]] \in Injection(Units(RefundsFor(i, pay[u])), B(pay[u]))
    BY <1>2, <1>3
  <2> HIDE DEF B
  <2>2. inj[pay[u]] \in [Units(RefundsFor(i, pay[u])) -> B(pay[u])]
    BY <2>1, Fun_InjectionProperties
  <2> QED BY <1>3, <2>2
<1>5. f \in [Units(R) -> Units(P)]
  <2>1. \A p \in P : B(p) \subseteq Units(P)
    BY DEF Units
  <2> HIDE DEF B, f
  <2>2. \A u \in Units(R) : f[u] \in Units(P)
    BY <1>3, <1>4, <2>1
  <2> QED BY <2>2 DEF f
<1>6. \A u, v \in Units(R) : f[u] = f[v] => u = v
  <2> SUFFICES ASSUME NEW u \in Units(R), NEW v \in Units(R), f[u] = f[v]
               PROVE  u = v
    OBVIOUS
  <2>1. pay[u] = pay[v]
    BY <1>4
  <2>2. inj[pay[u]][u] = inj[pay[u]][v]
    BY <2>1
  <2> HIDE DEF B
  <2> QED BY <1>2, <1>3, <2>1, <2>2, Fun_InjectionProperties
<1> HIDE DEF f
<1>7. f \in Injection(Units(R), Units(P))
  BY <1>5, <1>6, Fun_IsInj
<1> QED BY <1>1, <1>7, FS_Injection DEF SumAmount

(* Nothing is paid or credited beyond the total.                           *)
PaidWithin(r) == r.paid > 0 => r.paid <= Total(r)
CreditedWithin(r) == r.credited > 0 => r.credited <= Total(r)

MoneyBounded ==
  \A i \in Invoice : CreditedWithin(inv[i]) /\ (i \notin misfiled => PaidWithin(inv[i]))

(* The total of an invoice that carries money stands; whoever writes its   *)
(* rows leaves what is paid and credited within the total, or lowers it.   *)
LEMMA BoundedStep ==
  ASSUME IInv, IInv', MoneyBounded, DocumentsKept, misfiled \subseteq misfiled',
         NEW S \in SUBSET Invoice,
         \A j \in Invoice \ S : /\ payments'[j] = payments[j]
                                /\ refunds'[j] = refunds[j] /\ notes'[j] = notes[j],
         \A j \in S : /\ inv[j].status \notin Unissued \cup {"absent"}
                      /\ \/ j \in misfiled \/ inv'[j].paid <= inv[j].paid
                         \/ inv'[j].paid <= Total(inv[j])
                      /\ inv'[j].credited <= inv[j].credited
                           \/ inv'[j].credited <= Total(inv[j])
  PROVE  MoneyBounded'
<1> SUFFICES ASSUME NEW j \in Invoice
             PROVE  CreditedWithin(inv'[j]) /\ (j \notin misfiled' => PaidWithin(inv'[j]))
  BY DEF MoneyBounded
<1>1. inv[j] \in InvoiceRow /\ inv'[j] \in InvoiceRow
  BY DEF IInv, TypeOK
<1>2. /\ inv[j].paid \in Int /\ inv[j].credited \in Int
      /\ inv'[j].paid \in Int /\ inv'[j].credited \in Int
      /\ Total(inv[j]) \in Int /\ Total(inv'[j]) \in Int /\ inv[j].status \in Statuses
  BY <1>1 DEF InvoiceRow, Total
<1>3. inv[j].status \notin Unissued \cup {"absent"} => Total(inv'[j]) = Total(inv[j])
  BY <1>2 DEF DocumentsKept, SameDocument, Total, Statuses
<1>4. CreditedWithin(inv[j]) /\ (j \notin misfiled' => j \notin misfiled /\ PaidWithin(inv[j]))
  BY DEF MoneyBounded
<1>5. CASE j \in S
  BY <1>2, <1>3, <1>4, <1>5 DEF PaidWithin, CreditedWithin
<1>6. CASE j \notin S
  <2>1. inv'[j].paid = inv[j].paid /\ inv'[j].credited = inv[j].credited
    BY <1>6 DEF IInv, LedgerAgrees
  <2>2. CASE inv[j].status \in Unissued \cup {"absent"}
    BY <2>1, <2>2, UnissuedFigures DEF PaidWithin, CreditedWithin
  <2>3. CASE inv[j].status \notin Unissued \cup {"absent"}
    BY <1>2, <1>3, <1>4, <2>1, <2>3 DEF PaidWithin, CreditedWithin
  <2> QED BY <2>2, <2>3
<1> QED BY <1>5, <1>6

(* What the rows of an invoice say is paid and credited, before and after. *)
LEMMA FiguresBefore ==
  ASSUME IInv, NEW i \in Invoice
  PROVE  /\ inv[i].paid = SumAmount(payments[i]) - SumAmount(refunds[i])
         /\ inv[i].credited = SumAmount(Issued(notes[i]))
         /\ SumAmount(payments[i]) \in Nat /\ SumAmount(refunds[i]) \in Nat
         /\ SumAmount(Issued(notes[i])) \in Nat
<1>1. /\ SumAmount(payments[i]) \in Nat /\ SumAmount(refunds[i]) \in Nat
      /\ SumAmount(Issued(notes[i])) \in Nat
  BY RowsNat, SumNat
<1> QED BY <1>1 DEF IInv, LedgerAgrees

LEMMA FiguresAfter ==
  ASSUME IInv', NEW i \in Invoice
  PROVE  /\ inv'[i].paid = SumAmount(payments'[i]) - SumAmount(refunds'[i])
         /\ inv'[i].credited = SumAmount(Issued(notes'[i]))
         /\ SumAmount(payments'[i]) \in Nat /\ SumAmount(refunds'[i]) \in Nat
         /\ SumAmount(Issued(notes'[i])) \in Nat
BY SumsAreNatNext DEF IInv, LedgerAgrees

LEMMA OneInvoiceBounded ==
  ASSUME IInv, IInv', MoneyBounded, DocumentsKept, misfiled \subseteq misfiled',
         NEW i \in Invoice,
         \A j \in Invoice : j # i => /\ payments'[j] = payments[j]
                                    /\ refunds'[j] = refunds[j] /\ notes'[j] = notes[j],
         inv[i].status \notin Unissued \cup {"absent"},
         i \in misfiled \/ inv'[i].paid <= inv[i].paid \/ inv'[i].paid <= Total(inv[i]),
         inv'[i].credited <= inv[i].credited \/ inv'[i].credited <= Total(inv[i])
  PROVE  MoneyBounded'
<1> DEFINE S == {i}
<1>1. S \in SUBSET Invoice /\ \A j : j \in S <=> j = i
  OBVIOUS
<1> HIDE DEF S
<1> QED BY <1>1, BoundedStep

LEMMA CreateCreditNoteBounded ==
  ASSUME IInv, IInv', MoneyBounded, DocumentsKept,
         NEW i \in Invoice, NEW n \in NoteId, NEW a \in Amounts, CreateCreditNote(i, n, a)
  PROVE  MoneyBounded'
<1> DEFINE m == [id |-> n, amount |-> a, status |-> "issued"]
<1>1. /\ \A j \in Invoice : j # i => notes'[j] = notes[j]
      /\ notes'[i] = notes[i] \cup {m} /\ payments' = payments /\ refunds' = refunds
      /\ misfiled' = misfiled
  BY DEF CreateCreditNote, gatewayVars, IInv, TypeOK
<1>2. m.amount = a /\ m.status = "issued" /\ m.id = n
  OBVIOUS
<1>3. m \notin notes[i]
  BY <1>2 DEF CreateCreditNote, AllNotes
<1> HIDE DEF m
<1>4. Issued(notes'[i]) = Issued(notes[i]) \cup {m} /\ m \notin Issued(notes[i])
  BY <1>1, <1>2, <1>3 DEF Issued
<1>5. a \in Nat
  BY AmountsAssumption
<1>6. SumAmount(Issued(notes'[i])) = SumAmount(Issued(notes[i])) + a
  BY <1>2, <1>4, <1>5, RowsNat, SumAdd
<1>7. a <= Total(inv[i]) - inv[i].credited /\ inv[i].status \notin Unissued \cup {"absent"}
  BY DEF CreateCreditNote, Creditable, Frozen, Unissued
<1>8. Total(inv[i]) \in Int
  BY RowType DEF Total, InvoiceRow
<1>9. inv'[i].credited <= Total(inv[i])
  BY <1>5, <1>6, <1>7, <1>8, FiguresBefore, FiguresAfter
<1>10. inv'[i].paid = inv[i].paid /\ inv[i].paid \in Int
  BY <1>1, FiguresBefore, FiguresAfter
<1> QED BY <1>1, <1>7, <1>9, <1>10, OneInvoiceBounded

LEMMA VoidCreditNoteBounded ==
  ASSUME IInv, IInv', MoneyBounded, DocumentsKept,
         NEW i \in Invoice, NEW m \in notes[i], VoidCreditNote(i, m)
  PROVE  MoneyBounded'
<1> DEFINE v == [m EXCEPT !.status = "void"]
<1>1. /\ \A j \in Invoice : j # i => notes'[j] = notes[j]
      /\ notes'[i] = (notes[i] \ {m}) \cup {v} /\ payments' = payments /\ refunds' = refunds
      /\ misfiled' = misfiled
  BY DEF VoidCreditNote, gatewayVars, IInv, TypeOK
<1>2. v.status = "void"
  BY DEF IInv, TypeOK, CreditNote
<1> HIDE DEF v
<1>3. Issued(notes'[i]) \in SUBSET Issued(notes[i])
  BY <1>1, <1>2 DEF Issued
<1>4. SumAmount(Issued(notes'[i])) <= SumAmount(Issued(notes[i]))
  BY <1>3, RowsNat, SumMono
<1>5. inv[i].status \notin Unissued \cup {"absent"}
  BY DEF IInv, UnissuedCarriesNoMoney
<1>6. inv'[i].credited <= inv[i].credited
  BY <1>4, FiguresBefore, FiguresAfter
<1>7. inv'[i].paid = inv[i].paid /\ inv[i].paid \in Int
  BY <1>1, FiguresBefore, FiguresAfter
<1> QED BY <1>1, <1>5, <1>6, <1>7, OneInvoiceBounded

(* The guard keeps the new payment within what remains.                    *)
LEMMA InsertPaymentBounded ==
  ASSUME IInv, IInv', MoneyBounded, DocumentsKept,
         NEW i \in Invoice, NEW p \in PaymentId, NEW a \in Nat,
         NEW ref, AcceptsPayment(inv[i], a), InsertPayment(i, p, a, ref),
         UNCHANGED <<refunds, notes>>, misfiled \subseteq misfiled'
  PROVE  MoneyBounded'
<1> DEFINE x == [id |-> p, amount |-> a, ref |-> ref]
<1>1. /\ \A j \in Invoice : j # i => payments'[j] = payments[j]
      /\ payments'[i] = payments[i] \cup {x}
  BY DEF InsertPayment, IInv, TypeOK
<1>2. x.amount = a /\ x.id = p
  OBVIOUS
<1>3. x \notin payments[i]
  BY <1>2 DEF InsertPayment, AllPayments
<1> HIDE DEF x
<1>4. SumAmount(payments'[i]) = SumAmount(payments[i]) + a
  BY <1>1, <1>2, <1>3, RowsNat, SumAdd
<1>5. /\ a <= Total(inv[i]) - inv[i].paid - inv[i].credited
      /\ inv[i].status \notin Unissued \cup {"absent"}
  BY DEF AcceptsPayment, Remaining
<1>6. Total(inv[i]) \in Int
  BY RowType DEF Total, InvoiceRow
<1>7. inv'[i].paid <= Total(inv[i]) /\ inv'[i].credited <= inv[i].credited
  BY <1>4, <1>5, <1>6, FiguresBefore, FiguresAfter
<1> QED BY <1>1, <1>5, <1>7, OneInvoiceBounded

(* A deleted payment takes its refunds along, which are no more than it,   *)
(* or the payment was misfiled.                                            *)
LEMMA DeletePaymentBounded ==
  ASSUME IInv, IInv', GatewayInv, MoneyBounded, DocumentsKept,
         NEW i \in Invoice, NEW p \in payments[i], DeletePayment(i, p)
  PROVE  MoneyBounded'
<1> DEFINE P == payments[i] \ {p}
           R == {r \in refunds[i] : r.payment # p.id}
           D == RefundsFor(i, p)
<1>1. /\ \A j \in Invoice : j # i => payments'[j] = payments[j] /\ refunds'[j] = refunds[j]
      /\ payments'[i] = P /\ refunds'[i] = R /\ notes' = notes /\ misfiled' = misfiled
  BY DEF DeletePayment, gatewayVars, IInv, TypeOK
<1>2. payments[i] = P \cup {p} /\ p \notin P /\ P \in SUBSET payments[i]
  OBVIOUS
<1>3. /\ refunds[i] = R \cup D /\ R \cap D = {}
      /\ R \in SUBSET refunds[i] /\ D \in SUBSET refunds[i]
  BY DEF RefundsFor
<1> HIDE DEF P, R, D
<1>4. IsFiniteSet(P) /\ \A q \in P : q.amount \in Nat
  BY <1>2, RowsNat, FS_Subset
<1>5. p.amount \in Nat
  BY RowsNat
<1>6. /\ IsFiniteSet(R) /\ \A q \in R : q.amount \in Nat
      /\ IsFiniteSet(D) /\ \A q \in D : q.amount \in Nat
  BY <1>3, RowsNat, FS_Subset
<1>7. SumAmount(payments[i]) = SumAmount(P) + p.amount
  BY <1>2, <1>4, <1>5, SumAdd
<1>8. SumAmount(refunds[i]) = SumAmount(R) + SumAmount(D)
  BY <1>3, <1>6, SumSplit
<1>9. i \in misfiled \/ SumAmount(D) <= p.amount
  BY RefundsWithinPayment DEF D
<1>10. SumAmount(P) \in Nat /\ SumAmount(R) \in Nat /\ SumAmount(D) \in Nat
  BY <1>4, <1>6, SumNat
<1>11. inv[i].status \notin Unissued \cup {"absent"}
  BY DEF IInv, UnissuedCarriesNoMoney
<1>12. /\ i \in misfiled \/ inv'[i].paid <= inv[i].paid
       /\ inv'[i].credited <= inv[i].credited
  BY <1>1, <1>5, <1>7, <1>8, <1>9, <1>10, FiguresBefore, FiguresAfter
<1> QED BY <1>1, <1>11, <1>12, OneInvoiceBounded

LEMMA RecordGatewayRefundsBounded ==
  ASSUME IInv, IInv', MoneyBounded, DocumentsKept,
         NEW c \in Charge, NEW S \in SUBSET Refund, NEW i \in Invoice,
         NEW p \in payments[i], RecordGatewayRefunds(c, S, i, p)
  PROVE  MoneyBounded'
<1>1. /\ \A j \in Invoice : j # i => refunds'[j] = refunds[j]
      /\ refunds[i] \in SUBSET refunds'[i] /\ payments' = payments /\ notes' = notes
      /\ misfiled' = misfiled
  BY DEF RecordGatewayRefunds, IInv, TypeOK
<1>2. IsFiniteSet(refunds'[i]) /\ \A r \in refunds'[i] : r.amount \in Nat
  BY DEF IInv, TypeOK, FiniteRows, RefundRow
<1>3. SumAmount(refunds[i]) <= SumAmount(refunds'[i])
  BY <1>1, <1>2, SumMono
<1>4. inv[i].status \notin Unissued \cup {"absent"}
  BY DEF IInv, UnissuedCarriesNoMoney
<1>5. inv'[i].paid <= inv[i].paid /\ inv'[i].credited <= inv[i].credited
  BY <1>1, <1>3, FiguresBefore, FiguresAfter
<1> QED BY <1>1, <1>4, <1>5, OneInvoiceBounded

LEMMA NextBounded == IInv /\ GatewayInv /\ MoneyBounded /\ [Next]_vars => MoneyBounded'
<1> SUFFICES ASSUME IInv, GatewayInv, MoneyBounded, [Next]_vars PROVE MoneyBounded'
  OBVIOUS
<1>1. IInv' /\ DocumentsKept
  BY NextInv, NextKept
<1>2. ASSUME UNCHANGED <<payments, refunds, notes, misfiled>> PROVE MoneyBounded'
  <2>1. {} \in SUBSET Invoice
    OBVIOUS
  <2> QED BY <1>1, <1>2, <2>1, BoundedStep
<1>3. ASSUME NEW i \in Invoice, NEW p \in PaymentId, NEW a \in Amounts,
             NEW c \in Charge \cup {None}, CreatePayment(i, p, a, c)
      PROVE  MoneyBounded'
  <2>1. a \in Nat /\ misfiled \subseteq misfiled'
    BY <1>3, AmountsAssumption DEF CreatePayment
  <2> QED BY <1>1, <1>3, <2>1, InsertPaymentBounded DEF CreatePayment
<1>4. ASSUME NEW c \in Charge, NEW p \in PaymentId, RecordGatewayPayment(c, p)
      PROVE  MoneyBounded'
  <2>1. charge[c].inv \in Invoice /\ charge[c].amount \in Nat
    BY <1>4 DEF RecordGatewayPayment, IInv, ChargesNameInvoices, TypeOK
  <2> QED BY <1>1, <1>4, <2>1, InsertPaymentBounded DEF RecordGatewayPayment
<1>5. CASE UNCHANGED vars
  BY <1>2, <1>5 DEF vars
<1>6. CASE PaperStep
  BY <1>2, <1>6, PaperMovesNoMoney
<1>7. CASE \/ \E i \in Invoice : VoidInvoice(i)
           \/ \E i \in Invoice : WriteOffInvoice(i)
           \/ \E i \in Invoice : VoidDelegatedInvoice(i)
           \/ \E c \in Charge, i \in Invoice, a \in Amounts : OpenCheckout(c, i, a)
           \/ \E c \in Charge : CustomerPays(c)
           \/ \E c \in Charge, r \in Refund, a \in Amounts : GatewayRefunds(c, r, a)
           \/ \E c \in Charge : DropGatewayPayment(c)
           \/ \E c \in Charge, S \in SUBSET Refund : IgnoreGatewayRefunds(c, S)
  BY <1>2, <1>7 DEF VoidInvoice, WriteOffInvoice, VoidDelegatedInvoice, OpenCheckout,
                    CustomerPays, GatewayRefunds, DropGatewayPayment,
                    IgnoreGatewayRefunds, moneyVars, gatewayVars
<1> QED
  BY <1>1, <1>3, <1>4, <1>5, <1>6, <1>7, CreateCreditNoteBounded, VoidCreditNoteBounded,
     DeletePaymentBounded, RecordGatewayRefundsBounded
  DEF Next, PaperStep

(* However payments, refunds, credits, deletions and late webhooks         *)
(* interleave, no invoice is credited beyond its total, and none on which  *)
(* staff misfiled no payment is paid beyond its total or refunded beyond   *)
(* what was paid: the guard of create_payment alone does not see to that,  *)
(* since delete_payment takes a payment's refunds along.                   *)
THEOREM NothingOverCollected == Spec => []NoOverCollection
<1>1. Init => MoneyBounded
  BY DEF Init, Blank, MoneyBounded, PaidWithin, CreditedWithin
<1>2. IInv /\ GatewayInv /\ MoneyBounded => NoOverCollection
  <2> SUFFICES ASSUME IInv, GatewayInv, MoneyBounded, NEW i \in Invoice
               PROVE  /\ CreditedWithin(inv[i])
                      /\ i \notin misfiled => inv[i].paid >= 0 /\ PaidWithin(inv[i])
    BY DEF NoOverCollection, PaidWithin, CreditedWithin
  <2>1. ASSUME i \notin misfiled PROVE inv[i].paid >= 0
    BY <2>1, RefundsWithinPayments, FiguresBefore
  <2> QED BY <2>1 DEF MoneyBounded
<1> QED BY <1>1, <1>2, InitInv, NextInv, InitGateway, NextGateway, NextBounded, PTL
        DEF Spec
=============================================================================
