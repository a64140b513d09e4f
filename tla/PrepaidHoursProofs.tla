------------------------- MODULE PrepaidHoursProofs -------------------------
(***************************************************************************)
(* Proofs about PrepaidHours, for every set of entries, requests and       *)
(* invoices, every term and every allotment.                               *)
(***************************************************************************)
EXTENDS PrepaidHours, FiniteSetTheorems, TLAPS

-----------------------------------------------------------------------------
(* The hours drawn from a period, as a function of the entries.            *)

Drawn1(E, p) == {e \in Entry : E[e].row = "live" /\ E[e].from = p}
UnitsOf(E, D) == UNION {{e} \X (1 .. E[e].consumed) : e \in D}
Total(E, p) == Cardinality(UnitsOf(E, Drawn1(E, p)))

(* What one entry drew from p.                                             *)
Size(t, p) == IF t.row = "live" /\ t.from = p THEN t.consumed ELSE 0

(* An entry names a balance exactly when it drew.                          *)
Whole(t) == t.consumed = None <=> t.from = None

(* There are n numbers from 1 to n.                                        *)
LEMMA CountUpTo ==
  ASSUME NEW n \in Nat
  PROVE  IsFiniteSet(1 .. n) /\ Cardinality(1 .. n) = n
<1>1. IsFiniteSet(1 .. n) /\ Cardinality(1 .. n) = IF 1 > n THEN 0 ELSE n - 1 + 1
  BY FS_Interval
<1>2. (IF 1 > n THEN 0 ELSE n - 1 + 1) = n
  OBVIOUS
<1> QED BY <1>1, <1>2

LEMMA ConsumedNat ==
  ASSUME NEW t \in TimeEntry, Whole(t), NEW p \in Period, t.from = p
  PROVE  t.consumed \in Nat
<1>1. p # None
  BY HoursAssumption DEF Period
<1> QED BY <1>1 DEF Whole, TimeEntry

(* The units of finitely many drawers are finitely many.                   *)
LEMMA UnitsFinite ==
  ASSUME NEW E, NEW D \in SUBSET Entry, \A e \in D : E[e].consumed \in Nat
  PROVE  IsFiniteSet(UnitsOf(E, D))
<1> DEFINE T == {{e} \X (1 .. E[e].consumed) : e \in D}
           f == [e \in D |-> {e} \X (1 .. E[e].consumed)]
<1>1. f \in Surjection(D, T)
  BY DEF Surjection
<1>2. IsFiniteSet(D)
  BY HoursAssumption, FS_Subset
<1>3. IsFiniteSet(T)
  <2> HIDE DEF f, T
  <2> QED BY <1>1, <1>2, FS_Surjection
<1>4. \A U \in T : IsFiniteSet(U)
  <2>1. SUFFICES ASSUME NEW e \in D PROVE IsFiniteSet({e} \X (1 .. E[e].consumed))
    OBVIOUS
  <2>2. IsFiniteSet({e})
    BY FS_Singleton
  <2>3. IsFiniteSet(1 .. E[e].consumed)
    BY FS_Interval
  <2> QED BY <2>2, <2>3, FS_Product
<1>5. IsFiniteSet(UNION T)
  <2> HIDE DEF T
  <2> QED BY <1>3, <1>4, FS_UNION
<1> QED BY <1>5 DEF UnitsOf

(* One entry's part of a total stands beside the others'.                  *)
LEMMA TotalSplits ==
  ASSUME NEW E \in [Entry -> TimeEntry], \A x \in Entry : Whole(E[x]),
         NEW e \in Entry, NEW p \in Period
  PROVE  LET rest == UnitsOf(E, Drawn1(E, p) \ {e})
         IN /\ Cardinality(rest) \in Nat
            /\ Size(E[e], p) \in Nat
            /\ Total(E, p) = Cardinality(rest) + Size(E[e], p)
<1> DEFINE D == Drawn1(E, p)
           n == E[e].consumed
           rest == UnitsOf(E, D \ {e})
           own == {e} \X (1 .. n)
<1>1. \A x \in D : E[x].consumed \in Nat
  BY ConsumedNat DEF Drawn1
<1>2. IsFiniteSet(rest) /\ Cardinality(rest) \in Nat
  <2>1. D \ {e} \in SUBSET Entry /\ \A x \in D \ {e} : E[x].consumed \in Nat
    BY <1>1 DEF Drawn1
  <2>2. IsFiniteSet(rest)
    BY <2>1, UnitsFinite
  <2> QED BY <2>2, FS_CardinalityType
<1>3. CASE e \in D
  <2>1. n \in Nat
    BY <1>1, <1>3
  <2>2. IsFiniteSet(own) /\ Cardinality(own) = n
    <3>1. IsFiniteSet({e}) /\ Cardinality({e}) = 1
      BY FS_Singleton
    <3>2. IsFiniteSet(1 .. n) /\ Cardinality(1 .. n) = n
      BY <2>1, CountUpTo
    <3>3. IsFiniteSet(own) /\ Cardinality(own) = Cardinality({e}) * Cardinality(1 .. n)
      BY <3>1, <3>2, FS_Product
    <3> QED BY <2>1, <3>1, <3>2, <3>3
  <2>3. UnitsOf(E, D) = rest \cup own
    BY <1>3 DEF UnitsOf
  <2>4. rest \cap own = {}
    BY DEF UnitsOf
  <2>5. Cardinality(rest \cup own)
          = Cardinality(rest) + Cardinality(own) - Cardinality(rest \cap own)
    BY <1>2, <2>2, FS_Union
  <2>6. Cardinality(rest \cap own) = 0
    BY <2>4, FS_EmptySet
  <2>7. Size(E[e], p) = n
    BY <1>3 DEF Size, Drawn1
  <2> HIDE DEF rest, own, n
  <2>8. Total(E, p) = Cardinality(rest) + Size(E[e], p)
    BY <1>2, <2>1, <2>2, <2>3, <2>5, <2>6, <2>7 DEF Total
  <2> QED BY <1>2, <2>1, <2>7, <2>8 DEF rest
<1>4. CASE e \notin D
  <2>1. D \ {e} = D
    BY <1>4
  <2>2. Size(E[e], p) = 0
    BY <1>4 DEF Size, Drawn1
  <2> QED BY <1>2, <2>1, <2>2 DEF Total
<1> QED BY <1>3, <1>4

(* What a change of one entry does to a total.                             *)
LEMMA TotalChanges ==
  ASSUME NEW E \in [Entry -> TimeEntry], \A x \in Entry : Whole(E[x]),
         NEW e \in Entry, NEW t \in TimeEntry, Whole(t), NEW p \in Period
  PROVE  /\ Total(E, p) \in Nat
         /\ Size(E[e], p) \in Nat
         /\ Size(t, p) \in Nat
         /\ Size(E[e], p) <= Total(E, p)
         /\ Total([E EXCEPT ![e] = t], p) = Total(E, p) - Size(E[e], p) + Size(t, p)
<1> DEFINE F == [E EXCEPT ![e] = t]
           restE == UnitsOf(E, Drawn1(E, p) \ {e})
           restF == UnitsOf(F, Drawn1(F, p) \ {e})
<1>1. F \in [Entry -> TimeEntry] /\ F[e] = t
  OBVIOUS
<1>2. \A x \in Entry : Whole(F[x])
  OBVIOUS
<1>3. restE = restF
  <2>1. Drawn1(E, p) \ {e} = Drawn1(F, p) \ {e}
    BY DEF Drawn1
  <2>2. \A x \in Drawn1(E, p) \ {e} : F[x].consumed = E[x].consumed
    BY DEF Drawn1
  <2> QED BY <2>1, <2>2 DEF UnitsOf
<1>4. /\ Cardinality(restE) \in Nat
      /\ Size(E[e], p) \in Nat
      /\ Total(E, p) = Cardinality(restE) + Size(E[e], p)
  BY TotalSplits
<1>5. /\ Size(F[e], p) \in Nat
      /\ Total(F, p) = Cardinality(restF) + Size(F[e], p)
  <2> HIDE DEF F
  <2> QED BY <1>1, <1>2, TotalSplits
<1> HIDE DEF F, restE, restF
<1>6. /\ Total(E, p) \in Nat
      /\ Size(t, p) \in Nat
      /\ Size(E[e], p) <= Total(E, p)
      /\ Total(F, p) = Total(E, p) - Size(E[e], p) + Size(t, p)
  BY <1>1, <1>3, <1>4, <1>5
<1> QED BY <1>4, <1>6 DEF F

LEMMA DrawnIsTotal ==
  ASSUME NEW p
  PROVE  /\ DrawnFrom(p) = Total(entry, p)
         /\ DrawnFrom(p)' = Total(entry', p)
BY DEF DrawnFrom, DrawnUnits, Drawers, Total, UnitsOf, Drawn1

-----------------------------------------------------------------------------
(* The inductive invariant.                                                *)

(* A request in flight is about an entry.                                  *)
Named == \A r \in Request : req[r].pc # "idle" => req[r].entry \in Entry

WholeStamps == \A e \in Entry : Whole(entry[e])

(* An entry that some invoice charges is marked so, or is gone for good.   *)
Marked(t) == t.row = "deleted" \/ (t.row = "live" /\ t.invoice # None)
ChargedAreMarked == \A l \in lines : Marked(entry[l.entry])

(* One balance row.                                                        *)
BalanceOK(b) ==
  /\ b \in Balance
  /\ b.row => b.used + b.remaining = b.included /\ b.included = Included + b.rollover
  /\ ~b.row => b.used = 0
  /\ Cap # None => b.rollover <= Cap

(* The variables that are neither entries, balances nor lines.             *)
RestOK ==
  /\ contract \in [status : {"active", "expired", "renewed"}, start : Period, end : Nat]
  /\ today \in Period
  /\ req \in [Request -> [pc : Pcs, entry : Entry \cup {None},
                         status : {"not_billed", "ready_to_bill", "billed", "prepaid"},
                         period : Period]]
  /\ run \in Period \cup {None}
  /\ Named

HInv ==
  /\ entry \in [Entry -> TimeEntry]
  /\ balance \in [Period -> Balance]
  /\ lines \subseteq [invoice : Invoice, entry : Entry, hours : Nat]
  /\ RestOK
  /\ \A p \in Period : BalanceOK(balance[p])
  /\ WholeStamps
  /\ ChargedAreMarked
  /\ ChargedOnce
  /\ DrawsAreBacked

(* The invariant gives the properties the runs check.                      *)
LEMMA InvGives ==
  HInv => HoursTypeOK /\ BalanceExact /\ RolloverCapped /\ DrawsAreBacked /\ ChargedOnce
BY DEF HInv, RestOK, HoursTypeOK, BalanceExact, RolloverCapped, BalanceOK

LEMMA InitHInv == Init => HInv
<1> SUFFICES ASSUME Init PROVE HInv
  OBVIOUS
<1>1. 1 \in Period /\ TermEnd \in Nat
  BY HoursAssumption DEF Period
<1>2. NoEntry \in TimeEntry /\ Whole(NoEntry)
  BY <1>1 DEF NoEntry, TimeEntry, Whole
<1>3. BalanceOK(NoBalance)
  BY HoursAssumption DEF BalanceOK, NoBalance, Balance
<1>4. RestOK
  BY <1>1 DEF Init, RestOK, Named, Idle, Pcs
<1>5. /\ entry \in [Entry -> TimeEntry]
      /\ balance \in [Period -> Balance]
      /\ WholeStamps
      /\ \A p \in Period : BalanceOK(balance[p])
  BY <1>2, <1>3 DEF Init, WholeStamps, BalanceOK
<1>6. DrawsAreBacked
  <2>1. SUFFICES ASSUME NEW p \in Period PROVE DrawnFrom(p) <= balance[p].used
    BY DEF DrawsAreBacked
  <2>2. Drawers(p) = {}
    BY DEF Init, Drawers, NoEntry
  <2>3. DrawnUnits(p) = {}
    BY <2>2 DEF DrawnUnits
  <2>4. DrawnFrom(p) = 0
    BY <2>3, FS_EmptySet DEF DrawnFrom
  <2> QED BY <2>4 DEF Init, NoBalance
<1> QED BY <1>4, <1>5, <1>6 DEF Init, HInv, ChargedAreMarked, ChargedOnce

-----------------------------------------------------------------------------
(* The shapes of a step.                                                   *)

(* No table changes.                                                       *)
LEMMA TablesUnchanged ==
  ASSUME HInv, UNCHANGED <<entry, balance, lines>>, RestOK'
  PROVE  HInv'
<1>1. \A p \in Period : DrawnFrom(p)' = DrawnFrom(p)
  BY DEF DrawnFrom, DrawnUnits, Drawers
<1> QED BY <1>1 DEF HInv, BalanceOK, WholeStamps, ChargedAreMarked, Marked,
                    ChargedOnce, DrawsAreBacked

(* One entry changes, and the balances with it.                            *)
LEMMA EntryChanges ==
  ASSUME HInv, NEW e \in Entry, NEW t \in TimeEntry, Whole(t),
         entry' = [entry EXCEPT ![e] = t],
         Marked(entry[e]) => Marked(t),
         balance' \in [Period -> Balance],
         \A p \in Period : BalanceOK(balance'[p]),
         \A p \in Period : Size(t, p) - Size(entry[e], p)
                              <= balance'[p].used - balance[p].used,
         lines' = lines, RestOK'
  PROVE  HInv'
<1>1. entry' \in [Entry -> TimeEntry] /\ WholeStamps'
  BY DEF HInv, WholeStamps
<1>2. ChargedAreMarked' /\ ChargedOnce'
  BY DEF HInv, ChargedAreMarked, ChargedOnce
<1>3. DrawsAreBacked'
  <2>1. SUFFICES ASSUME NEW p \in Period PROVE DrawnFrom(p)' <= balance'[p].used
    BY DEF DrawsAreBacked
  <2>2. /\ Total(entry, p) \in Nat /\ Size(entry[e], p) \in Nat /\ Size(t, p) \in Nat
        /\ Total(entry', p) = Total(entry, p) - Size(entry[e], p) + Size(t, p)
    BY TotalChanges DEF HInv, WholeStamps
  <2>3. Total(entry, p) <= balance[p].used
    BY DrawnIsTotal DEF HInv, DrawsAreBacked
  <2>4. balance[p].used \in Nat /\ balance'[p].used \in Nat
    BY DEF HInv, Balance
  <2>5. Total(entry', p) <= balance'[p].used
    BY <2>2, <2>3, <2>4
  <2> QED BY <2>5, DrawnIsTotal
<1> QED BY <1>1, <1>2, <1>3 DEF HInv, BalanceOK

(* An entry never says that it drew more than its balance has as used.     *)
LEMMA SizeBacked ==
  ASSUME HInv, NEW e \in Entry, NEW p \in Period
  PROVE  Size(entry[e], p) \in Nat /\ Size(entry[e], p) <= balance[p].used
<1>1. /\ Total(entry, p) \in Nat /\ Size(entry[e], p) \in Nat
      /\ Size(entry[e], p) <= Total(entry, p)
  BY TotalChanges DEF HInv, WholeStamps
<1>2. Total(entry, p) <= balance[p].used
  BY DrawnIsTotal DEF HInv, DrawsAreBacked
<1>3. balance[p].used \in Nat
  BY DEF HInv, Balance
<1> QED BY <1>1, <1>2, <1>3

RequestRecord ==
  [pc : Pcs, entry : Entry \cup {None},
   status : {"not_billed", "ready_to_bill", "billed", "prepaid"}, period : Period]

(* One request moves.                                                      *)
LEMMA RequestMoves ==
  ASSUME HInv, NEW r \in Request, NEW q \in RequestRecord,
         q.pc # "idle" => q.entry \in Entry,
         req' = [req EXCEPT ![r] = q],
         UNCHANGED <<contract, today, run>>
  PROVE  RestOK'
BY DEF HInv, RestOK, Named, RequestRecord

LEMMA IdleFacts ==
  /\ Idle \in RequestRecord
  /\ Idle.pc = "idle"
  /\ \A c \in Pcs, e \in Entry :
       LET q == [Idle EXCEPT !.pc = c, !.entry = e]
       IN q \in RequestRecord /\ q.entry = e
<1>1. 1 \in Period
  BY HoursAssumption DEF Period
<1> QED BY <1>1 DEF Idle, RequestRecord, Pcs

(* A request that ends leaves the rest as it should be.                    *)
LEMMA RequestEnds ==
  ASSUME HInv, NEW r \in Request, req' = [req EXCEPT ![r] = Idle],
         UNCHANGED <<contract, today, run>>
  PROVE  RestOK'
BY IdleFacts, RequestMoves

(* A request goes on to its next transaction.                              *)
LEMMA RequestGoesOn ==
  ASSUME HInv, NEW r \in Request, NEW c \in Pcs, req[r].pc # "idle",
         req' = [req EXCEPT ![r].pc = c],
         UNCHANGED <<contract, today, run>>
  PROVE  RestOK'
<1> DEFINE q == [req[r] EXCEPT !.pc = c]
<1>1. req[r] \in RequestRecord
  BY DEF HInv, RestOK, RequestRecord
<1>2. q \in RequestRecord /\ q.entry = req[r].entry
  BY <1>1 DEF RequestRecord
<1>3. req[r].entry \in Entry
  BY DEF HInv, RestOK, Named
<1>4. req' = [req EXCEPT ![r] = q]
  OBVIOUS
<1> HIDE DEF q
<1> QED BY <1>2, <1>3, <1>4, RequestMoves

(* A step that touches neither balances nor stamps.                        *)
LEMMA StampKept ==
  ASSUME HInv, NEW e \in Entry, NEW t \in TimeEntry,
         entry' = [entry EXCEPT ![e] = t],
         t.row = entry[e].row,
         t.consumed = entry[e].consumed, t.from = entry[e].from,
         t.invoice = entry[e].invoice,
         UNCHANGED <<balance, lines>>, RestOK'
  PROVE  HInv'
<1>1. Whole(t)
  BY DEF HInv, WholeStamps, Whole
<1>2. Marked(entry[e]) => Marked(t)
  BY DEF Marked
<1>3. \A p \in Period : Size(t, p) = Size(entry[e], p)
  BY DEF Size
<1>4. \A p \in Period : Size(t, p) - Size(entry[e], p) <= balance'[p].used - balance[p].used
  BY <1>3, SizeBacked DEF HInv, Balance
<1>5. balance' \in [Period -> Balance] /\ \A p \in Period : BalanceOK(balance'[p])
  BY DEF HInv
<1> QED BY <1>1, <1>2, <1>4, <1>5, EntryChanges

-----------------------------------------------------------------------------
(* One lemma per action that changes a table.                              *)

LEMMA CreateInv ==
  ASSUME HInv, NEW r \in Request, NEW e \in Entry, NEW p \in Period,
         NEW h \in Hours, NEW b \in BOOLEAN, CreateEntry(r, e, p, h, b)
  PROVE  HInv'
<1> DEFINE c == b /\ Covers(p)
           st == BillingStatus(b, None)
           t == [NoEntry EXCEPT !.row = "live", !.period = p, !.hours = h,
                                !.billable = b, !.contract = c, !.status = st]
           q == [Idle EXCEPT !.pc = "consume", !.entry = e]
<1>1. RestOK'
  <2>1. q \in RequestRecord /\ q.entry = e
    BY IdleFacts DEF Pcs
  <2>2. req' = [req EXCEPT ![r] = q] /\ UNCHANGED <<contract, today, run>>
    BY DEF CreateEntry
  <2> HIDE DEF q
  <2> QED BY <2>1, <2>2, RequestMoves
<1>2. c \in BOOLEAN /\ h \in Nat /\ st \in {"not_billed", "ready_to_bill", "billed"}
  BY HoursAssumption DEF Covers, BillingStatus
<1>3. entry' = [entry EXCEPT ![e] = t]
  BY DEF CreateEntry
<1> HIDE DEF c, st
<1>4. t \in TimeEntry /\ t.consumed = None /\ t.from = None /\ t.row = "live"
  BY <1>2, HoursAssumption DEF NoEntry, TimeEntry, Period
<1> HIDE DEF t
<1>5. Whole(t)
  BY <1>4 DEF Whole
<1>6. ~Marked(entry[e])
  BY DEF CreateEntry, Marked
<1>7. \A x \in Period : x # None
  BY HoursAssumption DEF Period
<1>8. \A x \in Period : Size(t, x) = 0 /\ Size(entry[e], x) = 0
  BY <1>4, <1>7 DEF Size, CreateEntry
<1>9. balance' = balance /\ lines' = lines
  BY DEF CreateEntry
<1>10. \A x \in Period : Size(t, x) - Size(entry[e], x) <= balance'[x].used - balance[x].used
  BY <1>8, <1>9 DEF HInv, Balance
<1>11. balance' \in [Period -> Balance] /\ \A x \in Period : BalanceOK(balance'[x])
  BY <1>9 DEF HInv
<1> QED BY <1>1, <1>3, <1>4, <1>5, <1>6, <1>9, <1>10, <1>11, EntryChanges

LEMMA BillingStatusTyped ==
  ASSUME NEW b, NEW current
  PROVE  BillingStatus(b, current) \in {"not_billed", "ready_to_bill", "billed"}
BY DEF BillingStatus

LEMMA UpdateInv ==
  ASSUME HInv, NEW r \in Request, NEW d \in Period \cup {None},
         NEW h \in Hours, NEW b \in BOOLEAN, FinishUpdate(r, d, h, b)
  PROVE  HInv'
<1> DEFINE e == req[r].entry
           pd == IF d = None THEN entry[e].period ELSE d
           c == b /\ Covers(IF d = None THEN req[r].period ELSE d)
           st == BillingStatus(b, req[r].status)
           t == [entry[e] EXCEPT !.period = pd, !.hours = h, !.billable = b,
                                 !.contract = c, !.status = st]
           q == [Idle EXCEPT !.pc = "release", !.entry = e]
<1>0. e \in Entry
  BY DEF HInv, RestOK, Named, FinishUpdate
<1>1. RestOK'
  <2>1. q \in RequestRecord /\ q.entry = e
    BY <1>0, IdleFacts DEF Pcs
  <2>2. req' = [req EXCEPT ![r] = q] /\ UNCHANGED <<contract, today, run>>
    BY DEF FinishUpdate
  <2> HIDE DEF q
  <2> QED BY <1>0, <2>1, <2>2, RequestMoves
<1>2. entry[e] \in TimeEntry
  BY <1>0 DEF HInv
<1>3. /\ c \in BOOLEAN /\ h \in Nat /\ pd \in Period
      /\ st \in {"not_billed", "ready_to_bill", "billed"}
  <2>1. c \in BOOLEAN
    BY Zenon DEF Covers
  <2>2. h \in Nat /\ pd \in Period
    BY <1>2, HoursAssumption DEF TimeEntry
  <2>3. st \in {"not_billed", "ready_to_bill", "billed"}
    BY BillingStatusTyped
  <2> QED BY <2>1, <2>2, <2>3
<1>4. entry' = [entry EXCEPT ![e] = t]
  BY <1>2 DEF FinishUpdate, HInv, TimeEntry
<1>5. balance' = balance /\ lines' = lines
  BY DEF FinishUpdate
<1> HIDE DEF c, st, pd, e
<1>6. /\ t \in TimeEntry /\ t.row = entry[e].row /\ t.consumed = entry[e].consumed
      /\ t.from = entry[e].from /\ t.invoice = entry[e].invoice
  BY <1>2, <1>3 DEF TimeEntry
<1> HIDE DEF t
<1> QED BY <1>0, <1>1, <1>4, <1>5, <1>6, StampKept

LEMMA DeleteInv ==
  ASSUME HInv, NEW r \in Request, DeleteEntry(r)
  PROVE  HInv'
<1> DEFINE e == req[r].entry
           t == [NoEntry EXCEPT !.row = "deleted"]
<1>1. e \in Entry
  BY DEF HInv, RestOK, Named, DeleteEntry
<1>2. RestOK'
  BY RequestEnds DEF DeleteEntry
<1>3. t \in TimeEntry /\ t.consumed = None /\ t.from = None /\ t.row = "deleted"
  <2>1. 1 \in Period
    BY HoursAssumption DEF Period
  <2> QED BY <2>1 DEF NoEntry, TimeEntry
<1>4. entry' = [entry EXCEPT ![e] = t] /\ balance' = balance /\ lines' = lines
  BY DEF DeleteEntry
<1> HIDE DEF e, t
<1>5. Whole(t) /\ Marked(t)
  BY <1>3 DEF Whole, Marked
<1>6. \A p \in Period : Size(t, p) = 0
  BY <1>3 DEF Size
<1>7. \A p \in Period : Size(t, p) - Size(entry[e], p) <= balance'[p].used - balance[p].used
  BY <1>1, <1>4, <1>6, SizeBacked DEF HInv, Balance
<1>8. balance' \in [Period -> Balance] /\ \A p \in Period : BalanceOK(balance'[p])
  BY <1>4 DEF HInv
<1> QED BY <1>1, <1>2, <1>3, <1>4, <1>5, <1>7, <1>8, EntryChanges

(* What a draw does to a balance and to the entry.                         *)
LEMMA DrawFacts ==
  ASSUME NEW b, BalanceOK(b), b.row, NEW t \in TimeEntry
  PROVE  /\ BalanceOK(Drawn(b, t.hours))
         /\ Drawn(b, t.hours).used = b.used + Lesser(t.hours, b.remaining)
         /\ Stamped(t, b) \in TimeEntry
         /\ Stamped(t, b).consumed = Lesser(t.hours, b.remaining)
         /\ Stamped(t, b).from = t.period
         /\ Stamped(t, b).row = t.row
         /\ Stamped(t, b).invoice = t.invoice
         /\ Lesser(t.hours, b.remaining) \in Nat
<1> DEFINE a == Lesser(t.hours, b.remaining)
           u == b.used + a
           m == b.remaining - a
           v == t.hours - a
           st == IF v > 0 \/ t.status # "ready_to_bill" THEN t.status ELSE "prepaid"
<1>1. b \in Balance /\ b.used \in Nat /\ b.remaining \in Nat /\ t.hours \in Nat
  BY DEF BalanceOK, Balance, TimeEntry
<1>2. a \in Nat /\ a <= t.hours /\ a <= b.remaining
  BY <1>1 DEF Lesser
<1>3. u \in Nat /\ m \in Nat /\ v \in Nat /\ u + m = b.used + b.remaining
  BY <1>1, <1>2
<1>4. st \in {"not_billed", "ready_to_bill", "billed", "prepaid"}
  BY DEF TimeEntry
<1>5. Drawn(b, t.hours) = [b EXCEPT !.used = u, !.remaining = m]
  BY <1>1 DEF Drawn, Balance
<1>6. Stamped(t, b) = [t EXCEPT !.consumed = a, !.from = t.period,
                                !.overage = v, !.status = st]
  BY DEF Stamped, TimeEntry
<1> HIDE DEF a, u, m, v, st
<1>7. LET d == [b EXCEPT !.used = u, !.remaining = m]
      IN /\ d \in Balance /\ d.row = b.row /\ d.used = u /\ d.remaining = m
         /\ d.included = b.included /\ d.rollover = b.rollover
  BY <1>1, <1>3 DEF Balance
<1>8. LET n == [t EXCEPT !.consumed = a, !.from = t.period, !.overage = v, !.status = st]
      IN /\ n \in TimeEntry /\ n.consumed = a /\ n.from = t.period
         /\ n.row = t.row /\ n.invoice = t.invoice
  BY <1>2, <1>3, <1>4 DEF TimeEntry
<1>9. BalanceOK(Drawn(b, t.hours)) /\ Drawn(b, t.hours).used = u
  BY <1>3, <1>5, <1>7 DEF BalanceOK
<1> QED BY <1>2, <1>6, <1>8, <1>9 DEF a, u

(* A draw from balance b, which is the period's row or a fresh one.        *)
LEMMA DrawFromInv ==
  ASSUME HInv, NEW r \in Request, req[r].pc # "idle", NEW b,
         BalanceOK(b), b.row, b.used = balance[entry[req[r].entry].period].used,
         DrawFrom(r, b)
  PROVE  HInv'
<1> DEFINE e == req[r].entry
           t == entry[e]
           n == Stamped(t, b)
           a == Lesser(t.hours, b.remaining)
           nb == Drawn(b, t.hours)
<1>1. e \in Entry /\ t \in TimeEntry
  BY DEF HInv, RestOK, Named
<1>2. t.period \in Period
  BY <1>1 DEF TimeEntry
<1>3. RestOK'
  BY RequestEnds DEF DrawFrom
<1>4. /\ entry' = [entry EXCEPT ![e] = n]
      /\ balance' = [balance EXCEPT ![t.period] = nb]
      /\ lines' = lines
  BY DEF DrawFrom
<1>5. /\ BalanceOK(nb) /\ nb.used = b.used + a
      /\ n \in TimeEntry /\ n.consumed = a /\ n.from = t.period
      /\ n.row = t.row /\ n.invoice = t.invoice /\ a \in Nat
  BY <1>1, DrawFacts
<1>6. b.used = balance[t.period].used
  OBVIOUS
<1> HIDE DEF n, a, nb, t, e
<1>7. Whole(n)
  BY <1>2, <1>5, HoursAssumption DEF Whole, Period
<1>8. Marked(entry[e]) => Marked(n)
  BY <1>5 DEF Marked, t
<1>9. balance' \in [Period -> Balance] /\ \A p \in Period : BalanceOK(balance'[p])
  BY <1>2, <1>4, <1>5 DEF HInv, BalanceOK
<1>10. ASSUME NEW p \in Period
       PROVE  Size(n, p) - Size(entry[e], p) <= balance'[p].used - balance[p].used
  <2>1. Size(entry[e], p) \in Nat /\ balance[p].used \in Nat
    BY <1>1, SizeBacked DEF HInv, Balance
  <2>2. CASE p = t.period
    <3>1. balance'[p].used = balance[p].used + a
      BY <1>2, <1>4, <1>5, <1>6, <2>2 DEF HInv
    <3>2. Size(n, p) \in Nat /\ Size(n, p) <= a
      BY <1>5 DEF Size
    <3> QED BY <1>5, <2>1, <3>1, <3>2
  <2>3. CASE p # t.period
    <3>1. balance'[p].used = balance[p].used
      BY <1>4, <2>3 DEF HInv
    <3>2. Size(n, p) = 0
      BY <1>5, <2>3 DEF Size
    <3> QED BY <2>1, <3>1, <3>2
  <2> QED BY <2>2, <2>3
<1> QED BY <1>1, <1>3, <1>4, <1>5, <1>7, <1>8, <1>9, <1>10, EntryChanges

LEMMA NewBalanceOK ==
  ASSUME NEW x \in Nat, Cap # None => x <= Cap
  PROVE  /\ BalanceOK(NewBalance(x)) /\ NewBalance(x).row /\ NewBalance(x).used = 0
BY HoursAssumption DEF BalanceOK, NewBalance, Balance

LEMMA DrawInv ==
  ASSUME HInv, NEW r \in Request, Draw(r) \/ SeedAndDraw(r)
  PROVE  HInv'
<1> DEFINE p == entry[req[r].entry].period
<1>1. req[r].pc # "idle"
  BY DEF Draw, SeedAndDraw
<1>2. p \in Period
  BY <1>1 DEF HInv, RestOK, Named, TimeEntry
<1>3. BalanceOK(balance[p])
  BY <1>2 DEF HInv
<1>4. CASE Draw(r)
  BY <1>1, <1>3, <1>4, DrawFromInv DEF Draw
<1>5. CASE SeedAndDraw(r)
  <2>1. /\ BalanceOK(NewBalance(0)) /\ NewBalance(0).row
        /\ NewBalance(0).used = 0
    BY NewBalanceOK, HoursAssumption
  <2>2. balance[p].used = 0
    BY <1>3, <1>5 DEF SeedAndDraw, BalanceOK
  <2> QED BY <1>1, <1>5, <2>1, <2>2, DrawFromInv DEF SeedAndDraw
<1> QED BY <1>4, <1>5

(* What a release does to a balance that has the hours as used.            *)
LEMMA ReleaseFacts ==
  ASSUME NEW b, BalanceOK(b), NEW c \in Nat, c <= b.used
  PROVE  BalanceOK(Released(b, c)) /\ Released(b, c).used = b.used - c
<1> DEFINE u == b.used - c
           m == b.remaining + c
<1>1. b \in Balance /\ b.used \in Nat /\ b.remaining \in Nat
  BY DEF BalanceOK, Balance
<1>2. u \in Nat /\ m \in Nat /\ u + m = b.used + b.remaining
  BY <1>1
<1>3. Released(b, c) = [b EXCEPT !.used = u, !.remaining = m]
  BY <1>1 DEF Released, Lesser, Balance
<1>4. b.used = 0 => u = 0
  BY <1>1
<1> HIDE DEF u, m
<1>5. LET d == [b EXCEPT !.used = u, !.remaining = m]
      IN /\ d \in Balance /\ d.row = b.row /\ d.used = u /\ d.remaining = m
         /\ d.included = b.included /\ d.rollover = b.rollover
  BY <1>1, <1>2 DEF Balance
<1>6. BalanceOK(Released(b, c))
  BY <1>2, <1>3, <1>4, <1>5 DEF BalanceOK
<1> QED BY <1>3, <1>5, <1>6 DEF u

LEMMA ForgetFacts ==
  ASSUME NEW t \in TimeEntry
  PROVE  /\ Forget(t) \in TimeEntry /\ Forget(t).consumed = None
         /\ Forget(t).from = None /\ Forget(t).row = t.row
         /\ Forget(t).invoice = t.invoice
<1> DEFINE st == IF t.status = "prepaid" THEN "ready_to_bill" ELSE t.status
<1>1. st \in {"not_billed", "ready_to_bill", "billed", "prepaid"}
  BY DEF TimeEntry
<1>2. Forget(t) = [t EXCEPT !.consumed = None, !.from = None, !.overage = 0,
                            !.status = st]
  BY DEF Forget, TimeEntry
<1> HIDE DEF st
<1>3. LET n == [t EXCEPT !.consumed = None, !.from = None, !.overage = 0, !.status = st]
      IN /\ n \in TimeEntry /\ n.consumed = None /\ n.from = None
         /\ n.row = t.row /\ n.invoice = t.invoice
  BY <1>1 DEF TimeEntry
<1> QED BY <1>2, <1>3

LEMMA ReleaseInv ==
  ASSUME HInv, NEW r \in Request, Release(r)
  PROVE  HInv'
<1> DEFINE e == req[r].entry
           t == entry[e]
           n == Forget(t)
           nb == Released(balance[t.from], t.consumed)
<1>1. e \in Entry /\ t \in TimeEntry /\ Whole(t)
  BY DEF HInv, RestOK, Named, WholeStamps, Release
<1>2. t.row = "live" /\ t.consumed # None
  BY DEF Release, Drew
<1>3. t.from \in Period /\ t.consumed \in Nat
  BY <1>1, <1>2 DEF Whole, TimeEntry
<1>4. RestOK'
  <2>1. AfterRelease(r) \in Pcs
    BY DEF AfterRelease, Pcs
  <2>2. req[r].pc # "idle" /\ req' = [req EXCEPT ![r].pc = AfterRelease(r)]
        /\ UNCHANGED <<contract, today, run>>
    BY DEF Release
  <2> QED BY <2>1, <2>2, RequestGoesOn
<1>5. /\ entry' = [entry EXCEPT ![e] = n]
      /\ balance' = [balance EXCEPT ![t.from] = nb]
      /\ lines' = lines
  BY DEF Release
<1>6. Size(t, t.from) = t.consumed
  BY <1>2 DEF Size
<1>7. t.consumed <= balance[t.from].used
  BY <1>1, <1>3, <1>6, SizeBacked
<1>8. BalanceOK(nb) /\ nb.used = balance[t.from].used - t.consumed
  BY <1>3, <1>7, ReleaseFacts DEF HInv
<1>9. /\ n \in TimeEntry /\ n.consumed = None /\ n.from = None
      /\ n.row = t.row /\ n.invoice = t.invoice
  BY <1>1, ForgetFacts
<1> HIDE DEF n, nb, t, e
<1>10. Whole(n)
  BY <1>9 DEF Whole
<1>11. Marked(entry[e]) => Marked(n)
  BY <1>9 DEF Marked, t
<1>12. balance' \in [Period -> Balance] /\ \A p \in Period : BalanceOK(balance'[p])
  BY <1>3, <1>5, <1>8 DEF HInv, BalanceOK
<1>13. ASSUME NEW p \in Period
       PROVE  Size(n, p) - Size(entry[e], p) <= balance'[p].used - balance[p].used
  <2>1. Size(entry[e], p) \in Nat /\ balance[p].used \in Nat
    BY <1>1, SizeBacked DEF HInv, Balance
  <2>2. Size(n, p) = 0
    BY <1>9, HoursAssumption DEF Size, Period
  <2>3. CASE p = t.from
    <3>1. balance'[p].used = balance[p].used - t.consumed
      BY <1>3, <1>5, <1>8, <2>3 DEF HInv
    <3>2. Size(entry[e], p) = t.consumed
      BY <1>6, <2>3 DEF t
    <3> QED BY <1>3, <2>1, <2>2, <3>1, <3>2
  <2>4. CASE p # t.from
    <3>1. balance'[p].used = balance[p].used
      BY <1>5, <2>4 DEF HInv
    <3> QED BY <2>1, <2>2, <3>1
  <2> QED BY <2>3, <2>4
<1> QED BY <1>1, <1>4, <1>5, <1>9, <1>10, <1>11, <1>12, <1>13, EntryChanges

LEMMA BillInv ==
  ASSUME HInv, NEW n \in Invoice, NEW S \in SUBSET Entry, BillEntries(n, S)
  PROVE  HInv'
<1> DEFINE new == {[invoice |-> n, entry |-> e, hours |-> Charged(entry[e])] : e \in S}
<1>1. n # None
  BY HoursAssumption
<1>2. \A e \in Entry :
        /\ entry'[e] \in TimeEntry
        /\ entry'[e].row = entry[e].row
        /\ entry'[e].consumed = entry[e].consumed
        /\ entry'[e].from = entry[e].from
        /\ e \in S => entry'[e].invoice = n
        /\ e \notin S => entry'[e] = entry[e]
  <2>1. SUFFICES ASSUME NEW e \in Entry
                 PROVE  /\ entry'[e] \in TimeEntry
                        /\ entry'[e].row = entry[e].row
                        /\ entry'[e].consumed = entry[e].consumed
                        /\ entry'[e].from = entry[e].from
                        /\ e \in S => entry'[e].invoice = n
                        /\ e \notin S => entry'[e] = entry[e]
    OBVIOUS
  <2>2. entry[e] \in TimeEntry
    BY DEF HInv
  <2>3. CASE e \in S
    <3> DEFINE t == [entry[e] EXCEPT !.status = "billed", !.invoice = n]
    <3>1. entry'[e] = t
      BY <2>3 DEF BillEntries
    <3>2. /\ t \in TimeEntry /\ t.row = entry[e].row /\ t.consumed = entry[e].consumed
          /\ t.from = entry[e].from /\ t.invoice = n
      BY <2>2 DEF TimeEntry
    <3> QED BY <2>3, <3>1, <3>2
  <2>4. CASE e \notin S
    BY <2>2, <2>4 DEF BillEntries
  <2> QED BY <2>3, <2>4
<1>3. entry' \in [Entry -> TimeEntry]
  <2>1. DOMAIN entry' = Entry /\ entry' = [e \in Entry |-> entry'[e]]
    BY DEF BillEntries
  <2> QED BY <1>2, <2>1
<1>4. WholeStamps'
  BY <1>2 DEF HInv, WholeStamps, Whole
<1>5. \A e \in S : entry[e].row = "live" /\ entry[e].invoice = None
  BY DEF BillEntries, Free, Eligible
<1>6. lines' = lines \cup new
  BY DEF BillEntries
<1>7. \A l \in new : l \in [invoice : Invoice, entry : Entry, hours : Nat]
                      /\ l.entry \in S
  <2>1. \A e \in S : Charged(entry[e]) \in Nat
    BY DEF HInv, TimeEntry, Charged
  <2> QED BY <2>1
<1>8. \A l \in lines : l.entry \in Entry /\ l.entry \notin S
  BY <1>5 DEF HInv, ChargedAreMarked, Marked
<1>9. \A l, m \in new : l.entry = m.entry => l = m
  OBVIOUS
<1> HIDE DEF new
<1>10. lines' \subseteq [invoice : Invoice, entry : Entry, hours : Nat]
  BY <1>6, <1>7 DEF HInv
<1>11. ChargedAreMarked'
  <2>1. SUFFICES ASSUME NEW l \in lines' PROVE Marked(entry'[l.entry])
    BY DEF ChargedAreMarked, Marked
  <2>2. CASE l \in lines
    BY <1>2, <1>8, <2>2 DEF HInv, ChargedAreMarked
  <2>3. CASE l \in new
    <3>1. l.entry \in S /\ l.entry \in Entry
      BY <1>7, <2>3
    <3> QED BY <1>1, <1>2, <1>5, <3>1 DEF Marked
  <2> QED BY <1>6, <2>1, <2>2, <2>3
<1>12. ChargedOnce'
  <2>1. SUFFICES ASSUME NEW l \in lines', NEW m \in lines', l.entry = m.entry
                 PROVE  l = m
    BY DEF ChargedOnce
  <2>2. CASE l \in lines /\ m \in lines
    BY <2>1, <2>2 DEF HInv, ChargedOnce
  <2>3. CASE l \in new /\ m \in new
    BY <1>9, <2>1, <2>3
  <2>4. ~(l \in lines /\ m \in new) /\ ~(l \in new /\ m \in lines)
    BY <1>7, <1>8, <2>1
  <2> QED BY <1>6, <2>2, <2>3, <2>4
<1>13. DrawsAreBacked'
  <2>1. SUFFICES ASSUME NEW p \in Period PROVE DrawnFrom(p)' <= balance'[p].used
    BY DEF DrawsAreBacked
  <2>2. Drawn1(entry', p) = Drawn1(entry, p)
    BY <1>2 DEF Drawn1
  <2>3. UnitsOf(entry', Drawn1(entry', p)) = UnitsOf(entry, Drawn1(entry, p))
    BY <1>2, <2>2 DEF UnitsOf, Drawn1
  <2>4. DrawnFrom(p)' = DrawnFrom(p)
    BY <2>3, DrawnIsTotal DEF Total
  <2> QED BY <2>4 DEF HInv, DrawsAreBacked, BillEntries
<1>14. RestOK'
  BY DEF HInv, RestOK, Named, BillEntries
<1>15. balance' = balance
  BY DEF BillEntries
<1> QED BY <1>3, <1>4, <1>10, <1>11, <1>12, <1>13, <1>14, <1>15 DEF HInv, BalanceOK

(* What the upsert of a roll does to a balance.                            *)
LEMMA RollFacts ==
  ASSUME NEW b, BalanceOK(b), NEW x \in Nat, Cap # None => x <= Cap
  PROVE  BalanceOK(RollBalance(b, x)) /\ RollBalance(b, x).used = b.used
<1>1. CASE ~b.row
  BY <1>1, NewBalanceOK DEF RollBalance, BalanceOK
<1>2. CASE b.row /\ b.rollover = 0
  <2> DEFINE i == b.included + x
             m == b.remaining + x
             o == b.rollover + x
             d == [b EXCEPT !.included = i, !.remaining = m, !.rollover = o]
  <2>1. b \in Balance /\ b.used \in Nat /\ b.remaining \in Nat /\ b.included \in Nat
        /\ b.rollover \in Nat
    BY DEF BalanceOK, Balance
  <2>2. /\ i \in Nat /\ m \in Nat /\ o \in Nat /\ b.used + m = i
        /\ i = Included + o /\ o = x
    BY <1>2, <2>1, HoursAssumption DEF BalanceOK
  <2>3. RollBalance(b, x) = d
    BY <1>2, <2>1 DEF RollBalance, Balance
  <2> HIDE DEF i, m, o
  <2>4. /\ d \in Balance /\ d.row = b.row /\ d.used = b.used /\ d.remaining = m
        /\ d.included = i /\ d.rollover = o
    BY <2>1, <2>2 DEF Balance
  <2> HIDE DEF d
  <2>5. BalanceOK(d)
    BY <1>2, <2>2, <2>4 DEF BalanceOK
  <2> QED BY <2>3, <2>4, <2>5
<1>3. CASE b.row /\ b.rollover # 0
  BY <1>3 DEF RollBalance
<1>4. b.row \in BOOLEAN
  BY DEF BalanceOK, Balance
<1> QED BY <1>1, <1>2, <1>3, <1>4

LEMMA RollInv ==
  ASSUME HInv, RollToNextPeriod
  PROVE  HInv'
<1> DEFINE t == Target(run)
           x == Rolled(balance[run - 1])
<1>1. run \in Period /\ run # None
  BY DEF HInv, RestOK, RollToNextPeriod
<1>2. t \in Period
  BY <1>1, HoursAssumption DEF HInv, RestOK, Target, Greater, Period
<1>3. RestOK'
  BY DEF HInv, RestOK, Named, RollToNextPeriod
<1>4. entry' = entry /\ lines' = lines
  BY DEF RollToNextPeriod
<1>5. CASE balance' = balance
  BY <1>3, <1>4, <1>5, TablesUnchanged
<1>6. CASE balance' # balance
  <2>1. /\ run - 1 \in Period
        /\ balance' = [balance EXCEPT ![t] = RollBalance(balance[t], x)]
    BY <1>6 DEF RollToNextPeriod
  <2>2. BalanceOK(balance[run - 1]) /\ BalanceOK(balance[t])
    BY <1>2, <2>1 DEF HInv
  <2>3. x \in Nat /\ (Cap # None => x <= Cap)
    <3>1. balance[run - 1].remaining \in Nat
      BY <2>2 DEF BalanceOK, Balance
    <3>2. Cap # None => Cap \in Nat
      BY HoursAssumption
    <3> QED BY <3>1, <3>2 DEF Rolled, Lesser
  <2> DEFINE nb == RollBalance(balance[t], x)
  <2>4. BalanceOK(nb) /\ nb.used = balance[t].used
    <3> HIDE DEF x, t
    <3> QED BY <2>2, <2>3, RollFacts
  <2> HIDE DEF nb, x, t
  <2>5. balance' \in [Period -> Balance] /\ \A p \in Period : BalanceOK(balance'[p])
    BY <1>2, <2>1, <2>4 DEF HInv, BalanceOK, nb
  <2>6. \A p \in Period : balance'[p].used = balance[p].used
    BY <1>2, <2>1, <2>4 DEF HInv, nb
  <2>7. \A p \in Period : DrawnFrom(p)' = DrawnFrom(p)
    BY <1>4 DEF DrawnFrom, DrawnUnits, Drawers
  <2>8. DrawsAreBacked'
    BY <2>6, <2>7 DEF HInv, DrawsAreBacked
  <2> QED BY <1>3, <1>4, <2>5, <2>8
          DEF HInv, WholeStamps, ChargedAreMarked, Marked, ChargedOnce, BalanceOK
<1> QED BY <1>5, <1>6

-----------------------------------------------------------------------------
(* Every step.                                                             *)

(* Steps that move a request and no table.                                 *)
LEMMA RequestStepInv ==
  ASSUME HInv, NEW r \in Request,
         \/ CutOff(r)
         \/ ReleaseNothing(r)
         \/ DrawNothing(r)
         \/ MissBalance(r)
         \/ SeedFails(r)
  PROVE  HInv'
<1>1. UNCHANGED <<entry, balance, lines>>
  BY DEF CutOff, ReleaseNothing, DrawNothing, MissBalance, SeedFails
<1>2. CASE CutOff(r) \/ DrawNothing(r) \/ SeedFails(r)
  BY <1>1, <1>2, RequestEnds, TablesUnchanged DEF CutOff, DrawNothing, SeedFails
<1>3. CASE ReleaseNothing(r)
  <2>1. AfterRelease(r) \in Pcs
    BY DEF AfterRelease, Pcs
  <2>2. RestOK'
    BY <1>3, <2>1, RequestGoesOn DEF ReleaseNothing
  <2> QED BY <1>1, <2>2, TablesUnchanged
<1>4. CASE MissBalance(r)
  <2>1. RestOK'
    BY <1>4, RequestGoesOn DEF MissBalance, Pcs
  <2> QED BY <1>1, <2>1, TablesUnchanged
<1> QED BY <1>2, <1>3, <1>4

LEMMA StartInv ==
  ASSUME HInv, NEW r \in Request, NEW e \in Entry,
         StartUpdate(r, e) \/ StartDelete(r, e)
  PROVE  HInv'
<1>1. UNCHANGED <<entry, balance, lines, contract, today, run>>
  BY DEF StartUpdate, StartDelete
<1>2. CASE StartUpdate(r, e)
  <2> DEFINE q == [pc |-> "update", entry |-> e, status |-> entry[e].status,
                   period |-> entry[e].period]
  <2>1. q \in RequestRecord /\ q.entry = e
    BY DEF HInv, RequestRecord, TimeEntry, Pcs
  <2>2. req' = [req EXCEPT ![r] = q]
    BY <1>2 DEF StartUpdate
  <2> HIDE DEF q
  <2> QED BY <1>1, <2>1, <2>2, RequestMoves, TablesUnchanged
<1>3. CASE StartDelete(r, e)
  <2> DEFINE q == [Idle EXCEPT !.pc = "release_delete", !.entry = e]
  <2>1. q \in RequestRecord /\ q.entry = e
    BY IdleFacts DEF Pcs
  <2>2. req' = [req EXCEPT ![r] = q]
    BY <1>3 DEF StartDelete
  <2> HIDE DEF q
  <2> QED BY <1>1, <2>1, <2>2, RequestMoves, TablesUnchanged
<1> QED BY <1>2, <1>3

(* The clock, the runs and the contract.                                   *)
LEMMA ClockInv ==
  ASSUME HInv, NextMonth \/ StartRun \/ RunDies \/ ExpireDueContracts
  PROVE  HInv'
<1>1. UNCHANGED <<entry, balance, lines>>
  BY DEF NextMonth, StartRun, RunDies, ExpireDueContracts
<1>2. RestOK'
  <2>1. CASE NextMonth
    BY <2>1, HoursAssumption DEF HInv, RestOK, Named, NextMonth, Period
  <2>2. CASE StartRun \/ RunDies
    BY <2>2 DEF HInv, RestOK, Named, StartRun, RunDies
  <2>3. CASE ExpireDueContracts
    <3>1. /\ contract.end \in Nat /\ contract.start \in Period
          /\ today \in Period /\ contract.end < today
      BY <2>3 DEF HInv, RestOK, ExpireDueContracts
    <3> DEFINE g == Greater(MonthsBetween(contract.start, contract.end), 1)
    <3>2. g \in Nat /\ contract.end + 1 \in Period /\ contract.end + g \in Nat
      BY <3>1, HoursAssumption DEF Greater, MonthsBetween, Period
    <3>3. contract' \in [status : {"active", "expired", "renewed"}, start : Period, end : Nat]
      <4>1. CASE AutoRenew
        BY <2>3, <3>2, <4>1 DEF ExpireDueContracts
      <4>2. CASE ~AutoRenew
        BY <2>3, <4>2 DEF ExpireDueContracts, HInv, RestOK
      <4> QED BY <4>1, <4>2
    <3> QED BY <2>3, <3>3 DEF HInv, RestOK, Named, ExpireDueContracts
  <2> QED BY <2>1, <2>2, <2>3
<1> QED BY <1>1, <1>2, TablesUnchanged

LEMMA NextHInv == HInv /\ [Next]_vars => HInv'
<1> SUFFICES ASSUME HInv, [Next]_vars PROVE HInv'
  OBVIOUS
<1>1. CASE UNCHANGED vars
  <2>1. RestOK'
    BY <1>1 DEF HInv, RestOK, Named, vars
  <2> QED BY <1>1, <2>1, TablesUnchanged DEF vars
<1>2. CASE Next
  BY <1>2, CreateInv, UpdateInv, DeleteInv, DrawInv, ReleaseInv, BillInv, RollInv,
     RequestStepInv, StartInv, ClockInv
  DEF Next
<1> QED BY <1>1, <1>2

LEMMA HInvAlways == Spec => []HInv
BY InitHInv, NextHInv, PTL DEF Spec

(* Every balance and every time entry keeps its type: no balance goes      *)
(* below zero, whatever draws, releases and rolls meet on it.              *)
THEOREM HoursTyped == Spec => []HoursTypeOK
BY HInvAlways, InvGives, PTL

(* On every balance row, used and remaining make up what the item includes *)
(* and what was rolled in, for every allotment and every interleaving.     *)
THEOREM BalancesExact == Spec => []BalanceExact
BY HInvAlways, InvGives, PTL

(* Every hour an entry says it drew is counted as used on the balance it   *)
(* names, so that a release always gives back exactly what was drawn.      *)
THEOREM DrawsBacked == Spec => []DrawsAreBacked
BY HInvAlways, InvGives, PTL

(* No sequence of rolls gives a period more than max_rollover_hours.       *)
THEOREM RolloverBounded == Spec => []RolloverCapped
BY HInvAlways, InvGives, PTL

(* No time entry is ever charged on two invoices.                          *)
THEOREM EntriesChargedOnce == Spec => []ChargedOnce
BY HInvAlways, InvGives, PTL
=============================================================================
