---------------------------- MODULE PrepaidHours ----------------------------
(***************************************************************************)
(* Prepaid hours: one customer's contract with a `block_hours` item, its   *)
(* `contract_hour_balances` rows, the `time_entries` that draw on them, the*)
(* invoice made from time entries, the recurring run that rolls unused     *)
(* hours forward, and the sweep that expires or renews the contract.       *)
(*                                                                         *)
(* A request on a time entry is several transactions (insert, then draw;   *)
(* update, then release, then draw; release, then delete), so a request    *)
(* has a program counter and other requests, an invoice or a crash may     *)
(* come between any two of them.  One transaction is one action, except    *)
(* the draw from a period nobody drew from before: it reads that there is  *)
(* no balance row and then inserts one, and two such draws may race.  It   *)
(* holds the entry's row lock meanwhile (Locked).                          *)
(*                                                                         *)
(* The cycle is monthly and terms are whole months, so a date is the       *)
(* number of its month, counted from the contract's first.  Only client    *)
(* entries are modelled: employee time never draws and is never billed.    *)
(***************************************************************************)
EXTENDS Integers, FiniteSets

CONSTANTS
  Entry,      \* time entry ids
  Request,    \* concurrent requests on time entries
  Invoice,    \* invoices that may be made from time entries
  MaxPeriod,  \* bound: the last month the clock reaches
  TermEnd,    \* the contract's first end_date
  AutoRenew,  \* contracts.auto_renew, with no term_months in renewal_terms
  Hours,      \* durations a request may log
  Included,   \* contract_items.included_hours
  Rollover,   \* contract_items.rollover_enabled
  Cap,        \* contract_items.max_rollover_hours, None without a limit
  None

ASSUME HoursAssumption ==
  /\ MaxPeriod \in Nat \ {0}
  /\ TermEnd \in 1 .. MaxPeriod
  /\ Hours \subseteq Nat
  /\ Included \in Nat
  /\ Cap \in Nat \cup {None}
  /\ Rollover \in BOOLEAN
  /\ AutoRenew \in BOOLEAN
  /\ None \notin Nat \cup Entry \cup Invoice
  /\ IsFiniteSet(Entry)

VARIABLES
  entry,     \* time_entries
  balance,   \* contract_hour_balances by period
  lines,     \* what invoices charge for time entries
  contract,  \* the contract's status and term
  today,     \* the tenant's current month
  req,       \* the requests in flight
  run        \* the period a recurring run is about to roll into, or None

vars == <<entry, balance, lines, contract, today, req, run>>

Period == 1 .. MaxPeriod

TimeEntry ==
  [row : {"never", "live", "deleted"},
   period : Period, hours : Nat, billable : BOOLEAN,
   contract : BOOLEAN,                    \* contract_id is set
   status : {"not_billed", "ready_to_bill", "billed", "prepaid"},
   consumed : Nat \cup {None},            \* hours_consumed
   from : Period \cup {None},             \* hours_balance_id
   overage : Nat,                         \* overage_hours, 0 for NULL
   invoice : Invoice \cup {None}]

Balance == [row : BOOLEAN, included : Nat, used : Nat, remaining : Nat, rollover : Nat]

NoEntry ==
  [row |-> "never", period |-> 1, hours |-> 0, billable |-> FALSE,
   contract |-> FALSE, status |-> "not_billed", consumed |-> None,
   from |-> None, overage |-> 0, invoice |-> None]

NoBalance ==
  [row |-> FALSE, included |-> 0, used |-> 0, remaining |-> 0, rollover |-> 0]

Pcs == {"idle", "update", "release", "consume", "seed", "release_delete", "delete"}

Idle == [pc |-> "idle", entry |-> None, status |-> "not_billed", period |-> 1]

Lesser(a, b) == IF a <= b THEN a ELSE b
Greater(a, b) == IF a >= b THEN a ELSE b

(* The row exists and no draw in progress holds its lock.                  *)
Locked(e) == \E r \in Request : req[r].pc = "seed" /\ req[r].entry = e
Free(e) == entry[e].row = "live" /\ ~Locked(e)

(* block_hours_contract_for: the date is in the term of an active contract.*)
Covers(p) ==
  /\ contract.status = "active"
  /\ contract.start <= p
  /\ p <= contract.end

Init ==
  /\ entry = [e \in Entry |-> NoEntry]
  /\ balance = [p \in Period |-> NoBalance]
  /\ lines = {}
  /\ contract = [status |-> "active", start |-> 1, end |-> TermEnd]
  /\ today = 1
  /\ req = [r \in Request |-> Idle]
  /\ run = None

-----------------------------------------------------------------------------
(* Time entries.                                                           *)

(* resolve_billing_status.                                                 *)
BillingStatus(billable, current) ==
  IF current = "billed" THEN "billed"
  ELSE IF billable THEN "ready_to_bill" ELSE "not_billed"

(* create_time_entry and stop_timer, up to their commit.                   *)
CreateEntry(r, e, p, h, b) ==
  /\ req[r].pc = "idle"
  /\ entry[e].row = "never"
  /\ entry' = [entry EXCEPT ![e] =
                 [NoEntry EXCEPT !.row = "live", !.period = p, !.hours = h,
                                 !.billable = b,
                                 !.contract = (b /\ Covers(p)),
                                 !.status = BillingStatus(b, None)]]
  /\ req' = [req EXCEPT ![r] = [Idle EXCEPT !.pc = "consume", !.entry = e]]
  /\ UNCHANGED <<balance, lines, contract, today, run>>

(* update_time_entry: get_time_entry, without a lock.                      *)
StartUpdate(r, e) ==
  /\ req[r].pc = "idle"
  /\ entry[e].row = "live"
  /\ req' = [req EXCEPT ![r] = [pc |-> "update", entry |-> e,
                                status |-> entry[e].status,
                                period |-> entry[e].period]]
  /\ UNCHANGED <<entry, balance, lines, contract, today, run>>

(* Its UPDATE.  d is the request's date, None when the body has none: the  *)
(* row then keeps its date, and the contract is looked up for the date     *)
(* that was read.  Hours and billability the body leaves out are those     *)
(* read earlier, which the choice of h and b includes.                     *)
FinishUpdate(r, d, h, b) ==
  LET e == req[r].entry
      date == IF d = None THEN req[r].period ELSE d
  IN /\ req[r].pc = "update"
     /\ Free(e)
     /\ entry' = [entry EXCEPT
                    ![e].period = IF d = None THEN @ ELSE d,
                    ![e].hours = h,
                    ![e].billable = b,
                    ![e].contract = (b /\ Covers(date)),
                    ![e].status = BillingStatus(b, req[r].status)]
     /\ req' = [req EXCEPT ![r] = [Idle EXCEPT !.pc = "release", !.entry = e]]
     /\ UNCHANGED <<balance, lines, contract, today, run>>

StartDelete(r, e) ==
  /\ req[r].pc = "idle"
  /\ entry[e].row = "live"
  /\ req' = [req EXCEPT ![r] = [Idle EXCEPT !.pc = "release_delete", !.entry = e]]
  /\ UNCHANGED <<entry, balance, lines, contract, today, run>>

DeleteEntry(r) ==
  LET e == req[r].entry
  IN /\ req[r].pc = "delete"
     /\ Free(e)
     /\ entry' = [entry EXCEPT ![e] = [NoEntry EXCEPT !.row = "deleted"]]
     /\ req' = [req EXCEPT ![r] = Idle]
     /\ UNCHANGED <<balance, lines, contract, today, run>>

(* A request ends early: refused (no such row, the day's cap), cancelled,  *)
(* or the server dies.  The transactions it committed stay.                *)
CutOff(r) ==
  /\ req[r].pc # "idle"
  /\ req' = [req EXCEPT ![r] = Idle]
  /\ UNCHANGED <<entry, balance, lines, contract, today, run>>

-----------------------------------------------------------------------------
(* Draws and releases.                                                     *)

(* release_hours_in_tx.                                                    *)
Released(b, applied) ==
  LET back == Lesser(applied, b.used)
  IN [b EXCEPT !.used = @ - back, !.remaining = @ + back]

Drew(e) == entry[e].row = "live" /\ entry[e].consumed # None

Forget(t) ==
  [t EXCEPT !.consumed = None, !.from = None, !.overage = 0,
            !.status = IF @ = "prepaid" THEN "ready_to_bill" ELSE @]

AfterRelease(r) == IF req[r].pc = "release" THEN "consume" ELSE "delete"

(* Mutant: the hours go back and the entry still says that it drew them.   *)
ReleaseForgetless(r) ==
  LET e == req[r].entry
      t == entry[e]
  IN /\ req[r].pc \in {"release", "release_delete"}
     /\ Free(e)
     /\ Drew(e)
     /\ balance' = [balance EXCEPT ![t.from] = Released(@, t.consumed)]
     /\ req' = [req EXCEPT ![r].pc = AfterRelease(r)]
     /\ UNCHANGED <<entry, lines, contract, today, run>>

(* release_for_entry of an entry that drew.                                *)
Release(r) ==
  LET e == req[r].entry
      t == entry[e]
  IN /\ req[r].pc \in {"release", "release_delete"}
     /\ Free(e)
     /\ Drew(e)
     /\ balance' = [balance EXCEPT ![t.from] = Released(@, t.consumed)]
     /\ entry' = [entry EXCEPT ![e] = Forget(t)]
     /\ req' = [req EXCEPT ![r].pc = AfterRelease(r)]
     /\ UNCHANGED <<lines, contract, today, run>>

ReleaseNothing(r) ==
  LET e == req[r].entry
  IN /\ req[r].pc \in {"release", "release_delete"}
     /\ ~Locked(e)
     /\ ~Drew(e)
     /\ req' = [req EXCEPT ![r].pc = AfterRelease(r)]
     /\ UNCHANGED <<entry, balance, lines, contract, today, run>>

(* The candidate of consume_for_entry, and the term consume_hours_in_tx    *)
(* checks again.                                                           *)
Draws(t) ==
  /\ t.consumed = None
  /\ t.contract
  /\ t.billable
  /\ t.hours > 0
  /\ contract.start <= t.period
  /\ t.period <= contract.end

(* Mutants: the allotment may go below zero; overage counts as used.       *)
DrawnUnclipped(b, h) == [b EXCEPT !.used = @ + h, !.remaining = @ - h]
DrawnUnsplit(b, h) ==
  [b EXCEPT !.used = @ + h, !.remaining = @ - Lesser(h, @)]

(* The balance after a draw of h hours.                                    *)
Drawn(b, h) ==
  LET applied == Lesser(h, b.remaining)
  IN [b EXCEPT !.used = @ + applied, !.remaining = @ - applied]

(* The entry's stamp after that draw.                                      *)
Stamped(t, b) ==
  LET applied == Lesser(t.hours, b.remaining)
      over == t.hours - applied
  IN [t EXCEPT !.consumed = applied,
               !.from = t.period,
               !.overage = over,
               !.status = IF over > 0 \/ @ # "ready_to_bill" THEN @ ELSE "prepaid"]

(* consume_hours_in_tx on balance b, the stamp and the commit.             *)
DrawFrom(r, b) ==
  LET e == req[r].entry
      t == entry[e]
  IN /\ balance' = [balance EXCEPT ![t.period] = Drawn(b, t.hours)]
     /\ entry' = [entry EXCEPT ![e] = Stamped(t, b)]
     /\ req' = [req EXCEPT ![r] = Idle]
     /\ UNCHANGED <<lines, contract, today, run>>

Draw(r) ==
  LET t == entry[req[r].entry]
  IN /\ req[r].pc = "consume"
     /\ Free(req[r].entry)
     /\ Draws(t)
     /\ balance[t.period].row
     /\ DrawFrom(r, balance[t.period])

(* Nothing to draw, or a date outside the term.                            *)
DrawNothing(r) ==
  LET e == req[r].entry
  IN /\ req[r].pc = "consume"
     /\ ~Locked(e)
     /\ ~(entry[e].row = "live" /\ Draws(entry[e]))
     /\ req' = [req EXCEPT ![r] = Idle]
     /\ UNCHANGED <<entry, balance, lines, contract, today, run>>

(* The SELECT ... FOR UPDATE finds no balance row for the period.          *)
MissBalance(r) ==
  LET t == entry[req[r].entry]
  IN /\ req[r].pc = "consume"
     /\ Free(req[r].entry)
     /\ Draws(t)
     /\ ~balance[t.period].row
     /\ req' = [req EXCEPT ![r].pc = "seed"]
     /\ UNCHANGED <<entry, balance, lines, contract, today, run>>

NewBalance(rolled) ==
  [row |-> TRUE, included |-> Included + rolled, used |-> 0,
   remaining |-> Included + rolled, rollover |-> rolled]

SeedAndDraw(r) ==
  /\ req[r].pc = "seed"
  /\ ~balance[entry[req[r].entry].period].row
  /\ DrawFrom(r, NewBalance(0))

(* Another draw or a roll inserted the row first: the plain INSERT fails   *)
(* on the unique index and the request answers with an error.              *)
SeedFails(r) ==
  /\ req[r].pc = "seed"
  /\ balance[entry[req[r].entry].period].row
  /\ req' = [req EXCEPT ![r] = Idle]
  /\ UNCHANGED <<entry, balance, lines, contract, today, run>>

-----------------------------------------------------------------------------
(* create_invoice_from_time_entries.                                       *)

(* Mutant: the status alone decides.                                       *)
EligibleByStatus(t) == t.billable /\ t.status = "ready_to_bill"

Eligible(t) ==
  /\ t.billable
  /\ t.invoice = None
  /\ t.status = "ready_to_bill"

Charged(t) == IF t.overage > 0 THEN t.overage ELSE t.hours

(* The invoice, its lines of time and the mark on each entry are one       *)
(* transaction.  Mileage entries, which the same transaction bills and     *)
(* marks, draw no hours and are left out.                                  *)
BillEntries(n, S) ==
  /\ \A l \in lines : l.invoice # n
  /\ S # {}
  /\ \A e \in S : Free(e) /\ Eligible(entry[e])
  /\ lines' = lines \cup
       {[invoice |-> n, entry |-> e, hours |-> Charged(entry[e])] : e \in S}
  /\ entry' = [e \in Entry |->
                 IF e \in S
                   THEN [entry[e] EXCEPT !.status = "billed", !.invoice = n]
                   ELSE entry[e]]
  /\ UNCHANGED <<balance, contract, today, req, run>>

-----------------------------------------------------------------------------
(* Periods and the contract's life.                                        *)

NextMonth ==
  /\ today < MaxPeriod
  /\ today' = today + 1
  /\ UNCHANGED <<entry, balance, lines, contract, req, run>>

(* generate_due_recurring_invoices reads the day and the due contracts.    *)
StartRun ==
  /\ run = None
  /\ contract.status = "active"
  /\ contract.start <= today
  /\ today <= contract.end
  /\ run' = today
  /\ UNCHANGED <<entry, balance, lines, contract, today, req>>

Rolled(b) == IF Cap = None THEN b.remaining ELSE Lesser(b.remaining, Cap)

(* Where the roll lands: period_for falls back to the first window when    *)
(* the term was renewed since the run read it.                             *)
Target(p) == Greater(p, contract.start)

(* Mutant: the upsert without its guard.                                   *)
RollBalanceAlways(b, rolled) ==
  IF ~b.row THEN NewBalance(rolled)
  ELSE [b EXCEPT !.included = @ + rolled, !.remaining = @ + rolled,
                 !.rollover = @ + rolled]

(* The upsert of the opening period's row.                                 *)
RollBalance(b, rolled) ==
  CASE ~b.row -> NewBalance(rolled)
    [] b.row /\ b.rollover = 0 ->
         [b EXCEPT !.included = @ + rolled, !.remaining = @ + rolled,
                   !.rollover = @ + rolled]
    [] OTHER -> b

(* roll_to_next_period: no item that rolls, no closing row, nothing left,  *)
(* or the upsert.                                                          *)
RollToNextPeriod ==
  LET closing == run - 1
      t == Target(run)
  IN /\ run # None
     /\ balance' = IF /\ Rollover
                      /\ closing \in Period
                      /\ balance[closing].row
                      /\ Rolled(balance[closing]) > 0
                     THEN [balance EXCEPT ![t] =
                             RollBalance(@, Rolled(balance[closing]))]
                     ELSE balance
     /\ run' = None
     /\ UNCHANGED <<entry, lines, contract, today, req>>

(* The run dies between reading the contracts and the roll.                *)
RunDies ==
  /\ run # None
  /\ run' = None
  /\ UNCHANGED <<entry, balance, lines, contract, today, req>>

(* months_between, of whole months counted from the first of one to the    *)
(* last of another.                                                        *)
MonthsBetween(start, end) == end - start

(* expire_due_contracts.                                                   *)
ExpireDueContracts ==
  /\ contract.status = "active"
  /\ contract.end < today
  /\ contract' =
       IF AutoRenew
         THEN [status |-> "renewed", start |-> contract.end + 1,
               end |-> contract.end
                         + Greater(MonthsBetween(contract.start, contract.end), 1)]
         ELSE [contract EXCEPT !.status = "expired"]
  /\ UNCHANGED <<entry, balance, lines, today, req, run>>

-----------------------------------------------------------------------------
Next ==
  \/ \E r \in Request, e \in Entry, p \in Period, h \in Hours, b \in BOOLEAN :
       CreateEntry(r, e, p, h, b)
  \/ \E r \in Request, e \in Entry : StartUpdate(r, e)
  \/ \E r \in Request, d \in Period \cup {None}, h \in Hours, b \in BOOLEAN :
       FinishUpdate(r, d, h, b)
  \/ \E r \in Request, e \in Entry : StartDelete(r, e)
  \/ \E r \in Request : DeleteEntry(r)
  \/ \E r \in Request : CutOff(r)
  \/ \E r \in Request : Release(r)
  \/ \E r \in Request : ReleaseNothing(r)
  \/ \E r \in Request : Draw(r)
  \/ \E r \in Request : DrawNothing(r)
  \/ \E r \in Request : MissBalance(r)
  \/ \E r \in Request : SeedAndDraw(r)
  \/ \E r \in Request : SeedFails(r)
  \/ \E n \in Invoice, S \in SUBSET Entry : BillEntries(n, S)
  \/ NextMonth
  \/ StartRun
  \/ RollToNextPeriod
  \/ RunDies
  \/ ExpireDueContracts

Spec == Init /\ [][Next]_vars
-----------------------------------------------------------------------------
(* Properties.                                                             *)

(* Every variable holds rows of the shape the schema gives them: no        *)
(* balance goes below zero and no entry has a status out of its CHECK.     *)
HoursTypeOK ==
  /\ entry \in [Entry -> TimeEntry]
  /\ balance \in [Period -> Balance]
  /\ lines \subseteq [invoice : Invoice, entry : Entry, hours : Nat]
  /\ contract \in [status : {"active", "expired", "renewed"}, start : Period, end : Nat]
  /\ today \in Period
  /\ req \in [Request -> [pc : Pcs, entry : Entry \cup {None},
                         status : {"not_billed", "ready_to_bill", "billed", "prepaid"},
                         period : Period]]
  /\ run \in Period \cup {None}

(* contracts/service.rs, release_hours: "`used + remaining` stays          *)
(* `included`", through every draw, release and roll that meet on a        *)
(* balance row; and the row includes the item's hours and what was rolled  *)
(* into it, no more.                                                       *)
BalanceExact ==
  \A p \in Period :
    balance[p].row =>
      /\ balance[p].used + balance[p].remaining = balance[p].included
      /\ balance[p].included = Included + balance[p].rollover

(* The hours that entries say they drew from a period.                     *)
Drawers(p) == {e \in Entry : entry[e].row = "live" /\ entry[e].from = p}
DrawnUnits(p) == UNION {{e} \X (1 .. entry[e].consumed) : e \in Drawers(p)}
DrawnFrom(p) == Cardinality(DrawnUnits(p))

(* Every hour an entry says it drew was taken from the balance it names,   *)
(* and only once, whichever creates, edits and deletes of it overlap: a    *)
(* release never finds less there than it gives back.                      *)
DrawsAreBacked ==
  \A p \in Period : DrawnFrom(p) <= balance[p].used

(* roll_to_next_period: however often runs start, die and repeat, a period *)
(* is rolled into once, so it never gets more than max_rollover_hours.     *)
RolloverCapped ==
  Cap # None =>
    \A p \in Period : balance[p].rollover <= Cap

(* A time entry is charged on one invoice at most, also when an edit that  *)
(* read it before it was billed puts its status back.                      *)
ChargedOnce ==
  \A l, m \in lines : l.entry = m.entry => l = m

-----------------------------------------------------------------------------
(* What comments and documents of the repository say, and the code does    *)
(* not keep.                                                               *)

(* docs/invariants/billing.md: "the hours the customer already paid for    *)
(* never reach an hourly invoice".                                         *)
PrepaidNotInvoiced ==
  \A l \in lines :
    entry[l.entry].row = "live" /\ entry[l.entry].consumed # None =>
      l.hours + entry[l.entry].consumed <= entry[l.entry].hours

(* docs/speciffications.md: "`billed` is never re-armed".                  *)
BilledStaysBilled ==
  \A e \in Entry :
    entry[e].invoice # None => entry[e].status = "billed"

(* time_tracking/service.rs, delete_time_entry releases first, because     *)
(* otherwise it "would leave the contract short by hours nothing can       *)
(* account for any more".                                                  *)
HoursAccountedFor ==
  \A p \in Period : balance[p].used = DrawnFrom(p)

(* docs/invariants/billing.md: "Unused prepaid hours roll into the opening *)
(* period", and "what was forfeited is still derivable": the hours that    *)
(* rolled are among those the closing period has left.                     *)
RolledWereUnused ==
  \A p \in Period \ {1} :
    balance[p].rollover <= balance[p - 1].remaining

(* time_tracking/service.rs, block_hours_contract_for: "an expired         *)
(* contract still covers time worked while it ran".                        *)
ExpiredStillCovers ==
  \A e \in Entry :
    entry[e].row = "live" /\ entry[e].billable /\ entry[e].period <= TermEnd =>
      entry[e].contract

(* contracts/service.rs, expire_due_contracts: the renewal is for "the     *)
(* span of the current term".                                              *)
RenewedForSameSpan ==
  contract.end - contract.start = TermEnd - 1
=============================================================================
