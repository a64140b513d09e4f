-------------------------- MODULE RecurringBilling --------------------------
(***************************************************************************)
(* Recurring invoicing of one tenant: the hourly sweep that several        *)
(* servers run at once over the active contracts, the ledger of periods    *)
(* already invoiced (contract_invoice_runs), the items billed once, the    *)
(* renewal sweep, and staff editing contracts and items meanwhile.         *)
(*                                                                         *)
(* The ledger row and its invoice are written by one transaction and never *)
(* deleted (a contract that has an invoice cannot be deleted either), so   *)
(* the ledger is read off the invoices.                                    *)
(***************************************************************************)
EXTENDS BillingPeriods

CONSTANTS Contract,     \* contract ids, which the sweep orders by
          Item,
          Server,
          Broken,       \* contracts whose roll of hours answers with an error
          Days,         \* the days on which something happens
          Opening,      \* the contracts and items to begin with
          Cycles,       \* the billing cycles contracts have or are given
          Ends,         \* last days contracts are given
          MaxEdits,     \* bound on the changes made by staff
          MaxAborts     \* bound on crashes and failing statements

NoEnd == 0

None == [status |-> "deleted"]

NotYet == [status |-> "not created"]

Rules == {"every_period", "once", "manual"}

Statuses == {"draft", "active", "cancelled", "expired", "renewed"}

Contracts == [status : Statuses,
              cycle : Cycles, start : Date, end : Date \cup {NoEnd},
              autoRenew : BOOLEAN]

Items == [contract : Contract, rule : Rules, billed : BOOLEAN]

ASSUME RecurringAssumption ==
  /\ Contract \subseteq Nat /\ Broken \subseteq Contract
  /\ Cycles \subseteq Recurring \cup {"one_time"}
  /\ Days \subseteq Date /\ Days # {} /\ Ends \subseteq Date
  /\ \A o \in Opening : /\ o.contract \in [Contract -> Contracts]
                         /\ o.item \in [Item -> Items \cup {NotYet}]
  /\ MaxEdits \in Nat /\ MaxAborts \in Nat

VARIABLES contract,     \* the contracts table
          item,         \* the contract_items table
          invoices,     \* the invoices made, each with its ledger row
          server,       \* where each server's sweep is
          today,        \* the tenant's day
          edits, aborts

vars == <<contract, item, invoices, server, today, edits, aborts>>

Live == {c \in Contract : contract[c] # None}

LiveItems == {i \in Item : item[i] \notin {None, NotYet}}

(* A sweep: the contracts it still has to bill, as it read them, the day   *)
(* it took for today, and the items read for the contract it is at.        *)
NotRead == {}

Idle == [todo |-> {}, day |-> 0, items |-> NotRead]

Working(s) == server[s].todo # {}

(* The loop in the opposite order.                                         *)
CurrentDescending(s) ==
  CHOOSE c \in server[s].todo : \A d \in server[s].todo : c.id >= d.id

(* ORDER BY id: the contract the loop is at.                               *)
Current(s) ==
  CHOOSE c \in server[s].todo : \A d \in server[s].todo : c.id <= d.id

Lines == SUBSET [item : Item, rule : {"every_period", "once"}]

RecurringTypeOK ==
  /\ contract \in [Contract -> Contracts \cup {None}]
  /\ \A i \in LiveItems : item[i] \in Items /\ item[i].contract \in Live
  /\ \A v \in invoices : /\ v.contract \in Live /\ v.lines \in Lines \ {{}}
                         /\ v.first \in Date /\ v.last \in v.first..Horizon - 1
  /\ \A s \in Server :
       /\ server[s].items \in Lines /\ (server[s].items # NotRead => Working(s))
       /\ Working(s) => server[s].day \in Days /\ server[s].day <= today
  /\ today \in Days /\ edits \in 0..MaxEdits /\ aborts \in 0..MaxAborts

Init ==
  /\ \E o \in Opening : contract = o.contract /\ item = o.item
  /\ invoices = {}
  /\ server = [s \in Server |-> Idle]
  /\ today = Min(Days)
  /\ edits = 0 /\ aborts = 0

-----------------------------------------------------------------------------
(* The sweep.                                                              *)

(* The candidate contracts: active, recurring, started.                    *)
Candidates(day) ==
  {[id |-> c, cycle |-> contract[c].cycle, start |-> contract[c].start,
    end |-> contract[c].end] :
     c \in {c \in Live : /\ contract[c].status = "active"
                         /\ contract[c].cycle # "one_time"
                         /\ contract[c].start <= day}}

(* The hourly job reads today and the candidates and ends its transaction. *)
StartSweep(s) ==
  /\ ~Working(s)
  /\ Candidates(today) # {}
  /\ server' = [server EXCEPT ![s] = [todo |-> Candidates(today), day |-> today,
                                      items |-> NotRead]]
  /\ UNCHANGED <<contract, item, invoices, today, edits, aborts>>

(* The period a contract, as read, is due for on a day: none when it       *)
(* begins after the contract's end.                                        *)
DuePeriod(c, day) ==
  LET p == CurrentBillingPeriod(c.cycle, c.start, day)
  IN IF c.end # NoEnd /\ p.first > c.end THEN NoPeriod ELSE p

PeriodOf(s) == DuePeriod(Current(s), server[s].day)

NextContract(s) ==
  LET rest == server[s].todo \ {Current(s)}
  IN server' = [server EXCEPT ![s] =
                  IF rest = {} THEN Idle
                  ELSE [todo |-> rest, day |-> server[s].day, items |-> NotRead]]

Skip(s) ==
  /\ Working(s) /\ server[s].items = NotRead
  /\ PeriodOf(s) = NoPeriod
  /\ NextContract(s)
  /\ UNCHANGED <<contract, item, invoices, today, edits, aborts>>

(* An error of roll_to_next_period leaves the loop, and with it the sweep  *)
(* of this tenant.                                                         *)
RollFails(s) ==
  /\ Working(s) /\ server[s].items = NotRead
  /\ PeriodOf(s) # NoPeriod
  /\ Current(s).id \in Broken
  /\ server' = [server EXCEPT ![s] = Idle]
  /\ UNCHANGED <<contract, item, invoices, today, edits, aborts>>

Billable(c) ==
  {[item |-> i, rule |-> item[i].rule] :
     i \in {i \in LiveItems : /\ item[i].contract = c
                              /\ \/ item[i].rule = "every_period"
                                 \/ item[i].rule = "once" /\ ~item[i].billed}}

(* generate_one_recurring_invoice, its first statement: the items.  With   *)
(* none there is nothing to bill and no ledger row is written.             *)
ReadItems(s) ==
  /\ Working(s) /\ server[s].items = NotRead
  /\ PeriodOf(s) # NoPeriod
  /\ Current(s).id \notin Broken
  /\ IF Billable(Current(s).id) = {} THEN NextContract(s)
     ELSE server' = [server EXCEPT ![s].items = Billable(Current(s).id)]
  /\ UNCHANGED <<contract, item, invoices, today, edits, aborts>>

(* A ledger whose conflict nobody looks at.                                *)
PeriodInLedgerIgnored(c, p) == FALSE

(* The ledger is unique on contract and first day of the period.           *)
PeriodInLedger(c, p) ==
  \E v \in invoices : v.contract = c /\ v.first = p.first

OnceItems(lines) == {l.item : l \in {l \in lines : l.rule = "once"}}

(* Claims that look at nothing but the row's existence.                    *)
ClaimableAlways(lines) == \A i \in OnceItems(lines) : item[i] # None

(* UPDATE contract_items ... WHERE billed_at IS NULL finds each item.      *)
Claimable(lines) == \A i \in OnceItems(lines) : item[i] # None /\ ~item[i].billed

(* The rest of that transaction: the invoice, its ledger row and the       *)
(* claims of the items billed once, or none of them.                       *)
Bill(s) ==
  LET c == Current(s) IN
  /\ Working(s) /\ server[s].items # NotRead
  /\ c.id \in Live
  /\ IF PeriodInLedger(c.id, PeriodOf(s)) \/ ~Claimable(server[s].items)
     THEN UNCHANGED <<invoices, item>>
     ELSE /\ invoices' = invoices \cup
               {[number |-> Cardinality(invoices) + 1,
                 contract |-> c.id, first |-> PeriodOf(s).first, last |-> PeriodOf(s).last,
                 lines |-> server[s].items,
                 start |-> c.start, cycle |-> c.cycle]}
          /\ item' = [i \in Item |-> IF i \in OnceItems(server[s].items)
                                     THEN [item[i] EXCEPT !.billed = TRUE] ELSE item[i]]
  /\ NextContract(s)
  /\ UNCHANGED <<contract, today, edits, aborts>>

(* The invoice would name a contract that is gone: the insert fails and    *)
(* the error ends the sweep.                                               *)
BillDeleted(s) ==
  /\ Working(s) /\ server[s].items # NotRead
  /\ Current(s).id \notin Live
  /\ server' = [server EXCEPT ![s] = Idle]
  /\ UNCHANGED <<contract, item, invoices, today, edits, aborts>>

(* The process dies, or any statement fails: the open transaction is       *)
(* rolled back and the rest of the sweep is dropped.                       *)
Abort(s) ==
  /\ Working(s)
  /\ aborts < MaxAborts
  /\ aborts' = aborts + 1
  /\ server' = [server EXCEPT ![s] = Idle]
  /\ UNCHANGED <<contract, item, invoices, today, edits>>

-----------------------------------------------------------------------------
(* Staff, and the renewal sweep.                                           *)

Edit == edits < MaxEdits /\ edits' = edits + 1

(* update_contract sets any one of these, start_date not among them; more  *)
(* of them in one request are a sequence of edits here.                    *)
UpdateContract(c) ==
  /\ Edit
  /\ c \in Live
  /\ \/ \E status \in Statuses : contract' = [contract EXCEPT ![c].status = status]
     \/ \E renew \in BOOLEAN : contract' = [contract EXCEPT ![c].autoRenew = renew]
     \/ \E cycle \in Cycles : contract' = [contract EXCEPT ![c].cycle = cycle]
     \/ \E end \in Ends : contract' = [contract EXCEPT ![c].end = end]
  /\ UNCHANGED <<item, invoices, server, today, aborts>>

(* A deletion the invoices do not hold back.                               *)
DeleteContractUnchecked(c) ==
  /\ Edit
  /\ c \in Live
  /\ contract' = [contract EXCEPT ![c] = None]
  /\ item' = [i \in Item |-> IF i \in LiveItems /\ item[i].contract = c
                             THEN None ELSE item[i]]
  /\ UNCHANGED <<invoices, server, today, aborts>>

(* The items go with the contract; an invoice that names it keeps it.      *)
DeleteContract(c) ==
  /\ Edit
  /\ c \in Live
  /\ \A v \in invoices : v.contract # c
  /\ contract' = [contract EXCEPT ![c] = None]
  /\ item' = [i \in Item |-> IF i \in LiveItems /\ item[i].contract = c
                             THEN None ELSE item[i]]
  /\ UNCHANGED <<invoices, server, today, aborts>>

CreateItem(i) ==
  /\ Edit
  /\ item[i] = NotYet
  /\ \E c \in Live, rule \in Rules :
       item' = [item EXCEPT ![i] = [contract |-> c, rule |-> rule, billed |-> FALSE]]
  /\ UNCHANGED <<contract, invoices, server, today, aborts>>

(* Editing an item keeps its billed_at.                                    *)
UpdateItem(i) ==
  /\ Edit
  /\ i \in LiveItems
  /\ \E rule \in Rules \ {item[i].rule} : item' = [item EXCEPT ![i].rule = rule]
  /\ UNCHANGED <<contract, invoices, server, today, aborts>>

DeleteItem(i) ==
  /\ Edit
  /\ i \in LiveItems
  /\ item' = [item EXCEPT ![i] = None]
  /\ UNCHANGED <<contract, invoices, server, today, aborts>>

RenewalEnd(start, months) ==
  Max({start, AddMonths(start, months) - 1})

(* expire_due_contracts, one contract: a contract past its end is renewed  *)
(* for as long as the term that closed, or expires.                        *)
ExpireOrRenew(c) ==
  LET old   == contract[c]
      start == Min({old.end + 1, Horizon - 1})
      end   == RenewalEnd(start, Max({1, MonthsBetween(old.start, old.end)}))
  IN /\ c \in Live
     /\ old.status = "active" /\ old.end # NoEnd /\ old.end < today
     /\ contract' = [contract EXCEPT ![c] =
          IF old.autoRenew THEN [@ EXCEPT !.status = "renewed", !.start = start, !.end = end]
          ELSE [@ EXCEPT !.status = "expired"]]
     /\ UNCHANGED <<item, invoices, server, today, edits, aborts>>

NextDay ==
  /\ today # Max(Days)
  /\ today' = Min({d \in Days : d > today})
  /\ UNCHANGED <<contract, item, invoices, server, edits, aborts>>

Step(s) ==
  StartSweep(s) \/ Skip(s) \/ RollFails(s) \/ ReadItems(s) \/ Bill(s) \/ BillDeleted(s)

Staff ==
  \/ \E c \in Contract : UpdateContract(c) \/ DeleteContract(c)
  \/ \E i \in Item : CreateItem(i) \/ UpdateItem(i) \/ DeleteItem(i)

Next ==
  \/ \E s \in Server : Step(s) \/ Abort(s)
  \/ Staff
  \/ \E c \in Contract : ExpireOrRenew(c)
  \/ NextDay

(* The job loop starts a sweep every hour and its statements return, on    *)
(* one server at least; another may hang.  Staff, failures and the other   *)
(* jobs are not fair.                                                      *)
Fairness == WF_vars(\E s \in Server : Step(s))

Spec == Init /\ [][Next]_vars /\ Fairness

-----------------------------------------------------------------------------
(* While a contract keeps its first day and its cycle, no day of it is     *)
(* invoiced twice, whatever servers repeat, race or resume the sweep.      *)
PeriodsDisjoint ==
  \A v, w \in invoices :
    /\ v # w /\ v.contract = w.contract
    /\ v.start = w.start /\ v.cycle = w.cycle
    => v.last < w.first \/ w.last < v.first

(* An item billed once is on one invoice at most, across periods, servers, *)
(* edits of its rule and changes of the contract's cycle.                  *)
OnceBilledOnce ==
  \A i \in Item :
    Cardinality({v \in invoices : [item |-> i, rule |-> "once"] \in v.lines}) <= 1

(* The two walks over the periods, the one that bills and the one that     *)
(* draws and rolls prepaid hours, cut time alike: they agree on the period *)
(* of today, and the day the sweep gives to the roll, the day before the   *)
(* period it bills, is the last day of the period before.                  *)
PeriodsAgree ==
  \A c \in Live :
    LET k == contract[c]
        p == CurrentBillingPeriod(k.cycle, k.start, today)
    IN k.cycle \in Recurring /\ k.start <= today =>
         /\ PeriodFor(k.start, k.cycle, today) = p
         /\ p.first > k.start => PeriodFor(k.start, k.cycle, p.first - 1).last = p.first - 1

(* A contract that no failing contract precedes is billed for the period   *)
(* of the last day, once days and edits end.                               *)
Unbilled(c) ==
  /\ c \in Live
  /\ contract[c].status = "active" /\ contract[c].cycle # "one_time"
  /\ contract[c].start <= today
  /\ Billable(c) # {}
  /\ DuePeriod(contract[c], today) # NoPeriod
  /\ ~PeriodInLedger(c, DuePeriod(contract[c], today))

DuePeriodsBilled ==
  \A c \in Contract : (\A b \in Broken : c < b) => <>[]~Unbilled(c)
=============================================================================
