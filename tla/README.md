# Verification of mokosh-server: billing, prepaid hours, quotes, SLAs and notifications

mokosh-server is the back end of a PSA (professional services automation) product: tickets, time, contracts and billing for managed service providers. It is a multi-tenant Rust service over PostgreSQL; a handler opens one or more READ COMMITTED transactions for one tenant, and hourly or minutely workers, of which every server runs its own, drive recurring work. This directory models the parts whose correctness depends on the order in which requests, workers, webhooks and failures meet: the money (ledger, numbers, prepaid hours, recurring invoices, reminders), the life of a quote, the SLA of a ticket and the notification queue.

Paths below are relative to the repository; "service.rs" without a directory is `src/modules/billing/service.rs`.

## 1. Inventory

| Component | State | Operations | Interacts with | Hard because | Correct when |
|---|---|---|---|---|---|
| Invoice ledger (service.rs) | `invoices`, `invoice_lines`, `payments`, `payment_refunds`, `credit_notes` | create, update, send, amend, void, write off, credit, void a credit, pay, delete a payment, refund | numbering, gateway webhooks, mail, accounting provider | eight writers keep a cached balance; `update_invoice` reads before it locks; mail leaves before the commit | cached figures equal the rows; issued documents do not change; void and written-off stand |
| Gateway webhooks (`webhook.rs`, service.rs) | `payments.gateway_transaction_id`, `payment_refunds.provider_reference` | checkout, payment event, refund event | the ledger | events repeat, arrive late and out of order | a charge or refund counts once |
| Document numbering (`numbering.rs`, service.rs, quotes) | `*_sequences` rows, `companies.invoice_prefix` | allocate in the caller's transaction | every create | creates race, fail, roll back; the first one of a series inserts the row | dense, unique, one prefix per customer, nobody waits for ever |
| Prepaid hours (`contracts/service.rs`, `time_tracking/service.rs`) | `contract_hour_balances`, `time_entries.hours_consumed` | draw, release, roll, expire, renew | time entries, invoices, recurring run | one request is two or three transactions; runs repeat | hours add up, are drawn once, roll at most once per period up to the cap |
| Invoices from time (service.rs) | `time_entries.billing_status`, `invoice_id` | claim and bill | prepaid hours | an edit may hold an old read of the entry | an entry is charged once |
| Recurring invoicing, contracts, billing periods (service.rs, `contracts/service.rs`) | `contracts`, `contract_items`, `contract_invoice_runs` | hourly sweep, edit, expire, renew | numbering, rolls | two servers, crashes, one failing contract, months of different lengths cut twice by two functions | a day of a contract is invoiced once, a one-off item once, due periods get billed |
| Payment reminders (service.rs) | `invoice_reminders`, `billing_reminders` settings | hourly sweep: claim, mail, release | ledger, mail, scheduler | the claim is committed before the mail; one hour of one day is all there is | one mail per step, rows tell which mails went out, due steps are taken up |
| Quotes and approvals (`quotes/`, `approvals/`) | `quotes`, `quote_lines`, `ticket_approvals` | edit, submit, approve, send, accept, decline, cancel, convert | mail, projects, portal | every handler but one writes a status over the one it read without a lock | one conversion, the approval chain does not get stuck |
| Tickets and SLA (`tickets/`, `sla/`) | `tickets`, `sla_notifications` | create, update, note, assign, reopen, delete, automation, evaluation, sweep | notifications, scheduler | one request is up to five transactions; two replicas sweep | alerts once, SLA dates win, breaches are noticed |
| SLA clock (`sla/clock.rs`) | none | `due_at` | ticket evaluation | split shifts, holidays, boundaries, hours that a change of the clock skips or repeats | exactly the budget of working time passes |
| Notifications (`notifications/`) | `notifications` | dispatch, claim, deliver, settle | every component, mail | a claim outlives its worker; a batch outlives its claim | nobody is queued twice by two names, a repeated mail has a reason, every row ends |
| Delegated issuing (`invoice_issuer_dispatch.rs`, `webhook_invoice_issuer.rs`) | external ids on invoices and credit notes | push, void, webhook | accounting provider | push and local commit are not atomic | both sides agree in the end |
| Timers and timesheets, contact sync, authentication, tenants, e-mail intake, projects, assets, expenses, portal, reports, integrations | rows of their own | CRUD, polling, rendering | - | see section 7 | - |

`PROJECT.json` lists every component with its status, and under `hazards` what can go wrong at which line.

## 2. Modules

| Module | What it is |
|---|---|
| `InvoiceLedger`, `InvoiceLedgerProofs` | the ledger of one tenant and the gateway's webhooks; its inductive invariant and theorems |
| `GaplessNumbers` | the abstract specification: the documents of a series are 1, 2, 3, ... |
| `InvoiceNumbering`, `InvoiceNumberingProofs` | counters, prefixes and transactions, statement by statement; theorems, and the refinement of `GaplessNumbers` |
| `PrepaidHours`, `PrepaidHoursProofs` | time entries, balances, rolls, contract life and invoices from time; theorems |
| `BillingPeriods` | the two functions that cut a contract's time into periods, over a calendar given by the lengths of its months |
| `RecurringBilling`, `RecurringBillingProofs` | the recurring sweep, contracts and items, over `BillingPeriods`; theorems about both |
| `AtMostOnce` | the abstract specification: an item is claimed, then delivered once or lost; only a claim that is given back frees it |
| `InvoiceReminders`, `InvoiceRemindersProofs` | the reminder sweep; theorems, and the refinement of `AtMostOnce` |
| `Notifications`, `NotificationsProofs` | dispatch and the dispatcher workers; theorems |
| `SlaClock` | the walk of `due_at` over a schedule |
| `TicketSla` | one ticket: its requests, automation, evaluation and the breach sweep |
| `SlaProofs` | theorems about `TicketSla`, its refinement of `AtMostOnce`, and theorems about `SlaClock` |
| `Quotes`, `QuotesProofs` | one quote, its approvals and the requests that move it; theorems |
| `*MC` | symmetry sets and constant values for TLC; the other constants get theirs in the `.cfg` files |

### InvoiceLedger

State: `inv` (invoice rows, with `lines` standing for the sum of `invoice_lines`), `payments`, `refunds`, `notes`, `edit` (what each running `update_invoice` read before its transaction), `mailed`, the gateway's `charge`, `refunded` and `acked`, and the ghost `misfiled`. Money is a natural number of the smallest unit.

Every money write of the code is one transaction that locks the invoice row first (`lock_invoice_totals`), so it is one action: `CreateInvoice`, `AmendInvoice`, `VoidInvoice`, `WriteOffInvoice`, `VoidDelegatedInvoice`, `CreateCreditNote`, `VoidCreditNote`, `CreatePayment`, `DeletePayment`, `RecordGatewayPayment`, `RecordGatewayRefunds`. Each ends with `Recompute`, the model of `recompute_invoice_balance`, exactly where the code calls it. `update_invoice` is split at the read it makes outside its transaction: `StartUpdate`, then `FinishUpdate`, `SendInvoice`, `SendRolledBack` (the mail left, the transaction did not commit) or `AbandonUpdate`. The gateway is external: `CustomerPays` and `GatewayRefunds` may happen at any time, and the webhook actions may be repeated, since nothing disables them after the first delivery.

Abstractions: subtotal, tax and discount are numbers chosen from small sets; the tax rate's rounding is kept (`RatedTax`, half up, which is half away from zero for the amounts here). Staff may file a payment under any gateway reference and for any amount, as `create_payment` does, which checks only the unique index; `misfiled` has the invoices with such a payment that is not what the gateway captured, and `NoOverCollection` promises them less (section 5). Payments without an invoice touch no balance and are left out. The provider's own copy of a delegated invoice is not modelled, only what it does to the local row. `written_off_at` is represented by a nonzero write-off amount, which `write_off_invoice` guarantees (it requires a positive balance).

### InvoiceNumbering

State: committed counters `seq`, committed prefixes `prefix`, committed documents `docs`, and one `tx` record per running transaction, which holds its uncommitted writes. Locks are not a variable: a transaction holds the counter's row while it has an uncommitted number, the customer's row and the unique index entry while it has an uncommitted prefix; a statement that would have to wait is not enabled. Each SQL statement is an action. `SeedConflict` follows the two forms of the code: customers' counters use `ON CONFLICT DO NOTHING` and a second bump, the tenant-wide ones (`next_tenant_invoice_number`, `next_credit_note_number`, `next_quote_number`) a plain `INSERT` that fails. `Seeded` are the counters whose row tenant creation inserts (invoices). `RedrawFails` is PostgreSQL's rule that an aborted transaction refuses every further statement.

### PrepaidHours

One customer, one contract with a block-hours item. State: `entry` (time entries), `balance` (one row per period), `lines` (hours charged by invoices), `contract`, `today`, `req` (requests in flight) and `run` (a recurring run between its read and its roll). A request on an entry is a sequence of transactions, so it has a program counter: create then draw; read, update, release, draw; release, delete. `CutOff` ends it anywhere, which covers errors and crashes. The first draw of a period is itself two steps (`MissBalance`, `SeedAndDraw` or `SeedFails`), because under READ COMMITTED two draws may both find no row; the entry's row lock, held meanwhile, is `Locked`. Dates are month numbers: monthly cycle and whole-month terms, which is the default contract, so `period_for` is the month itself (`BillingPeriods` has the calendar) and `Target` keeps its one surprise, the fallback to the first window of a renewed term. `BillEntries` is `create_invoice_from_time_entries` up to the mark on the time entries; the mileage entries that the same transaction bills and marks draw no hours and are left out.

### BillingPeriods and RecurringBilling

`BillingPeriods` has days as numbers and months of given lengths; `AddMonths` clamps as chrono does, and both walks step from the period before, as the code does, so a contract that starts on 31 January drifts to the 28th in both. `CurrentBillingPeriod` and `PeriodFor` are recursive functions in the order the code loops.

`RecurringBilling` state: `contract` and `item` (rows), `invoices` (each with its ledger row: the code writes and never deletes them together), `server` (where each server's sweep is) and `today`. A sweep reads the candidates once (`StartSweep`: `todo` holds them as read, and `Current` is the one with the least id, the order of the query), then for each contract skips it, fails on the roll (`RollFails`, for the contracts in `Broken`), reads its items (`ReadItems`) and bills in one transaction (`Bill`: ledger row, claims of one-off items, lines) or not at all. An error ends the sweep of the tenant, so later contracts wait; so does a crash (`Abort`). Staff edit contracts and items, and `ExpireOrRenew` moves terms. `UpdateContract` sets the status, the cycle, the last day or the renewal, one per edit: a request that sets several is a sequence of edits, which `MaxEdits` bounds. Amounts are left out.

A renewed contract has the status `renewed`, which the sweep does not take up (documented at service.rs:1912); the model follows the code.

### InvoiceReminders

State: `clock` (hours of the tenant), `settings`, `owed` and `reachable` (what the sweep reads of an invoice), `reminders` (keys of `invoice_reminders`) and `run` (each server's sweep). A sweep takes the time (`StartRun`), reads (`ReadDue`), inserts its claims and commits (`ClaimDue`), mails (`Mailed`, `MailRefused`) and deletes the claim of a refused mail (`Release`); `EndEarly` stops it anywhere with the claims it has. What the ledger does to an invoice is one action, `LedgerWrites`. An hour ends (`TimePasses`) after a sweep began in it, or without one as a fault. Keys come out of the batch in any order, which allows more than the code's order.

### Notifications

State: `rows` (the table in order of creation), `worker` (the batch each worker holds), `active` users. `Dispatch` writes the fan-out of the matching rules in one transaction. A rule's users, contacts, addresses and channels are lists, as in the code, which does not deduplicate them; a row is queued for each place in them (`Places`, `place`), and a caller's recipient is appended where the list does not have it (`Listed`). A free address that is a listed user's address is left out, where both are compared in lower case (`Lower`, `IsAddressOf`). Two accounts whose addresses differ only in case are two recipients, because `users` is unique over the address as stored. `QueuedOnce` says what this amounts to: nobody is queued both as a user and by the user's address, and nobody twice unless the rule itself lists the recipient or the channel twice. A worker's tick is `Claim`, `Resolve`, `Deliver` for each row and `Settle`, with `Crash` in between. `next_attempt_at` is a Boolean, in the past or not; `TimePasses` moves it, also under a batch still at work (bounded by `MaxOutlasted`). The relay accepts, fails for good, fails for now, or accepts and lets its answer be lost.

### SlaClock

The inputs (a schedule document, a time zone, holidays, a start, a budget) are variables that never change; an iteration of the loop of `due_at_business_hours` is a step: skip a day, use a window, return. A window is known by its place in the document (its entry, and where it stands there); `Windows` are those of a weekday that `parse_window` keeps, and `Before` is their order after `parse`: sorted within an entry, the entries one after the other as they come. The first window that is not over (`NextWindow`) is where the code's inner loop stops. A window ends before midnight, because `parse_hhmm` reads no 24:00.

An instant is a tick of UTC. A zone maps the instants at which it changes to its offset from then on; `Local` is `with_timezone`, `Readings` is `from_local_datetime` (both chrono-tz's), and `LocalDt` is `local_dt`: the earliest instant that shows a local time, the next local time shown when there is none, at most `GapCap` ticks on (180 minutes in the code), and the UTC reading beyond that. Days are therefore as long as the zone makes them: a tick stands for any unit that starts, windows, budgets and changes are multiples of, and the walk over a gap, which the code makes minute by minute, ends at the same instant because zones change at whole minutes. `ZoneAssumption` is what zones have in common: an offset is less than a day, a change does not set the clock back behind the change before it, and leaves out no more than `GapCap`. The zones that left out a whole day when they crossed the date line (Samoa in 2011) are excluded by it.

`Open` and `OpenTime` are the reference definition, which counts the instants at which the clock shows a time in a window one by one. The walk agrees with it except where the code's choice of the earliest instant shows: when the clock is set back past a midnight or an opening, and was past it already (`OpensOnce` excludes this), or past a closing (`ClosesOnce`); section 5 has what happens then. The usual changes, an hour at night, meet only windows that open, close or span that hour.

### TicketSla

One ticket. A request is the chain of transactions of the code: the write itself, the automation rules, the evaluation's read, its write, and for a create the standard due date; `StepFails` skips a step whose error is only logged, `RequestLost` ends the request. The rules that match run in one transaction over one read of the ticket: for each field the last rule that sets it decides (`LastWritten`). Two replicas of the sweep read the row once per tick, claim a kind in `sla_notifications`, then dispatch. A due time is the priority's budget after time 0. The workflow rules are another mechanism: `ticket.created`, `ticket.status_changed` and `ticket.priority_changed` rules run inside the transaction of the create or the update and may set status, priority and assignee, and fire each other up to a depth. They are modelled by their outcome (`RunWorkflow`, any member of `Workflow`); a request that sets neither status nor priority fires none. That the new value must also differ from the one read is left out, which allows more.

### Quotes

One quote. A request is a reading step and a writing step, because all handlers but `convert_quote` read the status without a lock and write unconditionally; `locked` is the row lock where it is held across steps (a send at the mail relay, a decision that counts the chain, a conversion). Ghosts: `projects` made, `revived` (writes over `converted`), `steady` (no row was withdrawn since a decision counted the chain), `settled` (nor since it committed, and no other request has set the status), `signed` (the content at the last send). A decision of another approver clears neither `steady` nor `settled`: that it must not count before the first commits is left to the row lock.

## 3. Runs

Every passing run sets `CHECK_DEADLOCK FALSE`: ids, requests and time are bounded, so a behaviour may use all of them up and stop.

| Run | Instance | Shows |
|---|---|---|
| `LedgerMoney` | 1 invoice, 2 updates, 3 payments, 1 charge, 2 refunds, 1 note; lines of 1 or 2, a discount or none, a rate whose tax is rounded or none | the cached balance, the derived status, no over-collection, idempotent webhooks, terminal statuses; frozen documents are never rewritten |
| `LedgerDocuments` | 3 invoices, 2 updates, 1 payment, provider issues and voids | one replacement per invoice |
| `Numbering` | 2 tenant counters (one seeded), 2 customers, 2 prefixes, 2 transactions, 2 documents per series, fair | unique dense numbers, one prefix per customer, refinement of `GaplessNumbers`, every create ends |
| `Hours` | 1 entry, 2 requests, 2 invoices, 3 periods, renewal, cap 1 | balances add up, draws are backed, repeated rolls stay within the cap, an entry is charged once |
| `Recurring` | 2 contracts (the second always fails), 2 items, 2 servers, days around two period ends, 1 edit, 1 abort | no day invoiced twice, one-off items once, the two period walks agree, due periods get billed |
| `Reminders` | 2 invoices due on following days, 2 servers, 5 hours over 3 days, 1 change, 1 fault | one mail per step, rows tell mails, due steps are taken up, refinement of `AtMostOnce` |
| `Notifications` | 2 workers, 3 rules, 2 callers' contexts, 2 rows, a ladder of 1, 1 crash, 1 outlasted claim | repeated mails explained, nobody queued twice, every row ends |
| `SlaClock` | a two-day week, days of 7 ticks, split and overlapping shifts, two entries for one weekday in either order, holidays, starts and budgets at every boundary, a cap of 9 rounds; 8 zones whose clock goes back past an opening, a closing and a midnight, forward over a window and a midnight, and there and back | the budget is conserved, the due time is never early and, where nothing is repeated and the keys are in order, the earliest; the cap is far |
| `TicketSla` | 2 sessions, 3 requests, 2 replicas, automation rules that change priority and status, a workflow rule that escalates or none, 1 fault | alerts once, the SLA's date wins, breaches claimed, refinement of `AtMostOnce` |
| `Quotes` | 3 sessions, 4 requests, 2 staff rows, 1 contact row, 1 fault | conversions are serialised, the chain settles |
| `LedgerRefundFirst`, `QuotesTwoProjects` | as above | violations: section 5 |

Why the bounds are enough. Ledger: its hazards need two writers of one invoice, a charge with two partial refunds, and for amendments an original with two candidates, hence three invoices; amounts 1 and 2 against totals of 0 to 3 (lines of 1 or 2, a discount of 1 or none, tax of a quarter, rounded at half a unit) give exact, partial and excess payments, and updates whose lines, tax and discount all differ from what they would overwrite. Numbering: two transactions give a winner and a loser of every race, and further creates follow them; two prefixes for two customers make collisions frequent. Hours: one entry of 2 or 4 hours against 3 included hours gives covered, partly covered and uncovered draws; three periods with a two-month term reach a renewal in the middle of a roll. Recurring: two servers give every race for a period, the calendar has months of 31 and 28 days and a start on the 31st, and the failing contract comes after the healthy one because the code promises nothing for the others. Reminders: two invoices whose first and second steps fall on the same day, two sweeps in one hour, a sweep that reads its candidates in a later hour. Notifications: a second worker takes over a dead or slow one's claim, and one rung of the ladder gives a retry and the end of retries; a batch holds both rows, so the LIMIT of a claim is never reached. SlaClock: the budgets include one that the nine rounds cannot use up, so the cap is reached, and every zone has its change inside the walk. TicketSla: a slow create against an update with a re-evaluation is two requests; a third closes or reopens. Quotes: a double click against a conversion is three requests, and a second conversion the fourth. All invariants, action properties and refinements of these runs are also proved without bounds (section 6).

Each property of a passing run has a mutant in `PROJECT.json`: a plausible bug in a mapped definition under which TLC finds the property violated. `QuoteTypeOK`, `ClockTypeOK` and `RemindersTypeOK` are type invariants that hold in the same instances and are not listed as properties of a run.

## 4. Fairness

| Run | Assumed | Because |
|---|---|---|
| `Numbering` | strong fairness of each transaction's own steps | a request that started keeps running, and PostgreSQL queues the transactions waiting for a row lock and wakes them in turn; `Begin` and `Rollback` are not fair |
| `Recurring` | weak fairness of the servers' sweep steps together | some server's scheduler ticks and finishes its sweep; aborts, edits and days are not fair, aborts are bounded |
| `Reminders` | weak fairness of each server's sweep, start included | `run_job_loop` ticks for ever and logs errors; time, changes and faults are not fair. That an hour does not end before a sweep began in it, unless as a fault, is the hourly interval of `main.rs` |
| `Notifications` | weak fairness of each worker's tick and of time | the dispatcher ticks every few seconds and `next_attempt_at` lies at a fixed time |
| `TicketSla` | weak fairness of each replica's sweep | the sweep is a job of the same scheduler |

`LedgerMoney`, `LedgerDocuments`, `Hours`, `SlaClock` and `Quotes` check safety only, which no fairness assumption affects.

## 5. Where the code and its documents disagree

The definitions below state what a document or comment of the repository says and the code does not keep; TLC finds each of them violated. Two have a run, and `PROJECT.json` quotes the lines. The others can be checked by naming the definition as `INVARIANT` or `PROPERTY` in the configuration given.

| Definition | Run, or configuration | What happens |
|---|---|---|
| `RefundsConverge` | `LedgerRefundFirst` | a refund event before its payment event is acknowledged and lost |
| `OneProject` | `QuotesTwoProjects` | a second click on Accept lands after the conversion; the next conversion makes a second project |
| `RefusedRetried` | in `Reminders.cfg` | "a refused send releases the claim so the next run tries again" (`docs/invoice-lifecycle.md:67`): the next hourly run is outside the sending hour, and the next day is no step |
| `SignedOffContent` | in `Quotes.cfg` | an edit that read `draft` lands after the quote was sent, and the client accepts other figures |
| `ClosedAtStands` | in `TicketSla.cfg` | SPEC-7.8: of two updates that both read the ticket open, the second overwrites `closed_at` |
| `DueFollowsPriority` | in `TicketSla.cfg`, when `MCTargets` gives both priorities a target | two evaluations cross and the older one's due times stay |
| `AlertsDelivered` | in `TicketSla.cfg` | the claim comes before the dispatch, so a crash loses the alert; `sla/worker.rs:24` and migration 027 say the row follows a successful dispatch |
| `HeaderMatchesLines` | in `LedgerMoney.cfg` | two updates of one draft; the second writes back the subtotal it read before the first replaced the lines |
| `VoidLeads` | in `LedgerDocuments.cfg` | the status CASE tests the write-off before the void, so a provider's void is undone by the next payment |
| `SentWasSent` | in `LedgerMoney.cfg` | `PUT` moves a draft to `paid`; a payment and its deletion derive `sent`, with no `sent_at` and no document |
| `DraftNobodyTold` | in `LedgerMoney.cfg` | the mail is out, the transaction rolls back |
| `ReplacedOwesNothing` | in `LedgerDocuments.cfg` | a payment on a replaced (void) invoice is accepted and gives it a balance again |
| `CollisionRetries` | in `Numbering.cfg` | the retry after a prefix collision runs in an aborted transaction and fails |
| `CreatesSerialise` | in `Numbering.cfg` | the first two quotes at once: one fails on the primary key |
| `PrepaidNotInvoiced` | in `Hours.cfg` | an invoice between an entry's insert and its draw charges prepaid hours |
| `HoursAccountedFor` | in `Hours.cfg` | a draw between release and delete disappears with the row |
| `BilledStaysBilled` | in `Hours.cfg` | an update that read the entry before it was billed puts `ready_to_bill` back (`ChargedOnce` still holds: `invoice_id` stays set) |
| `RolledWereUnused` | in `Hours.cfg` | hours that rolled on are drawn again by late time in the closed period |
| `ExpiredStillCovers` | in `Hours.cfg` | late time for a month of a contract that is no longer active does not draw |
| `RenewedForSameSpan` | in `Hours.cfg` | a term of n whole months renews for n - 1 |

Further observations without a definition: `approvals::cancel` writes over a decision made since its read, and withdrawing the last pending row leaves the quote submitted, since nothing counts the chain again; a rejected row of an earlier round vetoes a resubmitted quote at once (the model allows both, and `ChainSettles` speaks only of the moment after a decision). An organisation that cannot be read after the claims are committed loses the whole batch of reminders (service.rs:2163). SPEC-7.567 (`notifications/service.rs:1366`, `docs/specification.md:2169`) says the recipients of a rule are "each deduplicated"; the code compares only the caller's recipient with the lists, so a rule that lists a user, an address or a channel twice queues two rows. A payment that staff file under a gateway reference for another amount than the gateway took is refunded by what the gateway gives back: with a payment of 1 under the reference of a charge of 10, its refund leaves `amount_paid` at -9, a payment of 19 is then accepted on a total of 10, and deleting the first one leaves the invoice overpaid; without the exception for `misfiled`, `NoOverCollection` is violated in `LedgerMoney.cfg`. A comment at `tickets/service.rs:1017` says that the transition rules only log; `workflows/executor.rs:487` applies their actions.

The clock of an SLA takes a local time that comes twice for its first occurrence (SPEC-7.112). Three things follow that its comment ("consuming `budget` only from open windows", `sla/clock.rs:305`) does not say, and each is a behaviour of the model that `OpensOnce` or `ClosesOnce` sets apart; without these hypotheses `BudgetConserved` is violated in `SlaClock.cfg`. A window that opens inside the repeated hour is entered at the first occurrence and stays entered while the clock shows earlier times again, so budget is used outside the window and the due time is early. A window that closes inside it is over at the first occurrence, and its second is not used. And where the clock is set back behind midnight, a walk that starts after the change, on the day that is shown again, goes back in time: `next_day_start` is the first occurrence of that midnight, which has passed.

Two concurrent `stop_timer` requests make two time entries (`time_tracking/service.rs:1502`).

## 6. Proofs

All theorems are for every value of the constants, under the named assumptions of the modules, which TLC evaluates in the runs. They say that amounts, days and counters are natural numbers (`AmountsAssumption`, `HoursAssumption`, `RemindersAssumption`, `TicketAssumption`, `QuoteConstants`), that a schedule document has weekdays and windows inside a day (`ClockAssumption`), what time zones have in common (`ZoneAssumption`, section 2), that `None` is not an id or a status, that what is counted is finite (`RefundAssumption`: one webhook carries finitely many refunds; `NotificationsAssumption`: finitely many rules, workers and recipients), that users, contacts and addresses are different things and a rule has lists of them, that a month has 28 to 31 days (`MonthDaysAssumption`), and that rows at the start have their columns (`NumberingAssumption`, `RecurringAssumption`). Bounds such as `MaxEdits` are constants too: the theorems hold for all of them.

**Ledger.** `IInv` is `TypeOK`, the finiteness of the row sets (`FiniteRows`, needed because a sum over rows is a cardinality), `ChargesNameInvoices` (an open or captured charge names an invoice and is for a number of units), `UnissuedCarriesNoMoney` and `LedgerAgrees`. The last two need each other: an update of a draft writes a balance that leaves out credits when it does not touch lines or tax, which agrees with the rows only because a draft has none. `MoneyStep` is the lemma for every action that ends in a recompute; there is one lemma per action below it. Theorems: `TypeCorrect`, `LedgerCorrect`, `DraftsClean`, `IssuedStands`. Four more arguments build on `IInv`:

- `DocInv`, for `StatusTruthful` and `ReplacedOnce`: what each status says of sending, closing and money (`RowHistory`), that an update in flight read a draft that had not gone out (`EditsReadDrafts`), that of the amendments of one invoice one is open and one went out at most (`ReplacementsUnique`), and that what was replaced is void (`ReplacedAreVoid`). The last is what makes the second amendment fail: sending an amendment requires an original that can still be replaced, which a void one cannot (`Replaceable`), and no later recompute takes the void away.
- `EndedAgree` and `ClosedAgree`, for `ClosedIsFinal`: the status is void or written off exactly when one of the two columns it is derived from is set (`EndedAgree`), and without a provider each column agrees with its own status (`ClosedAgree`, under `Delegation = FALSE`). With a provider only the first holds, since a provider may report the void of an invoice that was written off here (`VoidLeads` in section 5): the invoice goes from the one status to the other, but no payment, refund or credit opens it again.
- `GatewayInv`, for `WebhooksCountOnce`: ids and gateway references name one row in the whole tenant, a payment with a reference is what the gateway took, unless its invoice is `misfiled` (`PaymentsCaptured`), a refund row is what the gateway gave back of a payment of the same invoice, and the gateway gives back no more than it took.
- `MoneyBounded` with `GatewayInv`, for `NothingOverCollected`: that `paid` is not negative relates two sums, and holds where payments under a reference are what was captured, which is what `misfiled` records; the bound on credits needs no such condition. A sum is the number of units of its rows; the units of the refunds of an invoice are mapped one to one into those of its payments, charge by charge.

**Numbering.** `NInv` adds to the types: the committed numbers of a series are 1 to its counter (`Dense`), documents carry the label of their series (`Labelled`), committed prefixes differ (`PrefixesDiffer`), a transaction's record agrees with its program counter (`RowOK`), and two transactions never hold the same lock (`Apart`). Theorems: `NumberingTyped`, `PrefixStable`, `NumbersUnique`, `NumberingRefines` (each step is an `Issue` of the abstract specification or a stutter).

**Hours.** `HInv` adds: each balance row adds up (`BalanceOK`), a stamp is whole (`WholeStamps`: an entry that drew names its balance), entries on an invoice have their `invoice_id` (`ChargedAreMarked`), and `DrawsAreBacked`. The last is about a sum over entries, taken as a cardinality; `TotalSplits` and `TotalChanges` say how it changes when one entry does. Theorems: `HoursTyped`, `BalancesExact`, `DrawsBacked`, `RolloverBounded`, `EntriesChargedOnce`.

**Periods and recurring invoices.** The two loops are recursive functions on the days that are left, and what such a function computes would be shown by induction. The induction is written as a least counterexample: `WalkExists` builds the walk day by day from the horizon down, and each fact about walks takes the last day at which it would fail and finds a later one. A walk that reaches its target is within its bounds (`WalkRange`), and two walks from one first day end in the same period or in periods without a common day (`WalksApart`). From these, `LoopsCutAlike` (theorem of `PeriodsAgree`): the loop that bills and the loop that draws hours give each day the same period. `Inv` of the sweep says that tables and sweeps have their types and items live in live contracts, that every invoice is of the period of some day under the first day and cycle the sweep had read (`InvoicesOK`), that the ledger has one row per contract and first day (`FirstsUnique`), and that an item invoiced once is marked until it is deleted, is not created again, and is on one invoice (`ItemsKnown`, `OnceClaimed`, `OnceUnique`). `DaysInvoicedOnce` follows from the last of the walk lemmas and `FirstsUnique`: neither suffices alone, because the ledger's key has only the first day. Theorems: `RecurringTypeCorrect`, `DaysInvoicedOnce`, `OnceItemsBilledOnce`, `LoopsCutAlike`.

**Reminders.** `IInv` adds to the types that two sweeps never hold the same claim (`ClaimsDisjoint`), a claim has its row and no mail yet (`ClaimsUnmailed`), and a row without a mail is with a sweep or was left by one that ended early (`RowsAccounted`). The insert is what makes claims disjoint; the release is safe because only the holder deletes. `RemindersRefine` maps a key to its stage in `AtMostOnce` (no row: free; a row and a sweep that holds it: claimed; a row that nobody holds: over) and shows step by step that `ClaimDue` claims a set of free keys, `Mailed` delivers, `Release` gives back, `EndEarly` loses all that the sweep held, and every other step is invisible. `MailedOnce` states what follows for a single step. Theorems: `MailedOnce`, `TableTellsMails`, `RemindersRefine`.

**Notifications.** `RowsFit`, `DispatchesFit` and `RowsApart` say what a row may be, that the rows of a dispatch come from one context and each stands for a place in the lists of its rule, and that no two of a rule stand for the same place. Two rows for one recipient are then two places with the same entry, which `Listed` leaves only where the rule itself repeats it. `RightsAccounted` is the argument for mails: call a right to send a row what a worker has that claimed it and has not sent it, and what the queue has while the row can be claimed. Then the mails beyond those owed to lost answers, crashes and outlasted claims, plus the rights, are never more than one. A claim moves the right from the queue to a worker, a delivery uses it, a retry moves it back. A row that fell due under a worker still at work is again a right of the queue, which is where `outlasted` is charged. Theorems: `NotificationsTypeCorrect`, `MailsCounted`, `NobodyQueuedTwice`.

**Tickets.** `IInv` is the types, `SlaDateWins`, `ClaimsExclusive` (a kind is with one replica and none that has it finds it dispatched) and `LedgerRemembers` (what was claimed or dispatched is in `sla_notifications` as long as the ticket is there, and a deleted ticket does not come back). `LastPosition` gives the rule that decides a field. `AlertsRefine` maps a kind that a replica has to claimed, and one in the ledger, or of a ticket that was deleted, to over. Deleting the ticket empties the ledger; no kind becomes free by that because the ticket does not come back, which is why the mapping and `LedgerRemembers` speak of `created`. Theorems: `TicketTypeCorrect`, `SlaDateCorrect`, `AlertedOnce`, `AlertsRefine`.

**Quotes.** `ConversionInv` is `Counters` (the ghosts are numbers, the sessions well formed), `LockHeld` (a request in a step that took the row lock still has it, a conversion still finds the quote `accepted`, and only a conversion is about to write `converted`) and `Disowned` (a quote that is not `converted` has no more projects than stale writes over `converted`, and one more when it is). `ConvertedOnce` alone says nothing of a conversion under way; the lock keeps what it read true until it writes. `ChainInv` is the type of the approval rows with `ChainSettles`, and `CountHolds` says of a decision that has counted and not committed that the chain still is as it counted it, as far as the status it will write depends on it. That another approver does not change the rows in between needs the lock: with `LockHeld`, no two decisions have both counted (`CountedAlone`), so the commit of one finds no other between its count and its commit. A row that is created only adds somebody to wait for, and one that is withdrawn clears `steady`. Theorems: `QuoteConvertedOnce`, `QuoteChainSettles`.

**SLA clock.** `ClockInv` is the types, that the cursor is not before the start, `BudgetConserved`, and that the last tick of a budget that is used up was a working one, the last three where the clock is not set back behind a midnight or an opening. `OpenTime` counts ticks one by one, so the argument is about intervals: a stretch of time can be cut anywhere (`OpenTimeSplits`), a closed one counts nothing and an open one its length. A step of the walk crosses a closed stretch and then an open one: the rest of a day without a window ahead is closed (`NextDayInv`), and from where it enters a window to where it leaves all is open (`WindowUsed`). Both need that local time and instants are ordered alike: between two changes they are (`SameChange`), what `local_dt` gives for a time is its first reading or the end of the gap it lies in (`FirstReading`), and the clock does not come back behind a time that is not in `SetBack` once it has shown it (`NoReturn`, `ReadingsOrdered`). That is where `OpensOnce` and `ClosesOnce` are used, and why they are the hypotheses of the properties.

That the wait for the window is closed needs that the first window of the list opens first (`FirstOpensFirst`). Within an entry the sort gives it; between two entries for one weekday nothing does, so both properties ask for equality only of a document that is `KeysInOrder`: of two entries for the same weekday, no window of the later one opens before one of the earlier. Every document with one key per weekday is. One with the keys `"1"` and `"mon"` need not be: the windows of Monday are then unsorted (`sla/clock.rs:167`), working time is skipped, and the due time is late, never early.

`CapInv` bounds the rounds done, and those the day may still take (one for each window ahead, and one to leave it), by the days gone; a step that stays on its day uses up a window, and one that leaves it goes to a later date, changes of the clock included. Theorems: `WorkingTimeConserved`, `DueEarliest`, `CapReachedLate`.

Only model-checked, and out of the prover's reach, are the liveness properties `EveryCreateEnds`, `DuePeriodsBilled`, `StepsReminded`, `EveryRowEnds` and `BreachClaimed`. The definitions of section 5 are false.

## 7. Not modelled

Most of the repository by lines is CRUD, queries, text and adapters: HTTP, authentication and row-level security; text, layout and PDF; currencies and contacts of invoices; rounding of worked minutes, day caps and timesheets; rate cards; the CRUD of policies, calendars, templates, rules and lookup tables; reports, portal views, knowledge base, forms, assets and RMM adapters. Contact synchronisation, e-mail intake, timers and delegated issuing have state and failures worth a module and have none yet. A transaction is atomic and isolated as far as its row locks make it: the models rest on PostgreSQL's READ COMMITTED rules, not on a model of the database. Time zones are modelled in `SlaClock` only: elsewhere a day is the tenant's day.

## 8. Plan

1. `DelegatedIssuing`: the push of invoices and credit notes, the void of a replaced invoice, and the provider's webhook, composed with the ledger; eventual agreement.
2. Timers (`stop_timer`), contact synchronisation, e-mail intake, sessions and token rotation.
