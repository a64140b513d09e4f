--------------------------- MODULE InvoiceReminders ---------------------------
(***************************************************************************)
(* Reminders for overdue invoices: the hourly sweeps of several servers    *)
(* claim the invoices whose days past due are a step of the tenant's       *)
(* schedule, commit, mail them with no transaction open, and release the   *)
(* claim of a mail the relay refused.  A claim is a row of                 *)
(* invoice_reminders, and is also the record that the mail was sent.       *)
(*                                                                         *)
(* Time is counted in hours of the tenant's zone.  What the ledger does to *)
(* an invoice is one step here: InvoiceLedger has its operations.          *)
(***************************************************************************)
EXTENDS Integers, FiniteSets

CONSTANTS Invoice, Server,
          DueDate,      \* the due date of each invoice, frozen when it is issued
          Offset,       \* the days past due a schedule may name
          HoursPerDay, LastHour,
          Owed,         \* what an invoice may owe
          MaxChanges,   \* how often staff and customers change something
          MaxFaults     \* how often a sweep dies, fails or comes an hour late

ASSUME RemindersAssumption ==
  /\ DueDate \in [Invoice -> Nat]
  /\ Offset \subseteq Nat \ {0}
  /\ HoursPerDay \in Nat \ {0} /\ LastHour \in Nat
  /\ Owed \subseteq Nat
  /\ {MaxChanges, MaxFaults} \subseteq Nat

VARIABLES clock, settings, owed,
          reachable,    \* invoices with an address to mail to
          reminders,    \* the keys of invoice_reminders: an invoice and a step
          run,          \* the sweep of each server
          ran,          \* a sweep has started in this hour
          surplus,      \* mails accepted for a key, less the answers lost
          refused,      \* keys refused and not tried again since
          dropped,      \* keys whose claim was left by a sweep that ended early
          disturbed,    \* keys a fault or a change came in the way of
          changes, faults

history == <<surplus, refused, dropped, disturbed>>
vars == <<clock, settings, owed, reachable, reminders, run, ran, history, changes, faults>>

Key == Invoice \X Offset

Settings == [enabled : BOOLEAN, schedule : (SUBSET Offset) \ {{}}, send_hour : 0..(HoursPerDay - 1)]

(* A server's sweep: the time it took, the keys it still has to deal with, *)
(* and the one whose mail was refused.                                     *)
Idle == [phase |-> "idle", now |-> 0, due |-> {}, failed |-> {}]

RemindersTypeOK ==
  /\ clock \in 0..LastHour /\ settings \in Settings
  /\ owed \in [Invoice -> Owed] /\ reachable \subseteq Invoice
  /\ reminders \subseteq Key /\ refused \subseteq Key
  /\ dropped \subseteq Key /\ disturbed \subseteq Key
  /\ run \in [Server -> [phase : {"idle", "started", "read", "sending", "release"},
                         now : 0..LastHour, due : SUBSET Key, failed : SUBSET Key]]
  /\ ran \in BOOLEAN /\ surplus \in [Key -> Int]

Init ==
  /\ clock = 0 /\ ran = FALSE
  /\ settings \in {s \in Settings : s.enabled}
  /\ owed \in [Invoice -> Owed \ {0}] /\ reachable = Invoice
  /\ reminders = {} /\ run = [s \in Server |-> Idle]
  /\ surplus = [k \in Key |-> 0]
  /\ refused = {} /\ dropped = {} /\ disturbed = {}
  /\ changes = 0 /\ faults = 0

-----------------------------------------------------------------------------
Today(now) == now \div HoursPerDay

Hour(now) == now % HoursPerDay

Days(i, now) == Today(now) - DueDate[i]

(* A sweep that takes an invoice for overdue a day late.                   *)
OverdueADayLate(now) == {i \in Invoice : owed[i] > 0 /\ DueDate[i] + 1 < Today(now)}

(* The candidates: open invoices past their due date.                      *)
Overdue(now) == {i \in Invoice : owed[i] > 0 /\ DueDate[i] < Today(now)}

(* The keys a sweep of the hour `now` takes up: none outside the sending   *)
(* hour, and an invoice nobody can be mailed about is skipped.             *)
DueKeys(now) ==
  IF ~settings.enabled \/ Hour(now) # settings.send_hour THEN {}
  ELSE {<<i, Days(i, now)>> : i \in {j \in Overdue(now) \cap reachable :
                                       Days(j, now) \in settings.schedule}}

(* The keys the current hour, or a sweep under way, is about.              *)
Exposed == {k \in Key : \E now \in {clock} \cup {run[s].now : s \in Server} :
                          k[2] = Days(k[1], now)}

Fault == faults < MaxFaults /\ faults' = faults + 1

-----------------------------------------------------------------------------
(* What goes on around the sweeps.                                         *)

Change(keys) ==
  /\ changes < MaxChanges /\ changes' = changes + 1
  /\ disturbed' = disturbed \cup (Exposed \cap keys)
  /\ UNCHANGED <<clock, reminders, run, ran, surplus, refused, dropped, faults>>

(* A payment, its deletion, a credit, a void: the ledger writes a balance. *)
LedgerWrites(i, amount) ==
  /\ amount # owed[i]
  /\ owed' = [owed EXCEPT ![i] = amount]
  /\ Change({i} \X Offset)
  /\ UNCHANGED <<settings, reachable>>

(* The billing contact gets or loses its address.                          *)
ContactChanges(i) ==
  /\ reachable' = (reachable \ {i}) \cup ({i} \ reachable)
  /\ Change({i} \X Offset)
  /\ UNCHANGED <<settings, owed>>

(* put_setting writes one key of the category at a time.                   *)
PutSettings(new) ==
  /\ Cardinality({key \in DOMAIN settings : new[key] # settings[key]}) = 1
  /\ settings' = new
  /\ Change(Key)
  /\ UNCHANGED <<owed, reachable>>

(* The hour ends after some server's hourly sweep began in it, or without  *)
(* one: every server was down, or still at its last sweep.                 *)
TimePasses ==
  /\ clock < LastHour
  /\ clock' = clock + 1 /\ ran' = FALSE
  /\ \/ ran /\ UNCHANGED <<disturbed, faults>>
     \/ ~ran /\ Fault /\ disturbed' = disturbed \cup Exposed
  /\ UNCHANGED <<settings, owed, reachable, reminders, run, surplus, refused, dropped, changes>>

-----------------------------------------------------------------------------
(* send_due_reminders_all_tenants takes the time once, before it comes to  *)
(* this tenant.                                                            *)
StartRun(s) ==
  /\ run[s].phase = "idle"
  /\ run' = [run EXCEPT ![s] = [Idle EXCEPT !.phase = "started", !.now = clock]]
  /\ ran' = TRUE
  /\ UNCHANGED <<clock, settings, owed, reachable, reminders, history, changes, faults>>

(* claim_due_reminders reads settings, candidates and recipients ...       *)
ReadDue(s) ==
  LET due == DueKeys(run[s].now)
  IN /\ run[s].phase = "started"
     /\ run' = [run EXCEPT ![s] = IF due = {} THEN Idle
                                  ELSE [@ EXCEPT !.phase = "read", !.due = due]]
     /\ UNCHANGED <<clock, settings, owed, reachable, reminders, ran, history, changes, faults>>

(* A claim that does not mind another's.                                   *)
UnclaimedAnyway(due) == due

(* ON CONFLICT DO NOTHING RETURNING id: the keys that were free.           *)
Unclaimed(due) == due \ reminders

(* ... and claims what is free, all in one commit; an INSERT waits for the *)
(* same key of another sweep.                                              *)
ClaimDue(s) ==
  LET mine == Unclaimed(run[s].due)
  IN /\ run[s].phase = "read"
     /\ reminders' = reminders \cup mine
     /\ run' = [run EXCEPT ![s] = IF mine = {} THEN Idle
                                  ELSE [@ EXCEPT !.phase = "sending", !.due = mine]]
     /\ refused' = refused \ mine
     /\ UNCHANGED <<clock, settings, owed, reachable, ran, surplus, dropped, disturbed,
                    changes, faults>>

Done(s, k) == IF run[s].due = {k} THEN Idle
              ELSE [run[s] EXCEPT !.phase = "sending", !.due = @ \ {k}, !.failed = {}]

(* The relay takes the mail, and its answer arrives.                       *)
Mailed(s, k) ==
  /\ run[s].phase = "sending" /\ k \in run[s].due
  /\ surplus' = [surplus EXCEPT ![k] = @ + 1]
  /\ run' = [run EXCEPT ![s] = Done(s, k)]
  /\ UNCHANGED <<clock, settings, owed, reachable, reminders, ran, refused, dropped,
                 disturbed, changes, faults>>

(* It refuses the mail, or takes it and its answer is lost: an error       *)
(* either way, which surplus counts as no mail.                            *)
MailRefused(s, k) ==
  /\ run[s].phase = "sending" /\ k \in run[s].due
  /\ run' = [run EXCEPT ![s].phase = "release", ![s].failed = {k}]
  /\ UNCHANGED <<clock, settings, owed, reachable, reminders, ran, history, changes, faults>>

(* A refused mail that keeps its claim.                                    *)
ReleasedNever(keys) == reminders

Released(keys) == reminders \ keys

(* The claim of a refused mail is deleted, in a transaction of its own.    *)
Release(s) ==
  /\ run[s].phase = "release"
  /\ reminders' = Released(run[s].failed)
  /\ refused' = refused \cup run[s].failed
  /\ \E k \in run[s].failed : run' = [run EXCEPT ![s] = Done(s, k)]
  /\ UNCHANGED <<clock, settings, owed, reachable, ran, surplus, dropped, disturbed,
                 changes, faults>>

(* The server stops, or a statement fails: reading, claiming, loading the  *)
(* organisation after the claims are committed, or releasing one of them.  *)
(* The claims the sweep still holds stay.                                  *)
EndEarly(s) ==
  /\ run[s].phase # "idle" /\ Fault
  /\ run' = [run EXCEPT ![s] = Idle]
  /\ dropped' = dropped \cup IF run[s].phase \in {"sending", "release"} THEN run[s].due ELSE {}
  /\ disturbed' = disturbed \cup Exposed
  /\ UNCHANGED <<clock, settings, owed, reachable, reminders, ran, surplus, refused, changes>>

-----------------------------------------------------------------------------
Sweep(s) ==
  \/ StartRun(s) \/ ReadDue(s) \/ ClaimDue(s)
  \/ \E k \in Key : Mailed(s, k) \/ MailRefused(s, k)
  \/ Release(s)

Next ==
  \/ \E s \in Server : Sweep(s) \/ EndEarly(s)
  \/ \E i \in Invoice : ContactChanges(i) \/ \E amount \in Owed : LedgerWrites(i, amount)
  \/ \E new \in Settings : PutSettings(new)
  \/ TimePasses

(* The scheduler ticks every server's job again and again, and the runtime *)
(* keeps polling a sweep that has begun.                                   *)
Fairness == \A s \in Server : WF_vars(Sweep(s))

Spec == Init /\ [][Next]_vars /\ Fairness

-----------------------------------------------------------------------------
Held(k) == \E s \in Server : run[s].phase \in {"sending", "release"} /\ k \in run[s].due

(* The table tells what was mailed: once no sweep holds it, a row is there *)
(* exactly for a mail the relay confirmed, except for the claims of a      *)
(* sweep that ended early, which stay without a mail                       *)
(* (send_due_reminders, the release).                                      *)
RowsTellMails ==
  \A k \in Key \ dropped : ~Held(k) => (k \in reminders <=> surplus[k] = 1)

Stage(k) ==
  IF k \notin reminders THEN "free" ELSE IF Held(k) THEN "claimed" ELSE "over"

Once == INSTANCE AtMostOnce
          WITH Item <- Key, stage <- [k \in Key |-> Stage(k)], sent <- surplus

(* The table and the sweeps together work as AtMostOnce says: a mail goes  *)
(* out only for a row the sweep itself has inserted, a row is mailed once, *)
(* one left by a sweep that ended early is never mailed, and only the      *)
(* release after a refusal makes a step free again (claim_due_reminders,   *)
(* send_due_reminders).                                                    *)
MailsAtMostOnce == Once!Spec

StepDue(k) ==
  /\ settings.enabled /\ Hour(clock) = settings.send_hour
  /\ owed[k[1]] > 0 /\ k[1] \in reachable
  /\ k[2] \in settings.schedule /\ k[2] = Days(k[1], clock)

(* A step that comes due in the sending hour is mailed or refused, unless  *)
(* a fault, the ledger or staff come in its way, although another invoice  *)
(* of the batch is refused or cannot be mailed (send_due_reminders, under  *)
(* the hourly scheduler).                                                  *)
StepsReminded ==
  \A k \in Key : StepDue(k) ~> (surplus[k] = 1 \/ k \in refused \cup disturbed)

(* What docs/invoice-lifecycle.md:67 says and the code does not do: "a     *)
(* refused send releases the claim so the next run tries again".  The next *)
(* run of the hourly job is in another hour than the sending hour, and the *)
(* next day is another number of days past due.                            *)
RefusedRetried ==
  \A k \in Key : k \in refused ~> (k \notin refused \/ k \in disturbed)
=============================================================================
