--------------------------- MODULE BillingPeriods ---------------------------
(***************************************************************************)
(* The date arithmetic of billing: how a contract's billing cycle cuts     *)
(* time into periods.  A date is the number of the day in a window of      *)
(* calendar months; nothing outside the window is asked for.               *)
(***************************************************************************)
EXTENDS Integers, Sequences, FiniteSetsExt

CONSTANT MonthDays      \* the lengths of the months of the window, in order

ASSUME MonthDaysAssumption ==
  MonthDays \in Seq(28..31) /\ MonthDays # <<>>

(* The first day of each month, and the day after the window.              *)
FirstOfMonth[m \in 1..Len(MonthDays) + 1] ==
  IF m = 1 THEN 1 ELSE FirstOfMonth[m - 1] + MonthDays[m - 1]

Horizon == FirstOfMonth[Len(MonthDays) + 1]

Date == 1..Horizon - 1

MonthOf(d) ==
  CHOOSE m \in DOMAIN MonthDays : FirstOfMonth[m] <= d /\ d < FirstOfMonth[m + 1]

(* chrono's checked_add_months: the same day of the month n months on, or  *)
(* the last day of that month when it is shorter.                          *)
AddMonths(d, n) ==
  LET m   == MonthOf(d) + n
      day == d - FirstOfMonth[MonthOf(d)]
  IN IF m > Len(MonthDays) THEN Horizon
     ELSE FirstOfMonth[m] + Min({day, MonthDays[m] - 1})

Recurring == {"weekly", "bi_weekly", "monthly", "quarterly", "annually"}

(* CycleStep::from_cycle and CycleStep::advance.                           *)
Advance(cycle, d) ==
  CASE cycle = "weekly"    -> Min({Horizon, d + 7})
    [] cycle = "bi_weekly" -> Min({Horizon, d + 14})
    [] cycle = "monthly"   -> AddMonths(d, 1)
    [] cycle = "quarterly" -> AddMonths(d, 3)
    [] cycle = "annually"  -> AddMonths(d, 12)

Period(first, next) == [first |-> first, last |-> next - 1]

NoPeriod == [first |-> 0, last |-> 0]

(* current_billing_period: walk from the contract's first day until the    *)
(* next boundary is after today.                                           *)
CurrentBillingPeriod(cycle, start, today) ==
  LET walk[p \in start..today] ==
        LET next == Advance(cycle, p)
        IN IF next > today THEN Period(p, next) ELSE walk[next]
  IN IF today < start \/ cycle \notin Recurring THEN NoPeriod ELSE walk[start]

(* The walk with the comparison of the other loop: a boundary day belongs  *)
(* to the window it ends.                                                  *)
PeriodForLate(anchor, cycle, when) ==
  LET walk[p \in anchor..Horizon - 1] ==
        LET next == Advance(cycle, p)
        IN IF when <= next THEN Period(p, next) ELSE walk[next]
  IN IF cycle \in Recurring THEN walk[anchor] ELSE Period(anchor, Horizon)

(* ContractsService::period_for, the second walk over the same windows:    *)
(* days before the anchor fall into the first window, and a contract that  *)
(* is billed once has one window without an end.                           *)
PeriodFor(anchor, cycle, when) ==
  LET walk[p \in anchor..Horizon - 1] ==
        LET next == Advance(cycle, p)
        IN IF when < next THEN Period(p, next) ELSE walk[next]
  IN IF cycle \in Recurring THEN walk[anchor] ELSE Period(anchor, Horizon)

(* months_between: calendar months apart, whatever the days.               *)
MonthsBetween(start, end) == Max({0, MonthOf(end) - MonthOf(start)})
=============================================================================
