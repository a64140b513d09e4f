------------------------- MODULE RecurringBillingMC -------------------------
(***************************************************************************)
(* Bounds for RecurringBilling: three months of a common year, a contract  *)
(* that begins on the 31st, and the days around the boundaries of its      *)
(* periods.                                                                *)
(***************************************************************************)
EXTENDS RecurringBilling, TLC

CONSTANTS fee, setup

\* January, February and March; their days are numbered 1 to 90.
JanToMar == <<31, 28, 31>>

\* 31 January, 28 February, 28 March.
Boundaries == {31, 59, 87}

\* Contract 1 from 31 January, open or until 27 February, renewed or not; an
\* open contract 2; a fee of contract 1 there already or not, and its setup.
Agreements ==
  LET Monthly(end, renew) ==
        [status |-> "active", cycle |-> "monthly", start |-> 31, end |-> end,
         autoRenew |-> renew]
      Of1(rule) == [contract |-> 1, rule |-> rule, billed |-> FALSE]
  IN {[contract |-> <<first, Monthly(NoEnd, FALSE)>>,
       item |-> (fee :> present) @@ (setup :> Of1("once"))] :
        first \in {Monthly(NoEnd, FALSE), Monthly(58, FALSE), Monthly(58, TRUE)},
        present \in {NotYet, Of1("every_period")}}
=============================================================================
