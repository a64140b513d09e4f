----------------------------- MODULE TicketSlaMC -----------------------------
(* Two priorities: one with both targets, one that no policy covers.       *)
EXTENDS TicketSla, TLC

CONSTANTS high, bare

MCTargets == high :> [first |-> 1, resolution |-> 1]

(* Escalate an uncovered ticket when it is updated, and close it when it   *)
(* is created: a rule that changes the target, and one the status.         *)
MCRules ==
  << [trigger |-> "on_update", when |-> bare, set_status |-> None, set_priority |-> high,
       assign |-> TRUE],
     [trigger |-> "on_create", when |-> bare, set_status |-> "closed", set_priority |-> None,
       assign |-> FALSE] >>

(* No workflow rule, or one that escalates the ticket.                     *)
MCWorkflow ==
  {NoRequest, [status |-> None, priority |-> high, assigned |-> FALSE]}

MCUpdates ==
  { [status |-> "closed", priority |-> None, assigned |-> FALSE],
    [status |-> "open", priority |-> high, assigned |-> FALSE],
    [status |-> None, priority |-> bare, assigned |-> TRUE] }
=============================================================================
