----------------------------- MODULE AtMostOnce -----------------------------
(***************************************************************************)
(* What a sweep that claims before it delivers promises (sla/worker.rs,    *)
(* run_tick; billing/service.rs, send_due_reminders): a thing to tell      *)
(* somebody is told once at most.  It is claimed before it is delivered;   *)
(* once it has been delivered or given up it is over, and nobody claims it *)
(* again.  Only a claim that is given back frees it.                       *)
(***************************************************************************)
EXTENDS Naturals

CONSTANT Item   \* what may be delivered

VARIABLES
  stage,        \* where each item is: "free", "claimed" or "over"
  sent          \* how often it was delivered

Init ==
  /\ stage = [k \in Item |-> "free"]
  /\ sent = [k \in Item |-> 0]

Move(items, from, to) ==
  /\ items # {}
  /\ \A k \in items : stage[k] \in from
  /\ stage' = [k \in Item |-> IF k \in items THEN to ELSE stage[k]]

(* One sweep claims several items in one commit.                           *)
Claim == \E items \in SUBSET Item : Move(items, {"free"}, "claimed") /\ UNCHANGED sent

Deliver(k) ==
  /\ Move({k}, {"claimed"}, "over")
  /\ sent' = [sent EXCEPT ![k] = @ + 1]

Release(k) == Move({k}, {"claimed"}, "free") /\ UNCHANGED sent

(* The sweep that had claimed them ended, or what they are about is gone.  *)
Lose == \E items \in SUBSET Item : Move(items, {"free", "claimed"}, "over") /\ UNCHANGED sent

Next == Claim \/ Lose \/ \E k \in Item : Deliver(k) \/ Release(k)

Spec == Init /\ [][Next]_<<stage, sent>>
=============================================================================
