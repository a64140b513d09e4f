--------------------------- MODULE NotificationsMC ---------------------------
(* Instances of Notifications for TLC.                                     *)
EXTENDS Notifications

CONSTANTS ann, client, home, HOME, other

\* Ann has an account, and one rule also names her address in capitals; the
\* second is for a client's inbox; the third lists an address twice.
Home == [u \in User |-> home]

SmallLetters == [a \in Address |-> IF a = HOME THEN home ELSE a]

Rules ==
  {[users |-> <<ann>>, emails |-> <<HOME>>, contacts |-> <<>>, channels |-> <<"email">>],
   [users |-> <<>>, emails |-> <<>>, contacts |-> <<client>>,
    channels |-> <<"email", "in_app">>],
   [users |-> <<>>, emails |-> <<other, other>>, contacts |-> <<>>,
    channels |-> <<"email">>]}

\* A caller that adds nobody, and one that adds Ann and her address, and the
\* client, where the rule does not list them.
Contexts ==
  {[users |-> None, contacts |-> None, emails |-> None],
   [users |-> ann, contacts |-> client, emails |-> home]}
=============================================================================
