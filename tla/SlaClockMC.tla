----------------------------- MODULE SlaClockMC -----------------------------
(* Days of seven ticks and weeks of two days.                              *)
EXTENDS SlaClock, TLC

W(s, e) == [start |-> s, end |-> e]

(* One entry per weekday: up to two windows on the first day, in any       *)
(* order, overlapping or not, inverted ones included, and at most one on   *)
(* the second.                                                             *)
OneKey ==
  { <<[day |-> 0, windows |-> first], [day |-> 1, windows |-> second]>> :
      first  \in {<<>>, <<W(4, 2)>>}
                 \cup {<<v, w>> : v \in {W(1, 3), W(2, 5)},
                                  w \in {W(0, 2), W(2, 5), W(5, 6)}},
      second \in {<<>>, <<W(2, 4)>>, <<W(0, 6)>>} }

(* Two keys for one weekday ("1" and "mon"), each with one window.         *)
TwoKeys ==
  { <<[day |-> 0, windows |-> <<v>>], [day |-> 0, windows |-> <<w>>]>> :
      v \in {W(1, 2), W(3, 5)}, w \in {W(1, 2), W(3, 5)} }

MCSchedules == OneKey \cup TwoKeys

MCHolidays == {{}, {1}, {0, 2}}

Change(at, before, after) == 0 :> before @@ at :> after

(* No change, and changes on the second day: back past an opening, past a  *)
(* closing, at midnight and past it; forward over a window and over a      *)
(* midnight; and there and back again.                                     *)
MCZones ==
  { 0 :> 0,
    Change(9, 1, -1), Change(10, 2, -1), Change(13, 1, -1), Change(14, 2, -1),
    Change(9, 0, 2), Change(13, -1, 1),
    0 :> 0 @@ 9 :> 2 @@ 20 :> 0 }
=============================================================================
