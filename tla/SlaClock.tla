------------------------------ MODULE SlaClock ------------------------------
(***************************************************************************)
(* The business-hours clock of an SLA: when a budget of working time that  *)
(* starts at a given instant is used up.  clock.rs walks the schedule from *)
(* window to window; an iteration of its loop is a step here.              *)
(*                                                                         *)
(* An instant is a number of ticks of UTC.  The schedule is in local time, *)
(* which a time zone sets apart from UTC by an offset that changes at some *)
(* instants: forward, and local times are left out, or back, and local     *)
(* times come twice.                                                       *)
(***************************************************************************)
EXTENDS Integers, Sequences, FiniteSetsExt, Functions

CONSTANTS
  DayLength,    \* ticks from one local midnight to the next on the clock's face
  WeekLength,   \* days in a week
  MaxRounds,    \* the cap on the walk's iterations
  GapCap,       \* how far local_dt looks for the end of a gap
  Zones,        \* time zones: the instants of a change -> the offset from then on
  Schedules,    \* schedule documents: sequences of [day, windows] entries
  Holidays,     \* sets of dates on which nobody works
  Starts,       \* instants at which a clock may start
  Budgets       \* budgets, in ticks

ASSUME ClockAssumption ==
  /\ {DayLength, WeekLength, MaxRounds} \subseteq Nat \ {0}
  /\ Schedules \subseteq Seq([day : 0..WeekLength - 1,
                              windows : Seq([start : 0..DayLength - 1, end : 0..DayLength - 1])])
  /\ GapCap \in Nat
  /\ Starts \subseteq Nat
  /\ Budgets \subseteq Nat

(* What the zones have in common.  An offset is less than a day, the local *)
(* clock is never set back behind the last time it was changed, and a      *)
(* change leaves out no more than local_dt can step over.                  *)
ASSUME ZoneAssumption ==
  \A z \in Zones :
    /\ DOMAIN z \subseteq Nat /\ 0 \in DOMAIN z
    /\ \A a \in DOMAIN z : z[a] \in -DayLength..DayLength
    /\ \A a, b \in DOMAIN z :
         a < b => /\ a + z[a] <= b + z[b]
                  /\ z[b] - z[a] <= GapCap \/ \E c \in DOMAIN z : a < c /\ c < b

VARIABLES
  document,     \* the stored schedule
  zone,         \* the schedule's time zone
  holidays,     \* the dates of the holiday calendars
  operational,  \* "always" or "business_hours"
  start,        \* when the clock starts
  budget,       \* the working time allowed
  cursor,       \* how far the walk has come
  remaining,    \* the part of the budget not yet used
  round,        \* iterations done
  returned      \* the walk has ended: cursor is the due instant

clockVars == <<document, zone, holidays, operational, start, budget,
               cursor, remaining, round, returned>>

inputs == <<document, zone, holidays, operational, start, budget>>

-----------------------------------------------------------------------------
(* Local time: what the clock shows, as ticks since some local midnight.   *)

DateOf(n)    == n \div DayLength
Midnight(d)  == d * DayLength
WeekdayOf(d) == d % WeekLength

(* The change in force at an instant; the first offset held before it too. *)
LastChange(t) == Max({a \in DOMAIN zone : a <= t} \cup {0})

(* with_timezone.                                                          *)
Local(t) == t + zone[LastChange(t)]

(* from_local_datetime: the instants at which the clock shows n.           *)
Readings(n) == {t \in {n - zone[a] : a \in DOMAIN zone} : Local(t) = n}

(* local_dt: the earliest of them; when there is none, of the next time    *)
(* shown; and the UTC reading when that is too far.                        *)
LocalDtLatest(n) ==
  LET Shown == {m \in n..n + GapCap : Readings(m) # {}}
  IN IF Shown = {} THEN n ELSE Max(Readings(Min(Shown)))

LocalDt(n) ==
  LET Shown == {m \in n..n + GapCap : Readings(m) # {}}
  IN IF Shown = {} THEN n ELSE Min(Readings(Min(Shown)))

-----------------------------------------------------------------------------
(* Reading the schedule.                                                   *)

(* A window has a place: its entry in the document and where it stands     *)
(* there.                                                                  *)
Places == UNION {{k} \X DOMAIN document[k].windows : k \in DOMAIN document}

WindowAt(p) == document[p[1]].windows[p[2]]

(* parse: entries that name the same weekday are put together.  An         *)
(* inverted or empty window is dropped (parse_window).                     *)
Windows(weekday) ==
  {p \in Places : document[p[1]].day = weekday /\ WindowAt(p).end > WindowAt(p).start}

(* The order of a day's windows.  Those of an entry are sorted by their    *)
(* start, equals staying as they are; those of a later entry come after.   *)
Before(p, q) ==
  \/ p[1] < q[1]
  \/ p[1] = q[1] /\ WindowAt(p).start < WindowAt(q).start
  \/ p[1] = q[1] /\ WindowAt(p).start = WindowAt(q).start /\ p[2] <= q[2]

HasAnyWindow == \E d \in 0..WeekLength - 1 : Windows(d) # {}

-----------------------------------------------------------------------------
ClockInit ==
  /\ document \in Schedules
  /\ zone \in Zones
  /\ holidays \in Holidays
  /\ operational \in {"always", "business_hours"}
  /\ start \in Starts
  /\ budget \in Budgets
  /\ cursor = start
  /\ remaining = budget
  /\ round = 0
  /\ returned = FALSE

(* due_at: wall-clock addition around the clock, and for a schedule that   *)
(* is never open.  A budget of zero adds nothing.                          *)
WallClock ==
  /\ ~returned /\ round = 0
  /\ operational = "always" \/ ~HasAnyWindow
  /\ cursor' = start + budget
  /\ remaining' = 0
  /\ returned' = TRUE
  /\ UNCHANGED <<inputs, round>>

WalkingAtZero ==
  /\ ~returned
  /\ operational = "business_hours" /\ HasAnyWindow
  /\ round < MaxRounds

Walking ==
  /\ ~returned
  /\ operational = "business_hours" /\ HasAnyWindow
  /\ remaining > 0 /\ round < MaxRounds

(* The local date of the cursor.                                           *)
Today == DateOf(Local(cursor))

(* When a window of today opens and closes.                                *)
OpensAt(p)  == LocalDt(Midnight(Today) + WindowAt(p).start)
ClosesAt(p) == LocalDt(Midnight(Today) + WindowAt(p).end)

AheadAtClose ==
  {p \in Windows(WeekdayOf(Today)) : Today \notin holidays /\ cursor <= ClosesAt(p)}

(* The windows of today that are not over; none on a holiday.              *)
Ahead ==
  {p \in Windows(WeekdayOf(Today)) : Today \notin holidays /\ cursor < ClosesAt(p)}

(* A holiday, a day without windows, or a day whose windows have all       *)
(* passed: go to the next midnight (next_day_start).                       *)
NextDay ==
  /\ Walking /\ Ahead = {}
  /\ cursor' = LocalDt(Midnight(Today + 1))
  /\ round' = round + 1
  /\ UNCHANGED <<inputs, remaining, returned>>

(* The first of them.                                                      *)
NextWindow == CHOOSE p \in Ahead : \A q \in Ahead : Before(p, q)

(* Enter the window, waiting for it to open, and use what it has left or   *)
(* all that remains, whichever is less.                                    *)
Consumed(from, end) == IF remaining <= end - from THEN remaining ELSE end - from

UseWindow ==
  /\ Walking /\ Ahead # {}
  /\ LET open == OpensAt(NextWindow)
         end  == ClosesAt(NextWindow)
         from == IF cursor < open THEN open ELSE cursor
     IN /\ cursor' = from + Consumed(from, end)
        /\ remaining' = remaining - Consumed(from, end)
  /\ round' = round + 1
  /\ UNCHANGED <<inputs, returned>>

(* Nothing remains, or the cap is reached.                                 *)
Return ==
  /\ ~returned
  /\ operational = "business_hours" /\ HasAnyWindow
  /\ remaining = 0 \/ round = MaxRounds
  /\ returned' = TRUE
  /\ UNCHANGED <<inputs, cursor, remaining, round>>

ClockNext == WallClock \/ NextDay \/ UseWindow \/ Return

ClockSpec == ClockInit /\ [][ClockNext]_clockVars

-----------------------------------------------------------------------------
(* What the result must be.                                                *)

(* The instant t is working time: some entry of the schedule has what the  *)
(* clock then shows in a window, and its date is no holiday.               *)
Open(t) ==
  LET day  == DateOf(Local(t))
      time == Local(t) - Midnight(day)
  IN /\ day \notin holidays
     /\ \E entry \in Range(document) :
          /\ entry.day = WeekdayOf(day)
          /\ \E w \in Range(entry.windows) : w.start <= time /\ time < w.end

OpenTime(from, to) == Cardinality({t \in from..to - 1 : Open(t)})

ClockTypeOK ==
  /\ document \in Schedules /\ zone \in Zones /\ holidays \in Holidays
  /\ operational \in {"always", "business_hours"}
  /\ start \in Starts /\ budget \in Budgets
  /\ cursor \in Int /\ remaining \in Nat
  /\ round \in 0..MaxRounds
  /\ returned \in BOOLEAN

Worked == operational = "business_hours" /\ HasAnyWindow

(* Of two entries for the same weekday, the later one has no window that   *)
(* opens before one of the earlier.  A document with one key per weekday   *)
(* has no such entries.                                                    *)
KeysInOrder ==
  \A k, l \in DOMAIN document :
    k < l /\ document[k].day = document[l].day =>
      \A v \in Range(document[k].windows), w \in Range(document[l].windows) :
        v.end > v.start /\ w.end > w.start => v.start <= w.start

(* The local times that the clock has passed when a change sets it back    *)
(* before them.                                                            *)
SetBack ==
  UNION {{n \in Local(a) + 1..a + DayLength : LocalDt(n) < a} : a \in DOMAIN zone}

(* No day begins and no window opens at one of them.                       *)
OpensOnce ==
  \A n \in SetBack :
    /\ n # Midnight(DateOf(n))
    /\ \A p \in Windows(WeekdayOf(DateOf(n))) : n # Midnight(DateOf(n)) + WindowAt(p).start

(* No window closes at one of them.                                        *)
ClosesOnce ==
  \A n \in SetBack : \A p \in Windows(WeekdayOf(DateOf(n))) :
    n # Midnight(DateOf(n)) + WindowAt(p).end

(* Where the clock is not set back behind a midnight or an opening, only   *)
(* working time between the start and the cursor has been taken off the    *)
(* budget, so a due time never comes early; and where it is set back       *)
(* behind no closing either and the keys are in order, every tick of it    *)
(* has been.  This is what the loop of due_at_business_hours (clock.rs)    *)
(* keeps true for split shifts, overlapping windows, holidays, starts      *)
(* inside, between and outside windows, and changes of the clock before,   *)
(* in and after them.                                                      *)
BudgetConserved ==
  Worked /\ OpensOnce =>
    /\ OpenTime(start, cursor) + remaining >= budget
    /\ ClosesOnce /\ KeysInOrder => OpenTime(start, cursor) + remaining = budget

(* A walk that used up its budget ends just after working time, so a       *)
(* budget that ends with a window is due at the window's end and not at    *)
(* the next opening; and when nothing is repeated and the keys are in      *)
(* order it returns the first instant by which the budget has been worked  *)
(* (due_at_business_hours, clock.rs).                                      *)
DueIsEarliest ==
  returned /\ remaining = 0 /\ budget > 0 /\ Worked /\ OpensOnce =>
    /\ Open(cursor - 1)
    /\ ClosesOnce /\ KeysInOrder => OpenTime(start, cursor) = budget

(* The cap is silent: it returns an instant at which the budget is not     *)
(* used up.  But it is far: no day costs more rounds than it has windows,  *)
(* and one, so a walk that is cut off has gone that many days              *)
(* (due_at_business_hours, clock.rs).  With 366 * 30 rounds and at most    *)
(* two windows a day that is ten years.                                    *)
CapIsFar ==
  returned /\ remaining > 0 =>
    \A most \in 0..Cardinality(Places) :
      (\A d \in 0..WeekLength - 1 : Cardinality(Windows(d)) <= most) =>
        (Today - DateOf(Local(start)) + 1) * (most + 1) > MaxRounds
=============================================================================
