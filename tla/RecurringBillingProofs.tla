----------------------- MODULE RecurringBillingProofs -----------------------
(***************************************************************************)
(* Proofs about RecurringBilling, for every calendar window, every set of  *)
(* contracts, items and servers, and every number of edits and aborts.     *)
(* The walks over billing periods are recursive; what they compute is      *)
(* proved by counting down from the last day, as the least counterexample. *)
(***************************************************************************)
EXTENDS RecurringBilling, FiniteSetTheorems, WellFoundedInduction, TLAPS

-----------------------------------------------------------------------------
(* Numbers.                                                                *)

(* A nonempty set of naturals has a least member.                          *)
LEMMA LeastNat ==
  ASSUME NEW T, T \subseteq Nat, T # {}
  PROVE  \E x \in T : \A y \in T : x <= y
<1> DEFINE R == {p \in Nat \X Nat : p[1] < p[2]}
<1>1. IsWellFoundedOn(R, Nat)
  <2>1. R = OpToRel(<, Nat)
    BY DEF OpToRel
  <2> QED BY <2>1, NatLessThanWellFounded
<1>2. PICK x \in T : \A y \in T : <<y, x>> \notin R
  <2> HIDE DEF R
  <2> QED BY <1>1, WFMin
<1>3. ASSUME NEW y \in T PROVE x <= y
  <2>1. <<y, x>> \notin R
    BY <1>2
  <2>2. y \in Nat /\ x \in Nat
    OBVIOUS
  <2>3. ~(y < x)
    BY <2>1, <2>2
  <2> QED BY <2>2, <2>3
<1> QED BY <1>3

(* A set of numbers that holds 0 and, with each number, the next one.      *)
LEMMA Counting ==
  ASSUME NEW T, 0 \in T, \A n \in Nat : n \in T => n + 1 \in T
  PROVE  Nat \subseteq T
<1> SUFFICES ASSUME Nat \ T # {} PROVE FALSE
  OBVIOUS
<1>1. PICK n \in Nat \ T : \A y \in Nat \ T : n <= y
  BY LeastNat
<1>2. n # 0 /\ n - 1 \in Nat /\ n - 1 \in T
  BY <1>1
<1> QED BY <1>1, <1>2

LEMMA MinOfTwo ==
  ASSUME NEW a \in Int, NEW b \in Int
  PROVE  Min({a, b}) = IF a <= b THEN a ELSE b
<1>1. \E x \in {a, b} : \A y \in {a, b} : x =< y
  OBVIOUS
<1> QED BY <1>1 DEF Min

LEMMA MaxOfTwo ==
  ASSUME NEW a \in Int, NEW b \in Int
  PROVE  Max({a, b}) = IF a >= b THEN a ELSE b
<1>1. \E x \in {a, b} : \A y \in {a, b} : x >= y
  OBVIOUS
<1> QED BY <1>1 DEF Max

-----------------------------------------------------------------------------
(* The calendar.                                                           *)

Months == Len(MonthDays)

LEMMA MonthsFacts ==
  /\ Months \in Nat /\ Months >= 1
  /\ DOMAIN MonthDays = 1 .. Months
  /\ \A m \in 1 .. Months : MonthDays[m] \in 28 .. 31
BY MonthDaysAssumption DEF Months

(* The first days exist: up to each month there is a list of them.         *)
LEMMA FirstDaysExist ==
  \E f : f = [m \in 1 .. Months + 1 |-> IF m = 1 THEN 1 ELSE f[m - 1] + MonthDays[m - 1]]
<1> DEFINE List(f, k) == f = [m \in 1 .. k + 1 |-> IF m = 1 THEN 1
                                                   ELSE f[m - 1] + MonthDays[m - 1]]
           T == {k \in Nat : \E f : List(f, k)}
<1>1. 0 \in T
  <2>1. List([m \in 1 .. 1 |-> 1], 0)
    OBVIOUS
  <2> QED BY <2>1
<1>2. ASSUME NEW k \in Nat, k \in T PROVE k + 1 \in T
  <2>1. PICK f : List(f, k)
    BY <1>2
  <2> DEFINE g == [m \in 1 .. k + 2 |-> IF m = k + 2 THEN f[k + 1] + MonthDays[k + 1] ELSE f[m]]
  <2>2. List(g, k + 1)
    <3>1. \A m \in 1 .. k + 1 : f[m] = IF m = 1 THEN 1 ELSE f[m - 1] + MonthDays[m - 1]
      BY <2>1
    <3>2. \A m \in 1 .. k + 2 : g[m] = IF m = 1 THEN 1 ELSE g[m - 1] + MonthDays[m - 1]
      BY <3>1
    <3>3. g = [m \in 1 .. k + 2 |-> g[m]]
      OBVIOUS
    <3>4. (k + 1) + 1 = k + 2
      OBVIOUS
    <3> HIDE DEF g
    <3> QED BY <3>2, <3>3, <3>4
  <2>3. \E h : List(h, k + 1)
    <3> HIDE DEF g, List
    <3> QED BY <2>2
  <2> HIDE DEF List
  <2> QED BY <2>3
<1> HIDE DEF T
<1>3. Nat \subseteq T
  BY <1>1, <1>2, Counting
<1> QED BY <1>3, MonthsFacts DEF T

LEMMA FirstOfMonthDef ==
  FirstOfMonth = [m \in 1 .. Months + 1 |-> IF m = 1 THEN 1
                                            ELSE FirstOfMonth[m - 1] + MonthDays[m - 1]]
BY FirstDaysExist DEF FirstOfMonth, Months

LEMMA MonthBegins ==
  /\ FirstOfMonth[1] = 1
  /\ \A m \in 1 .. Months : FirstOfMonth[m + 1] = FirstOfMonth[m] + MonthDays[m]
<1>1. \A m \in 1 .. Months + 1 :
        FirstOfMonth[m] = IF m = 1 THEN 1 ELSE FirstOfMonth[m - 1] + MonthDays[m - 1]
  BY FirstOfMonthDef
<1>2. 1 \in 1 .. Months + 1
  BY MonthsFacts
<1>3. ASSUME NEW m \in 1 .. Months
      PROVE  FirstOfMonth[m + 1] = FirstOfMonth[m] + MonthDays[m]
  <2>1. m + 1 \in 1 .. Months + 1 /\ m + 1 # 1 /\ (m + 1) - 1 = m
    BY MonthsFacts
  <2> QED BY <1>1, <2>1
<1> QED BY <1>1, <1>2, <1>3

(* The first days grow with the months.                                    *)
LEMMA MonthsGrow ==
  \A k \in Nat : \A m \in 1 .. Months + 1 :
    m + k \in 1 .. Months + 1 =>
      /\ FirstOfMonth[m] \in Nat /\ FirstOfMonth[m + k] \in Nat
      /\ FirstOfMonth[m] <= FirstOfMonth[m + k]
<1>1. \A m \in 1 .. Months + 1 : FirstOfMonth[m] \in Nat
  <2> DEFINE T == {k \in Nat : k + 1 \in 1 .. Months + 1 => FirstOfMonth[k + 1] \in Nat}
  <2>1. 0 \in T
    BY MonthBegins
  <2>2. ASSUME NEW k \in Nat, k \in T PROVE k + 1 \in T
    <3> SUFFICES ASSUME (k + 1) + 1 \in 1 .. Months + 1
                 PROVE  FirstOfMonth[(k + 1) + 1] \in Nat
      OBVIOUS
    <3>1. k + 1 \in 1 .. Months /\ k + 1 \in 1 .. Months + 1
      BY MonthsFacts
    <3>2. FirstOfMonth[k + 1] \in Nat
      BY <2>2, <3>1
    <3>3. /\ FirstOfMonth[(k + 1) + 1] = FirstOfMonth[k + 1] + MonthDays[k + 1]
          /\ MonthDays[k + 1] \in 28 .. 31
      BY <3>1, MonthBegins, MonthsFacts
    <3> QED BY <3>2, <3>3
  <2> HIDE DEF T
  <2>3. Nat \subseteq T
    BY <2>1, <2>2, Counting
  <2> SUFFICES ASSUME NEW m \in 1 .. Months + 1 PROVE FirstOfMonth[m] \in Nat
    OBVIOUS
  <2>4. m - 1 \in T /\ (m - 1) + 1 = m
    BY <2>3, MonthsFacts
  <2> QED BY <2>4 DEF T
<1>2. \A k \in Nat : \A m \in 1 .. Months + 1 :
        m + k \in 1 .. Months + 1 => FirstOfMonth[m] <= FirstOfMonth[m + k]
  <2> DEFINE T == {k \in Nat : \A m \in 1 .. Months + 1 :
                     m + k \in 1 .. Months + 1 => FirstOfMonth[m] <= FirstOfMonth[m + k]}
  <2>1. 0 \in T
    <3>1. \A m \in 1 .. Months + 1 : m + 0 = m
      BY MonthsFacts
    <3> QED BY <1>1, <3>1
  <2>2. ASSUME NEW k \in Nat, k \in T PROVE k + 1 \in T
    <3> SUFFICES ASSUME NEW m \in 1 .. Months + 1, m + (k + 1) \in 1 .. Months + 1
                 PROVE  FirstOfMonth[m] <= FirstOfMonth[m + (k + 1)]
      OBVIOUS
    <3>1. m + k \in 1 .. Months /\ m + k \in 1 .. Months + 1 /\ (m + k) + 1 = m + (k + 1)
      BY MonthsFacts
    <3>2. FirstOfMonth[m] <= FirstOfMonth[m + k]
      BY <2>2, <3>1
    <3>3. FirstOfMonth[(m + k) + 1] = FirstOfMonth[m + k] + MonthDays[m + k]
      BY <3>1, MonthBegins
    <3>4. FirstOfMonth[m] \in Nat /\ FirstOfMonth[m + k] \in Nat /\ MonthDays[m + k] \in 28 .. 31
      BY <1>1, <3>1, MonthsFacts
    <3> QED BY <3>1, <3>2, <3>3, <3>4
  <2> HIDE DEF T
  <2>3. Nat \subseteq T
    BY <2>1, <2>2, Counting
  <2> QED BY <2>3 DEF T
<1> QED BY <1>1, <1>2

LEMMA FirstDays ==
  ASSUME NEW m \in 1 .. Months + 1
  PROVE  /\ FirstOfMonth[m] \in Nat /\ 1 <= FirstOfMonth[m] /\ FirstOfMonth[m] <= Horizon
         /\ \A n \in 1 .. Months + 1 : m <= n => FirstOfMonth[m] <= FirstOfMonth[n]
         /\ Horizon \in Nat
<1>1. ASSUME NEW a \in 1 .. Months + 1, NEW b \in 1 .. Months + 1, a <= b
      PROVE  /\ FirstOfMonth[a] \in Nat /\ FirstOfMonth[b] \in Nat
             /\ FirstOfMonth[a] <= FirstOfMonth[b]
  <2>1. b - a \in Nat /\ a + (b - a) = b
    BY <1>1, MonthsFacts
  <2> QED BY <2>1, MonthsGrow
<1>2. 1 \in 1 .. Months + 1 /\ Months + 1 \in 1 .. Months + 1 /\ 1 <= m /\ m <= Months + 1
  BY MonthsFacts
<1>3. Horizon = FirstOfMonth[Months + 1]
  BY DEF Horizon, Months
<1> QED BY <1>1, <1>2, <1>3, MonthBegins

(* Every day of the window falls into one month.                           *)
LEMMA MonthOfDay ==
  ASSUME NEW d \in Date
  PROVE  /\ MonthOf(d) \in 1 .. Months
         /\ FirstOfMonth[MonthOf(d)] <= d
         /\ d < FirstOfMonth[MonthOf(d) + 1]
<1>1. Months + 1 \in 1 .. Months + 1 /\ 1 \in 1 .. Months + 1 /\ Months \in Nat /\ Months >= 1
  BY MonthsFacts
<1>2. Horizon \in Nat /\ Horizon = FirstOfMonth[Months + 1]
  BY <1>1, FirstDays DEF Horizon, Months
<1>3. d \in Nat /\ 1 <= d /\ d < Horizon
  BY <1>2 DEF Date
<1> DEFINE T == {m \in 1 .. Months : d < FirstOfMonth[m + 1]}
<1>4. Months \in T
  BY <1>1, <1>2, <1>3
<1>5. PICK m \in T : \A n \in T : m <= n
  <2>1. T \subseteq Nat /\ T # {}
    BY <1>1, <1>4
  <2> HIDE DEF T
  <2> QED BY <2>1, LeastNat
<1>6. m \in 1 .. Months /\ d < FirstOfMonth[m + 1]
  BY <1>5
<1>7. FirstOfMonth[m] <= d
  <2>1. CASE m = 1
    BY <1>3, <2>1, MonthBegins
  <2>2. CASE m # 1
    <3>1. m - 1 \in 1 .. Months /\ (m - 1) + 1 = m /\ ~(m <= m - 1) /\ m \in 1 .. Months + 1
      BY <1>1, <1>6, <2>2
    <3>2. m - 1 \notin T
      BY <1>5, <3>1
    <3>3. ~(d < FirstOfMonth[m])
      BY <3>1, <3>2
    <3> QED BY <1>3, <3>1, <3>3, FirstDays
  <2> QED BY <2>1, <2>2
<1>8. \E n \in DOMAIN MonthDays : FirstOfMonth[n] <= d /\ d < FirstOfMonth[n + 1]
  BY <1>6, <1>7, MonthsFacts
<1> QED BY <1>8, MonthsFacts DEF MonthOf

(* A month or more on is a later day, inside the window or at its end.     *)
LEMMA AddMonthsLater ==
  ASSUME NEW d \in Date, NEW n \in Nat, n >= 1
  PROVE  /\ AddMonths(d, n) \in Int /\ d < AddMonths(d, n) /\ AddMonths(d, n) <= Horizon
<1> DEFINE k == MonthOf(d)
           m == k + n
           day == d - FirstOfMonth[k]
<1>1. k \in 1 .. Months /\ FirstOfMonth[k] <= d /\ d < FirstOfMonth[k + 1]
  BY MonthOfDay
<1>2. Months \in Nat /\ k + 1 \in 1 .. Months + 1 /\ k \in 1 .. Months + 1
  BY <1>1, MonthsFacts
<1>3. Horizon \in Nat /\ FirstOfMonth[k] \in Nat /\ FirstOfMonth[k + 1] \in Nat
  BY <1>2, FirstDays
<1>4. d \in Nat /\ d < Horizon
  BY <1>3 DEF Date
<1> HIDE DEF k
<1>5. CASE m > Months
  BY <1>3, <1>4, <1>5 DEF AddMonths, Months, k
<1>6. CASE ~(m > Months)
  <2>1. /\ m \in 1 .. Months /\ m \in 1 .. Months + 1 /\ m + 1 \in 1 .. Months + 1
        /\ k + 1 <= m
    BY <1>1, <1>2, <1>6
  <2>2. MonthDays[m] \in 28 .. 31 /\ MonthDays[m] - 1 \in Int /\ day \in Int /\ day >= 0
    BY <1>1, <1>3, <1>4, <2>1, MonthsFacts
  <2>3. AddMonths(d, n) = FirstOfMonth[m] + Min({day, MonthDays[m] - 1})
    BY <1>6 DEF AddMonths, Months, k
  <2>4. Min({day, MonthDays[m] - 1}) = IF day <= MonthDays[m] - 1 THEN day ELSE MonthDays[m] - 1
    BY <2>2, MinOfTwo
  <2>5. FirstOfMonth[m + 1] = FirstOfMonth[m] + MonthDays[m]
    BY <2>1, MonthBegins
  <2>6. /\ FirstOfMonth[m] \in Nat /\ FirstOfMonth[m + 1] \in Nat
        /\ FirstOfMonth[m + 1] <= Horizon /\ FirstOfMonth[k + 1] <= FirstOfMonth[m]
    BY <1>2, <2>1, FirstDays
  <2> DEFINE x == Min({day, MonthDays[m] - 1})
  <2>7. x \in Int /\ 0 <= x /\ x < MonthDays[m]
    BY <2>2, <2>4
  <2> HIDE DEF x, m
  <2> QED BY <1>1, <1>3, <1>4, <2>2, <2>3, <2>5, <2>6, <2>7 DEF x
<1> QED BY <1>5, <1>6

(* Every cycle moves on, and stays within the window.                      *)
LEMMA AdvanceLater ==
  ASSUME NEW cycle \in Recurring, NEW d \in Date
  PROVE  /\ Advance(cycle, d) \in Int /\ d < Advance(cycle, d)
         /\ Advance(cycle, d) <= Horizon
<1>1. Horizon \in Nat
  BY MonthsFacts, FirstDays
<1>2. d \in Nat /\ d < Horizon
  BY <1>1 DEF Date
<1>3. /\ Min({Horizon, d + 7}) = IF Horizon <= d + 7 THEN Horizon ELSE d + 7
      /\ Min({Horizon, d + 14}) = IF Horizon <= d + 14 THEN Horizon ELSE d + 14
  BY <1>1, <1>2, MinOfTwo
<1>4. cycle \in {"weekly", "bi_weekly", "monthly", "quarterly", "annually"}
  BY DEF Recurring
<1>5. CASE cycle = "weekly"
  BY <1>1, <1>2, <1>3, <1>5 DEF Advance
<1>6. CASE cycle = "bi_weekly"
  BY <1>1, <1>2, <1>3, <1>6 DEF Advance
<1>7. CASE cycle = "monthly"
  BY <1>7, AddMonthsLater DEF Advance
<1>8. CASE cycle = "quarterly"
  BY <1>8, AddMonthsLater DEF Advance
<1>9. CASE cycle = "annually"
  BY <1>9, AddMonthsLater DEF Advance
<1> QED BY <1>4, <1>5, <1>6, <1>7, <1>8, <1>9

-----------------------------------------------------------------------------
(* The walks over the periods.                                             *)

(* One pass of either loop at boundary p, on the day `when`.               *)
WalkStep(f, cycle, when, p) ==
  IF Advance(cycle, p) > when THEN Period(p, Advance(cycle, p)) ELSE f[Advance(cycle, p)]

Walks(f, cycle, when, lo, hi) == \A p \in lo .. hi : f[p] = WalkStep(f, cycle, when, p)

(* What holds of a boundary whenever it holds of the later ones.           *)
LEMMA CountingDown ==
  ASSUME NEW lo \in Int, NEW hi \in Int, NEW T,
         \A p \in lo .. hi : (\A q \in lo .. hi : q > p => q \in T) => p \in T
  PROVE  lo .. hi \subseteq T
<1> SUFFICES ASSUME NEW p \in lo .. hi, p \notin T PROVE FALSE
  OBVIOUS
<1> DEFINE U == {n \in Nat : \E q \in lo .. hi : q \notin T /\ n = hi - q}
<1>1. hi - p \in U
  OBVIOUS
<1>2. PICK n \in U : \A m \in U : n <= m
  <2>1. U \subseteq Nat /\ U # {}
    BY <1>1
  <2> HIDE DEF U
  <2> QED BY <2>1, LeastNat
<1>3. PICK q \in lo .. hi : q \notin T /\ n = hi - q
  BY <1>2
<1>4. ASSUME NEW r \in lo .. hi, r > q PROVE r \in T
  <2> SUFFICES ASSUME r \notin T PROVE FALSE
    OBVIOUS
  <2>1. hi - r \in U
    OBVIOUS
  <2>2. hi - q <= hi - r
    BY <1>2, <1>3, <2>1
  <2> QED BY <1>4, <2>2
<1> QED BY <1>3, <1>4

LEMMA DateFacts ==
  /\ Horizon \in Nat
  /\ \A d : d \in Date <=> d \in Nat /\ 1 <= d /\ d < Horizon
<1>1. Horizon \in Nat
  BY MonthsFacts, FirstDays
<1> QED BY <1>1 DEF Date

(* The recursive definitions of the walks define something.                *)
LEMMA WalkExists ==
  ASSUME NEW cycle \in Recurring, NEW lo \in Date, NEW hi \in Int, NEW when \in Int,
         when <= hi, hi < Horizon
  PROVE  \E f : f = [p \in lo .. hi |-> WalkStep(f, cycle, when, p)]
<1> DEFINE From(f, k) == f = [p \in hi - k .. hi |-> WalkStep(f, cycle, when, p)]
           T == {k \in Nat : hi - k >= 1 => \E f : From(f, k)}
<1>1. \A p \in 1 .. hi : /\ p \in Date /\ Advance(cycle, p) \in Int
                         /\ p < Advance(cycle, p)
  BY DateFacts, AdvanceLater
<1>2. 0 \in T
  <2> DEFINE f == [p \in hi .. hi |-> Period(p, Advance(cycle, p))]
  <2> SUFFICES ASSUME hi >= 1 PROVE From(f, 0)
    <3> HIDE DEF f, From
    <3> QED OBVIOUS
  <2>1. hi - 0 = hi /\ hi \in 1 .. hi
    OBVIOUS
  <2>2. Advance(cycle, hi) > when
    BY <1>1, <2>1
  <2>3. \A p \in hi .. hi : p = hi
    OBVIOUS
  <2>4. \A p \in hi .. hi : WalkStep(f, cycle, when, p) = Period(p, Advance(cycle, p))
    BY <2>2, <2>3 DEF WalkStep
  <2> QED BY <2>1, <2>4
<1>3. ASSUME NEW k \in Nat, k \in T PROVE k + 1 \in T
  <2> SUFFICES ASSUME hi - (k + 1) >= 1 PROVE \E f : From(f, k + 1)
    OBVIOUS
  <2>1. PICK f : From(f, k)
    <3> HIDE DEF From
    <3> QED BY <1>3
  <2> DEFINE p0 == hi - (k + 1)
             g == [p \in p0 .. hi |-> IF p = p0 THEN WalkStep(f, cycle, when, p0) ELSE f[p]]
  <2>2. p0 \in Int /\ p0 >= 1 /\ hi - k = p0 + 1 /\ p0 <= hi /\ p0 + 1 <= hi
    OBVIOUS
  <2>3. \A p \in p0 + 1 .. hi : f[p] = WalkStep(f, cycle, when, p)
    BY <2>1, <2>2
  <2> HIDE DEF p0
  <2>4. \A p \in p0 .. hi : g[p] = WalkStep(g, cycle, when, p)
    <3> SUFFICES ASSUME NEW p \in p0 .. hi PROVE g[p] = WalkStep(g, cycle, when, p)
      OBVIOUS
    <3> DEFINE next == Advance(cycle, p)
    <3>1. p \in 1 .. hi
      BY <2>2
    <3>2. next \in Int /\ p < next
      BY <1>1, <3>1
    <3>3. g[p] = WalkStep(f, cycle, when, p)
      BY <2>2, <2>3
    <3>4. ~(next > when) => next \in p0 .. hi /\ next # p0
      BY <2>2, <3>2
    <3>5. ~(next > when) => g[next] = f[next]
      BY <3>4
    <3> HIDE DEF g
    <3> QED BY <3>3, <3>5 DEF WalkStep
  <2>5. g = [p \in p0 .. hi |-> g[p]]
    OBVIOUS
  <2> HIDE DEF g
  <2>6. From(g, k + 1)
    BY <2>4, <2>5 DEF p0
  <2> HIDE DEF From
  <2> QED BY <2>6
<1> HIDE DEF T
<1>4. Nat \subseteq T
  BY <1>2, <1>3, Counting
<1>5. CASE lo <= hi
  <2>1. lo \in Nat /\ 1 <= lo
    BY DateFacts
  <2>2. hi - lo \in Nat /\ hi - (hi - lo) = lo
    BY <1>5, <2>1
  <2>3. hi - lo \in T
    BY <1>4, <2>2
  <2> QED BY <2>1, <2>2, <2>3 DEF T
<1>6. CASE ~(lo <= hi)
  <2>1. lo .. hi = {}
    BY <1>6, DateFacts
  <2> DEFINE f == [p \in lo .. hi |-> 0]
  <2>2. f = [p \in lo .. hi |-> WalkStep(f, cycle, when, p)]
    BY <2>1
  <2> QED BY <2>2
<1> QED BY <1>5, <1>6

(* current_billing_period and period_for are such walks.                   *)
LEMMA CurrentWalks ==
  ASSUME NEW cycle \in Recurring, NEW start \in Date, NEW day \in Date, start <= day
  PROVE  \E f : /\ Walks(f, cycle, day, start, day)
                /\ CurrentBillingPeriod(cycle, start, day) = f[start]
<1> DEFINE f == CHOOSE f : f = [p \in start .. day |->
                  LET next == Advance(cycle, p)
                  IN IF next > day THEN Period(p, next) ELSE f[next]]
<1>1. day \in Int /\ day <= day /\ day < Horizon /\ start \in Int
  BY DateFacts
<1>2. \E g : g = [p \in start .. day |-> WalkStep(g, cycle, day, p)]
  BY <1>1, WalkExists
<1>3. f = [p \in start .. day |-> WalkStep(f, cycle, day, p)]
  BY <1>2 DEF WalkStep
<1>4. CurrentBillingPeriod(cycle, start, day) = f[start]
  BY <1>1 DEF CurrentBillingPeriod
<1> HIDE DEF f
<1>5. Walks(f, cycle, day, start, day)
  BY <1>3 DEF Walks
<1> QED BY <1>4, <1>5

LEMMA PeriodForWalks ==
  ASSUME NEW cycle \in Recurring, NEW anchor \in Date, NEW when \in Int, when < Horizon
  PROVE  \E f : /\ Walks(f, cycle, when, anchor, Horizon - 1)
                /\ PeriodFor(anchor, cycle, when) = f[anchor]
<1> DEFINE Pass(h, p) == LET next == Advance(cycle, p)
                         IN IF when < next THEN Period(p, next) ELSE h[next]
           f == CHOOSE h : h = [p \in anchor .. Horizon - 1 |-> Pass(h, p)]
<1>1. Horizon \in Int /\ when <= Horizon - 1 /\ Horizon - 1 < Horizon /\ Horizon - 1 \in Int
  BY DateFacts
<1>2. PICK g : g = [p \in anchor .. Horizon - 1 |-> WalkStep(g, cycle, when, p)]
  BY <1>1, WalkExists
<1>3. \A h, p : WalkStep(h, cycle, when, p) = Pass(h, p)
  BY DEF WalkStep
<1>4. PeriodFor(anchor, cycle, when) = f[anchor]
  BY DEF PeriodFor
<1> HIDE DEF Pass
<1>5. \E h : h = [p \in anchor .. Horizon - 1 |-> Pass(h, p)]
  <2>1. g = [p \in anchor .. Horizon - 1 |-> Pass(g, p)]
    BY <1>2, <1>3
  <2> QED BY <2>1
<1>6. f = [p \in anchor .. Horizon - 1 |-> Pass(f, p)]
  BY <1>5
<1> HIDE DEF f
<1>7. Walks(f, cycle, when, anchor, Horizon - 1)
  BY <1>3, <1>6 DEF Walks
<1> QED BY <1>4, <1>7

(* A walk ends at the period the day is in.                                *)
LEMMA WalkRange ==
  ASSUME NEW cycle \in Recurring, NEW lo \in Date, NEW day \in Date, NEW hi \in Int,
         day <= hi, hi < Horizon, NEW f, Walks(f, cycle, day, lo, hi)
  PROVE  \A p \in lo .. day : f[p].first \in p .. day /\ f[p].last \in day .. Horizon - 1
<1> DEFINE Good(p) == f[p].first \in p .. day /\ f[p].last \in day .. Horizon - 1
           T == {p \in lo .. day : Good(p)}
<1>1. lo \in Int /\ 1 <= lo /\ day \in Int /\ day < Horizon /\ Horizon \in Int
  BY DateFacts
<1>2. ASSUME NEW p \in lo .. day, \A q \in lo .. day : q > p => q \in T
      PROVE  p \in T
  <2> DEFINE next == Advance(cycle, p)
  <2>1. p \in Date /\ p \in lo .. hi
    BY <1>1, DateFacts
  <2>2. next \in Int /\ p < next /\ next <= Horizon
    BY <2>1, AdvanceLater
  <2>3. f[p] = WalkStep(f, cycle, day, p)
    BY <2>1 DEF Walks
  <2> HIDE DEF next
  <2>4. CASE next > day
    <3>1. f[p] = Period(p, next)
      BY <2>3, <2>4 DEF WalkStep, next
    <3>2. f[p].first = p /\ f[p].last = next - 1
      BY <3>1 DEF Period
    <3> QED BY <1>1, <2>1, <2>2, <2>4, <3>2
  <2>5. CASE ~(next > day)
    <3>1. f[p] = f[next]
      BY <2>3, <2>5 DEF WalkStep, next
    <3>2. next \in lo .. day /\ next > p
      BY <1>1, <2>2, <2>5
    <3>3. Good(next)
      BY <1>2, <3>2
    <3>4. f[next].first \in next .. day => f[next].first \in p .. day
      BY <1>1, <2>2
    <3> QED BY <3>1, <3>3, <3>4
  <2> QED BY <2>4, <2>5
<1> HIDE DEF T
<1>3. lo .. day \subseteq T
  BY <1>1, <1>2, CountingDown
<1> QED BY <1>3 DEF T

(* The walks of two days end at one period, or at two with no day in       *)
(* common.                                                                 *)
LEMMA WalksApart ==
  ASSUME NEW cycle \in Recurring, NEW lo \in Date, NEW d \in Date, NEW e \in Date, d <= e,
         NEW f, NEW h1 \in Int, d <= h1, h1 < Horizon, Walks(f, cycle, d, lo, h1),
         NEW g, NEW h2 \in Int, e <= h2, h2 < Horizon, Walks(g, cycle, e, lo, h2)
  PROVE  \A p \in lo .. d : f[p] = g[p] \/ f[p].last < g[p].first
<1> DEFINE Good(p) == f[p] = g[p] \/ f[p].last < g[p].first
           T == {p \in lo .. d : Good(p)}
<1>1. lo \in Int /\ 1 <= lo /\ d \in Int /\ e \in Int /\ e < Horizon /\ Horizon \in Int
  BY DateFacts
<1>2. ASSUME NEW p \in lo .. d, \A q \in lo .. d : q > p => q \in T
      PROVE  p \in T
  <2> DEFINE next == Advance(cycle, p)
  <2>1. p \in Date /\ p \in lo .. h1 /\ p \in lo .. h2
    BY <1>1, DateFacts
  <2>2. next \in Int /\ p < next /\ next <= Horizon
    BY <2>1, AdvanceLater
  <2>3. f[p] = WalkStep(f, cycle, d, p) /\ g[p] = WalkStep(g, cycle, e, p)
    BY <2>1 DEF Walks
  <2> HIDE DEF next
  <2>4. CASE next > e
    <3>1. next > d
      BY <1>1, <2>2, <2>4
    <3>2. f[p] = Period(p, next) /\ g[p] = Period(p, next)
      BY <2>3, <2>4, <3>1 DEF WalkStep, next
    <3> QED BY <3>2
  <2>5. CASE next > d /\ ~(next > e)
    <3>1. f[p] = Period(p, next) /\ g[p] = g[next]
      BY <2>3, <2>5 DEF WalkStep, next
    <3>2. f[p].last = next - 1
      BY <3>1 DEF Period
    <3>3. next \in lo .. e
      BY <1>1, <2>2, <2>5
    <3>4. g[next].first \in next .. e
      BY <3>3, WalkRange
    <3>5. f[p].last < g[p].first
      BY <1>1, <2>2, <3>1, <3>2, <3>4
    <3> QED BY <3>5
  <2>6. CASE ~(next > d)
    <3>1. ~(next > e) /\ next \in lo .. d /\ next > p
      BY <1>1, <2>2, <2>6
    <3>2. f[p] = f[next] /\ g[p] = g[next]
      BY <2>3, <2>6, <3>1 DEF WalkStep, next
    <3>3. Good(next)
      BY <1>2, <3>1
    <3> QED BY <3>2, <3>3
  <2> QED BY <2>4, <2>5, <2>6
<1> HIDE DEF T
<1>3. lo .. d \subseteq T
  BY <1>1, <1>2, CountingDown
<1> QED BY <1>3 DEF T

-----------------------------------------------------------------------------
(* What the two loops promise.                                             *)

(* The period of a day holds the day.                                      *)
LEMMA PeriodOfDay ==
  ASSUME NEW cycle \in Recurring, NEW start \in Date, NEW day \in Date, start <= day
  PROVE  LET p == CurrentBillingPeriod(cycle, start, day)
         IN p.first \in start .. day /\ p.last \in day .. Horizon - 1
<1>1. PICK f : /\ Walks(f, cycle, day, start, day)
               /\ CurrentBillingPeriod(cycle, start, day) = f[start]
  BY CurrentWalks
<1>2. day \in Int /\ day <= day /\ day < Horizon /\ start \in start .. day
  BY DateFacts
<1>3. f[start].first \in start .. day /\ f[start].last \in day .. Horizon - 1
  BY <1>1, <1>2, WalkRange
<1> QED BY <1>1, <1>3

(* Two days have the same period, or periods apart.                        *)
LEMMA DaysApart ==
  ASSUME NEW cycle \in Recurring, NEW start \in Date, NEW d \in Date, NEW e \in Date,
         start <= d, d <= e
  PROVE  LET p == CurrentBillingPeriod(cycle, start, d)
             q == CurrentBillingPeriod(cycle, start, e)
         IN p = q \/ p.last < q.first
<1>1. start \in Int /\ d \in Int /\ e \in Int /\ d < Horizon /\ e < Horizon
  BY DateFacts
<1>2. start <= e /\ d <= d /\ e <= e /\ start \in start .. d
  BY <1>1
<1>3. PICK f : /\ Walks(f, cycle, d, start, d)
               /\ CurrentBillingPeriod(cycle, start, d) = f[start]
  BY CurrentWalks
<1>4. PICK g : /\ Walks(g, cycle, e, start, e)
               /\ CurrentBillingPeriod(cycle, start, e) = g[start]
  BY <1>2, CurrentWalks
<1>5. f[start] = g[start] \/ f[start].last < g[start].first
  BY <1>1, <1>2, <1>3, <1>4, WalksApart
<1> QED BY <1>3, <1>4, <1>5

(* The loop that bills and the loop that draws hours give a day the same   *)
(* period, and the day before a period the period before it.               *)
LEMMA LoopsAgree ==
  ASSUME NEW cycle \in Recurring, NEW start \in Date, NEW day \in Date, start <= day
  PROVE  LET p == CurrentBillingPeriod(cycle, start, day)
         IN /\ PeriodFor(start, cycle, day) = p
            /\ p.first > start => PeriodFor(start, cycle, p.first - 1).last = p.first - 1
<1> DEFINE p == CurrentBillingPeriod(cycle, start, day)
<1>1. start \in Int /\ 1 <= start /\ day \in Int /\ day < Horizon /\ Horizon \in Int
  BY DateFacts
<1>2. day <= day /\ day <= Horizon - 1 /\ Horizon - 1 < Horizon /\ Horizon - 1 \in Int
      /\ start \in start .. day
  BY <1>1
<1>3. PICK f : Walks(f, cycle, day, start, day) /\ p = f[start]
  BY CurrentWalks
<1>4. PICK g : Walks(g, cycle, day, start, Horizon - 1) /\ PeriodFor(start, cycle, day) = g[start]
  BY <1>1, PeriodForWalks
<1>5. p.first \in start .. day /\ p.last \in day .. Horizon - 1
  BY PeriodOfDay
<1> HIDE DEF p
<1>6. PeriodFor(start, cycle, day) = p
  <2>1. f[start] = g[start] \/ f[start].last < g[start].first
    BY <1>1, <1>2, <1>3, <1>4, WalksApart
  <2>2. g[start].first \in start .. day
    BY <1>1, <1>2, <1>4, WalkRange
  <2>3. ~(f[start].last < g[start].first)
    BY <1>1, <1>3, <1>5, <2>2
  <2> QED BY <1>3, <1>4, <2>1, <2>3
<1>7. ASSUME p.first > start
      PROVE  PeriodFor(start, cycle, p.first - 1).last = p.first - 1
  <2> DEFINE w == p.first - 1
  <2>1. w \in Date /\ w \in Int /\ w < Horizon /\ w <= Horizon - 1 /\ w <= day /\ start \in start .. w
    BY <1>1, <1>5, <1>7, DateFacts
  <2> HIDE DEF w
  <2>2. PICK h : Walks(h, cycle, w, start, Horizon - 1) /\ PeriodFor(start, cycle, w) = h[start]
    BY <2>1, PeriodForWalks
  <2>3. h[start].first \in start .. w /\ h[start].last \in w .. Horizon - 1
    BY <1>1, <1>2, <2>1, <2>2, WalkRange
  <2>4. h[start] = f[start] \/ h[start].last < f[start].first
    BY <1>1, <1>2, <1>3, <2>1, <2>2, WalksApart
  <2>5. h[start] # f[start]
    BY <1>1, <1>3, <1>5, <2>1, <2>3 DEF w
  <2>6. h[start].last = w
    BY <1>1, <1>3, <1>5, <2>1, <2>3, <2>4, <2>5 DEF w
  <2> QED BY <2>2, <2>6 DEF w
<1> QED BY <1>6, <1>7 DEF p

-----------------------------------------------------------------------------
(* The inductive invariant.                                                *)

(* A contract as a sweep read it.                                          *)
ReadContracts ==
  [id : Contract, cycle : Recurring, start : Date, end : Date \cup {NoEnd}]

Sweeps == [todo : SUBSET ReadContracts, day : Days \cup {0}, items : Lines]

(* Current and PeriodOf, of a sweep instead of a server.                   *)
At(r) == CHOOSE c \in r.todo : \A d \in r.todo : c.id <= d.id

DueIn(r) == DuePeriod(At(r), r.day)

(* A sweep looks at days that have come, and holds items only of a         *)
(* contract that is due.                                                   *)
SweepOK(r, now) ==
  /\ r \in Sweeps
  /\ r.todo # {} => /\ r.day \in Days /\ r.day <= now
                    /\ \A c \in r.todo : c.start <= r.day
  /\ r.items # NotRead => r.todo # {} /\ DueIn(r) # NoPeriod

SweepsOK ==
  /\ server = [s \in Server |-> server[s]]
  /\ \A s \in Server : SweepOK(server[s], today)

TablesOK ==
  /\ contract \in [Contract -> Contracts \cup {None}]
  /\ item \in [Item -> Items \cup {None, NotYet}]
  /\ today \in Days /\ edits \in 0 .. MaxEdits /\ aborts \in 0 .. MaxAborts

ItemsOwned == \A i \in LiveItems : item[i].contract \in Live

(* An invoice is of the period of some day, cut from the first day and     *)
(* the cycle that were read.                                               *)
Periodic(v) ==
  /\ v.start \in Date /\ v.cycle \in Recurring
  /\ \E d \in Date : /\ v.start <= d
                      /\ v.first = CurrentBillingPeriod(v.cycle, v.start, d).first
                      /\ v.last = CurrentBillingPeriod(v.cycle, v.start, d).last

InvoicesOK ==
  \A v \in invoices : v.contract \in Live /\ v.lines \in Lines \ {{}} /\ Periodic(v)

FirstsUnique ==
  \A v, w \in invoices : v.contract = w.contract /\ v.first = w.first => v = w

(* A sweep holds items that were created.                                  *)
ItemsKnown == \A s \in Server : \A l \in server[s].items : item[l.item] # NotYet

OnceLine(i) == [item |-> i, rule |-> "once"]

(* An item invoiced as billed once keeps its mark for as long as it lives. *)
OnceClaimed ==
  \A v \in invoices : \A i \in Item :
    OnceLine(i) \in v.lines => item[i] # NotYet /\ (item[i] # None => item[i].billed)

OnceUnique ==
  \A v, w \in invoices : \A i \in Item :
    OnceLine(i) \in v.lines /\ OnceLine(i) \in w.lines => v = w

Inv ==
  /\ TablesOK /\ ItemsOwned /\ InvoicesOK /\ SweepsOK
  /\ FirstsUnique /\ ItemsKnown /\ OnceClaimed /\ OnceUnique

-----------------------------------------------------------------------------
(* Rows and marks are told apart.                                          *)
LEMMA RowsDiffer ==
  /\ None # NotYet
  /\ \A x \in Items : x # None /\ x # NotYet
  /\ \A x \in Contracts : x # None
<1>1. None # NotYet
  BY DEF None, NotYet
<1>2. ASSUME NEW x \in Items PROVE x # None /\ x # NotYet
  <2>1. DOMAIN x = {"contract", "rule", "billed"}
    BY DEF Items
  <2>2. DOMAIN None = {"status"} /\ DOMAIN NotYet = {"status"}
    BY DEF None, NotYet
  <2>3. "rule" \in DOMAIN x /\ "rule" \notin DOMAIN None /\ "rule" \notin DOMAIN NotYet
    BY <2>1, <2>2
  <2> QED BY <2>3
<1>3. ASSUME NEW x \in Contracts PROVE x # None
  BY DEF Contracts, None
<1> QED BY <1>1, <1>2, <1>3

(* ORDER BY id finds a contract.                                           *)
LEMMA AtIsTodo ==
  ASSUME NEW r \in Sweeps, r.todo # {}
  PROVE  At(r) \in r.todo /\ At(r) \in ReadContracts
<1> DEFINE T == {c.id : c \in r.todo}
<1>1. r.todo \subseteq ReadContracts
  BY DEF Sweeps
<1>2. \A c \in r.todo : c.id \in Contract
  BY <1>1 DEF ReadContracts
<1>3. T \subseteq Nat /\ T # {}
  BY <1>2, RecurringAssumption
<1>4. \E n \in T : \A m \in T : n <= m
  <2> HIDE DEF T
  <2> QED BY <1>3, LeastNat
<1>5. \E c \in r.todo : \A d \in r.todo : c.id <= d.id
  BY <1>4
<1>6. At(r) \in r.todo
  BY <1>5 DEF At
<1> QED BY <1>1, <1>6

(* A period that is due is the current one of the contract as read.        *)
LEMMA DueIsCurrent ==
  ASSUME NEW r, NEW now, SweepOK(r, now), r.todo # {}, DueIn(r) # NoPeriod
  PROVE  /\ DueIn(r) = CurrentBillingPeriod(At(r).cycle, At(r).start, r.day)
         /\ At(r).cycle \in Recurring /\ At(r).start \in Date /\ r.day \in Date
         /\ At(r).id \in Contract /\ At(r).start <= r.day
<1>1. r \in Sweeps /\ r.day \in Days /\ \A c \in r.todo : c.start <= r.day
  BY DEF SweepOK
<1>2. At(r) \in r.todo /\ At(r) \in ReadContracts
  BY <1>1, AtIsTodo
<1>3. /\ At(r).cycle \in Recurring /\ At(r).start \in Date /\ r.day \in Date
      /\ At(r).id \in Contract /\ At(r).start <= r.day
  BY <1>1, <1>2, RecurringAssumption DEF ReadContracts
<1>4. DueIn(r) = CurrentBillingPeriod(At(r).cycle, At(r).start, r.day)
  BY DEF DueIn, DuePeriod
<1> QED BY <1>3, <1>4

LEMMA CurrentIsAt ==
  ASSUME NEW s
  PROVE  Current(s) = At(server[s]) /\ PeriodOf(s) = DueIn(server[s])
<1>1. Current(s) = At(server[s])
  BY DEF Current, At
<1> QED BY <1>1 DEF PeriodOf, DueIn

LEMMA IdleOK ==
  ASSUME NEW now
  PROVE  SweepOK(Idle, now) /\ Idle.items = {}
BY DEF SweepOK, Idle, Sweeps, NotRead, Lines

(* A sweep that goes on to the next contract.                              *)
LEMMA NextOK ==
  ASSUME NEW r, NEW now, SweepOK(r, now), r.todo # {}
  PROVE  LET rest == r.todo \ {At(r)}
             n    == IF rest = {} THEN Idle
                     ELSE [todo |-> rest, day |-> r.day, items |-> NotRead]
         IN SweepOK(n, now) /\ n.items = {}
<1> DEFINE rest == r.todo \ {At(r)}
           n == [todo |-> rest, day |-> r.day, items |-> NotRead]
<1>1. /\ rest \subseteq ReadContracts /\ r.day \in Days /\ r.day <= now
      /\ \A c \in rest : c.start <= r.day
  BY DEF SweepOK, Sweeps
<1>2. NotRead \in Lines
  BY DEF NotRead, Lines
<1> HIDE DEF rest
<1>3. SweepOK(n, now) /\ n.items = {}
  BY <1>1, <1>2 DEF SweepOK, Sweeps, NotRead
<1> QED BY <1>3, IdleOK DEF rest

-----------------------------------------------------------------------------
(* Steps.                                                                  *)

(* One sweep changes, the day stands.                                      *)
LEMMA SweepsAfter ==
  ASSUME SweepsOK, NEW s \in Server, NEW n, SweepOK(n, today),
         server' = [server EXCEPT ![s] = n], UNCHANGED today
  PROVE  /\ SweepsOK'
         /\ \A t \in Server : server'[t] = IF t = s THEN n ELSE server[t]
<1>1. server = [t \in Server |-> server[t]] /\ \A t \in Server : SweepOK(server[t], today)
  BY DEF SweepsOK
<1>2. /\ server' = [t \in Server |-> server'[t]]
      /\ \A t \in Server : server'[t] = IF t = s THEN n ELSE server[t]
  BY <1>1
<1>3. \A t \in Server : SweepOK(server'[t], today')
  BY <1>1, <1>2
<1>4. SweepsOK' <=> /\ server' = [t \in Server |-> server'[t]]
                   /\ \A t \in Server : SweepOK(server'[t], today')
  BY DEF SweepsOK
<1> QED BY <1>2, <1>3, <1>4

(* A step that changes one sweep and no table.                             *)
LEMMA SweepStep ==
  ASSUME Inv, NEW s \in Server, NEW n, SweepOK(n, today),
         \A l \in n.items : item[l.item] # NotYet,
         server' = [server EXCEPT ![s] = n],
         UNCHANGED <<contract, item, invoices, today, edits>>, aborts' \in 0 .. MaxAborts
  PROVE  Inv'
<1>2. SweepsOK' /\ \A t \in Server : server'[t] = IF t = s THEN n ELSE server[t]
  BY SweepsAfter DEF Inv
<1>4. ItemsKnown'
  BY <1>2 DEF Inv, ItemsKnown
<1>5. TablesOK'
  BY DEF Inv, TablesOK
<1>6. Live' = Live /\ LiveItems' = LiveItems
  BY DEF Live, LiveItems
<1>7. ItemsOwned' /\ InvoicesOK'
  BY <1>6 DEF Inv, ItemsOwned, InvoicesOK, Periodic
<1>8. FirstsUnique' /\ OnceClaimed' /\ OnceUnique'
  BY DEF Inv, FirstsUnique, OnceClaimed, OnceUnique
<1> QED BY <1>2, <1>4, <1>5, <1>7, <1>8 DEF Inv

(* A step that changes the tables and no sweep: invoiced contracts stay,   *)
(* a created item stays created and billed.                                *)
LEMMA TableStep ==
  ASSUME Inv, UNCHANGED <<invoices, server, aborts>>,
         contract' \in [Contract -> Contracts \cup {None}],
         item' \in [Item -> Items \cup {None, NotYet}],
         ItemsOwned', \A v \in invoices : v.contract \in Live',
         \A i \in Item : item[i] # NotYet =>
           /\ item'[i] # NotYet
           /\ item'[i] # None => item[i] # None /\ (item[i].billed => item'[i].billed),
         today' \in Days, today <= today', edits' \in 0 .. MaxEdits
  PROVE  Inv'
<1>1. server = [t \in Server |-> server[t]] /\ \A t \in Server : SweepOK(server[t], today)
  BY DEF Inv, SweepsOK
<1>2. today \in Int /\ today' \in Int /\ \A d \in Days : d \in Int
  BY RecurringAssumption, DateFacts DEF Inv, TablesOK
<1>3. SweepsOK'
  <2>1. ASSUME NEW t \in Server PROVE SweepOK(server[t], today')
    BY <1>1, <1>2 DEF SweepOK
  <2>2. SweepsOK' <=> /\ server' = [t \in Server |-> server'[t]]
                     /\ \A t \in Server : SweepOK(server'[t], today')
    BY DEF SweepsOK
  <2> QED BY <1>1, <2>1, <2>2
<1>4. TablesOK'
  BY DEF Inv, TablesOK
<1>5. InvoicesOK'
  BY DEF Inv, InvoicesOK, Periodic
<1>6. FirstsUnique' /\ OnceUnique'
  BY DEF Inv, FirstsUnique, OnceUnique
<1>7. OnceClaimed'
  BY DEF Inv, OnceClaimed
<1>8. ItemsKnown'
  <2> SUFFICES ASSUME NEW t \in Server, NEW l \in server[t].items PROVE item'[l.item] # NotYet
    BY DEF ItemsKnown
  <2>1. item[l.item] # NotYet
    BY DEF Inv, ItemsKnown
  <2>2. server[t].items \in Lines
    BY <1>1 DEF SweepOK, Sweeps
  <2>3. l.item \in Item
    BY <2>2 DEF Lines
  <2> QED BY <2>1, <2>3
<1> QED BY <1>3, <1>4, <1>5, <1>6, <1>7, <1>8 DEF Inv

LEMMA StartSweepKeeps ==
  ASSUME Inv, NEW s \in Server, StartSweep(s)
  PROVE  Inv'
<1> DEFINE n == [todo |-> Candidates(today), day |-> today, items |-> NotRead]
<1>1. ASSUME NEW c \in Candidates(today)
      PROVE  c \in ReadContracts /\ c.start <= today
  <2>1. PICK k \in Live : /\ contract[k].cycle # "one_time" /\ contract[k].start <= today
                          /\ c = [id |-> k, cycle |-> contract[k].cycle,
                                  start |-> contract[k].start, end |-> contract[k].end]
    BY DEF Candidates
  <2>2. k \in Contract /\ contract[k] \in Contracts
    BY DEF Live, Inv, TablesOK
  <2>3. contract[k].cycle \in Recurring /\ contract[k].start \in Date
        /\ contract[k].end \in Date \cup {NoEnd}
    BY <2>1, <2>2, RecurringAssumption DEF Contracts
  <2> QED BY <2>1, <2>2, <2>3 DEF ReadContracts
<1>2. today \in Days /\ today <= today
  BY RecurringAssumption, DateFacts DEF Inv, TablesOK
<1>3. n \in Sweeps
  BY <1>1, <1>2 DEF Sweeps, NotRead, Lines
<1>4. SweepOK(n, today)
  BY <1>1, <1>2, <1>3 DEF SweepOK
<1>5. n.items = {}
  BY DEF NotRead
<1>6. server' = [server EXCEPT ![s] = n] /\ aborts' \in 0 .. MaxAborts
  BY DEF StartSweep, Inv, TablesOK
<1> HIDE DEF n
<1> QED BY <1>4, <1>5, <1>6, SweepStep DEF StartSweep

(* Every way a sweep moves on, or ends, without billing.                   *)
LEMMA MovesOn ==
  ASSUME Inv, NEW s \in Server, Working(s), NextContract(s),
         UNCHANGED <<contract, item, invoices, today, edits, aborts>>
  PROVE  Inv'
<1> DEFINE r == server[s]
           rest == r.todo \ {At(r)}
           n == IF rest = {} THEN Idle
                ELSE [todo |-> rest, day |-> r.day, items |-> NotRead]
<1>1. SweepOK(r, today) /\ r.todo # {} /\ aborts \in 0 .. MaxAborts
  BY DEF Inv, SweepsOK, Working, TablesOK
<1>2. SweepOK(n, today) /\ n.items = {}
  BY <1>1, NextOK
<1>3. server' = [server EXCEPT ![s] = n]
  <2>1. rest = server[s].todo \ {Current(s)}
    BY CurrentIsAt
  <2> HIDE DEF rest
  <2> QED BY <2>1 DEF NextContract
<1> HIDE DEF n
<1> QED BY <1>1, <1>2, <1>3, SweepStep

LEMMA SweepEnds ==
  ASSUME Inv, NEW s \in Server, server' = [server EXCEPT ![s] = Idle],
         UNCHANGED <<contract, item, invoices, today, edits>>, aborts' \in 0 .. MaxAborts
  PROVE  Inv'
BY IdleOK, SweepStep

LEMMA ReadItemsKeeps ==
  ASSUME Inv, NEW s \in Server, ReadItems(s)
  PROVE  Inv'
<1> DEFINE r == server[s]
           c == Current(s).id
           n == [r EXCEPT !.items = Billable(c)]
<1>1. CASE Billable(c) = {}
  BY <1>1, MovesOn DEF ReadItems
<1>2. CASE Billable(c) # {}
  <2>1. SweepOK(r, today) /\ r.todo # {} /\ DueIn(r) # NoPeriod /\ aborts' \in 0 .. MaxAborts
    BY CurrentIsAt DEF Inv, SweepsOK, Working, TablesOK, ReadItems
  <2>2. ASSUME NEW l \in Billable(c)
        PROVE  l \in [item : Item, rule : {"every_period", "once"}] /\ item[l.item] # NotYet
    <3>1. PICK i \in LiveItems : /\ l = [item |-> i, rule |-> item[i].rule]
                                 /\ item[i].rule \in {"every_period", "once"}
      BY DEF Billable
    <3> QED BY <3>1 DEF LiveItems
  <2>3. Billable(c) \in Lines
    BY <2>2 DEF Lines
  <2>4. r \in Sweeps
    BY <2>1 DEF SweepOK
  <2>5. /\ n \in Sweeps /\ n.todo = r.todo /\ n.day = r.day /\ n.items = Billable(c)
    BY <2>3, <2>4 DEF Sweeps
  <2>6. DueIn(n) = DueIn(r)
    BY <2>5 DEF DueIn, At
  <2>7. server' = [server EXCEPT ![s] = n]
    BY <1>2 DEF ReadItems
  <2> HIDE DEF n
  <2>8. SweepOK(n, today)
    BY <2>1, <2>5, <2>6 DEF SweepOK
  <2>9. \A l \in n.items : item[l.item] # NotYet
    BY <2>2, <2>5
  <2> QED BY <2>1, <2>7, <2>8, <2>9, SweepStep DEF ReadItems
<1> QED BY <1>1, <1>2

(* One transaction: the invoice, its ledger row and the marks.             *)
LEMMA BillKeeps ==
  ASSUME Inv, NEW s \in Server, Bill(s)
  PROVE  Inv'
<1> DEFINE r == server[s]
           c == At(r)
           p == DueIn(r)
           once == OnceItems(r.items)
           rest == r.todo \ {At(r)}
           n == IF rest = {} THEN Idle
                ELSE [todo |-> rest, day |-> r.day, items |-> NotRead]
           new == [number |-> Cardinality(invoices) + 1,
                   contract |-> c.id, first |-> p.first, last |-> p.last,
                   lines |-> r.items, start |-> c.start, cycle |-> c.cycle]
<1>1. /\ SweepOK(r, today) /\ r.todo # {} /\ r.items # {} /\ p # NoPeriod
      /\ r.items \in Lines /\ c.id \in Live
  BY CurrentIsAt DEF Inv, SweepsOK, SweepOK, Sweeps, Working, Bill, NotRead
<1>2. CASE UNCHANGED <<invoices, item>>
  BY <1>2, MovesOn DEF Bill
<1>3. CASE ~UNCHANGED <<invoices, item>>
  <2>1. /\ ~PeriodInLedger(c.id, p) /\ Claimable(r.items)
        /\ invoices' = invoices \cup {new}
        /\ item' = [i \in Item |-> IF i \in once THEN [item[i] EXCEPT !.billed = TRUE] ELSE item[i]]
        /\ UNCHANGED <<contract, today, edits, aborts>>
    BY <1>3, CurrentIsAt DEF Bill
  <2>2. SweepOK(n, today) /\ n.items = {}
    BY <1>1, NextOK
  <2>3. server' = [server EXCEPT ![s] = n]
    <3>1. rest = server[s].todo \ {Current(s)}
      BY CurrentIsAt
    <3> HIDE DEF rest
    <3> QED BY <3>1 DEF Bill, NextContract
  <2> HIDE DEF n
  <2>4. SweepsOK' /\ \A t \in Server : server'[t] = IF t = s THEN n ELSE server[t]
    BY <2>1, <2>2, <2>3, SweepsAfter DEF Inv
  <2>5. \A i \in Item : i \in once <=> OnceLine(i) \in r.items
    <3> SUFFICES ASSUME NEW i \in Item PROVE i \in once <=> OnceLine(i) \in r.items
      OBVIOUS
    <3>1. ASSUME i \in once PROVE OnceLine(i) \in r.items
      <4>1. PICK l \in r.items : l.rule = "once" /\ l.item = i
        BY <3>1 DEF OnceItems
      <4>2. l \in [item : Item, rule : {"every_period", "once"}]
        BY <1>1 DEF Lines
      <4>3. l = [item |-> i, rule |-> "once"]
        BY <4>1, <4>2
      <4> QED BY <4>1, <4>3 DEF OnceLine
    <3>2. ASSUME OnceLine(i) \in r.items PROVE i \in once
      <4>1. OnceLine(i).rule = "once" /\ OnceLine(i).item = i
        BY DEF OnceLine
      <4> HIDE DEF r
      <4> QED BY <3>2, <4>1 DEF OnceItems
    <3> QED BY <3>1, <3>2
  <2>6. \A i \in once : i \in Item
    BY <1>1 DEF OnceItems, Lines
  <2> DEFINE marked(i) == [item[i] EXCEPT !.billed = TRUE]
  <2>7. ASSUME NEW i \in once
        PROVE  /\ item[i] \in Items /\ ~item[i].billed /\ marked(i) \in Items
               /\ marked(i).billed /\ marked(i).contract = item[i].contract
    <3>1. i \in Item /\ OnceLine(i) \in r.items
      BY <2>5, <2>6
    <3>2. item[i] # NotYet
      BY <3>1 DEF Inv, ItemsKnown, OnceLine
    <3>3. item[i] # None /\ ~item[i].billed
      BY <2>1 DEF Claimable
    <3>4. item[i] \in Items
      BY <3>1, <3>2, <3>3 DEF Inv, TablesOK
    <3> QED BY <3>3, <3>4 DEF Items
  <2>8. \A i \in Item : item'[i] = IF i \in once THEN marked(i) ELSE item[i]
    BY <2>1
  <2>9. item' \in [Item -> Items \cup {None, NotYet}]
    <3>1. \A i \in Item : item[i] \in Items \cup {None, NotYet}
      BY DEF Inv, TablesOK
    <3>2. \A i \in Item : item'[i] \in Items \cup {None, NotYet}
      BY <2>7, <2>8, <3>1
    <3>3. item' = [i \in Item |-> item'[i]]
      BY <2>1
    <3> QED BY <3>2, <3>3
  <2> HIDE DEF marked, once
  <2>10. Live' = Live
    BY <2>1 DEF Live
  <2>11. LiveItems' = LiveItems /\ \A i \in LiveItems : item'[i].contract = item[i].contract
    <3>1. \A i \in Item : /\ item'[i] \in {None, NotYet} <=> item[i] \in {None, NotYet}
                          /\ item'[i].contract = item[i].contract
                          /\ item'[i] = NotYet <=> item[i] = NotYet
      BY <2>7, <2>8, RowsDiffer
    <3> QED BY <3>1 DEF LiveItems
  <2>12. ItemsOwned'
    BY <2>10, <2>11 DEF Inv, ItemsOwned
  <2>13. TablesOK'
    BY <2>1, <2>9 DEF Inv, TablesOK
  <2>14. /\ p = CurrentBillingPeriod(c.cycle, c.start, r.day)
         /\ c.cycle \in Recurring /\ c.start \in Date /\ r.day \in Date /\ c.start <= r.day
    BY <1>1, DueIsCurrent
  <2> HIDE DEF p, c, r
  <2>15. /\ new.contract = c.id /\ new.first = p.first /\ new.last = p.last
         /\ new.lines = r.items /\ new.start = c.start /\ new.cycle = c.cycle
    OBVIOUS
  <2> HIDE DEF new
  <2>16. InvoicesOK'
    <3>1. new.contract \in Live /\ new.lines \in Lines \ {{}} /\ Periodic(new)
      BY <1>1, <2>14, <2>15 DEF Periodic
    <3>2. \A v \in invoices' : v.contract \in Live /\ v.lines \in Lines \ {{}} /\ Periodic(v)
      BY <2>1, <3>1 DEF Inv, InvoicesOK
    <3>3. InvoicesOK' <=> \A v \in invoices' : /\ v.contract \in Live'
                                              /\ v.lines \in Lines \ {{}} /\ Periodic(v)
      BY DEF InvoicesOK, Periodic
    <3> QED BY <2>10, <3>2, <3>3
  <2>17. FirstsUnique'
    <3>1. \A v \in invoices : ~(v.contract = new.contract /\ v.first = new.first)
      BY <2>1, <2>15 DEF PeriodInLedger
    <3> QED BY <2>1, <3>1 DEF Inv, FirstsUnique
  <2>18. ItemsKnown'
    <3> SUFFICES ASSUME NEW t \in Server, NEW l \in server'[t].items PROVE item'[l.item] # NotYet
      BY DEF ItemsKnown
    <3>1. t # s /\ server'[t] = server[t]
      BY <2>2, <2>4
    <3>2. item[l.item] # NotYet /\ server[t].items \in Lines
      BY <3>1 DEF Inv, ItemsKnown, SweepsOK, SweepOK, Sweeps
    <3>3. l.item \in Item
      BY <3>1, <3>2 DEF Lines
    <3> QED BY <2>7, <2>8, <3>2, <3>3, RowsDiffer
  <2>19. OnceClaimed'
    <3> SUFFICES ASSUME NEW v \in invoices', NEW i \in Item, OnceLine(i) \in v.lines
                 PROVE  item'[i] # NotYet /\ (item'[i] # None => item'[i].billed)
      BY DEF OnceClaimed, OnceLine
    <3>1. CASE i \in once
      BY <2>7, <2>8, <3>1, RowsDiffer
    <3>2. CASE i \notin once
      <4>1. v \in invoices
        BY <2>1, <2>5, <2>15, <3>2
      <4> QED BY <2>8, <3>2, <4>1 DEF Inv, OnceClaimed
    <3> QED BY <3>1, <3>2
  <2>20. OnceUnique'
    <3>1. ASSUME NEW v \in invoices, NEW i \in Item, OnceLine(i) \in v.lines
          PROVE  OnceLine(i) \notin new.lines
      <4>1. item[i] # NotYet /\ (item[i] # None => item[i].billed)
        BY <3>1 DEF Inv, OnceClaimed
      <4> QED BY <2>5, <2>7, <2>15, <4>1, RowsDiffer
    <3>2. \A v, w \in invoices : \A i \in Item :
            OnceLine(i) \in v.lines /\ OnceLine(i) \in w.lines => v = w
      BY DEF Inv, OnceUnique
    <3>3. \A v, w \in invoices' : \A i \in Item :
            OnceLine(i) \in v.lines /\ OnceLine(i) \in w.lines => v = w
      BY <2>1, <3>1, <3>2
    <3> QED BY <3>3 DEF OnceUnique, OnceLine
  <2> QED BY <2>4, <2>12, <2>13, <2>16, <2>17, <2>18, <2>19, <2>20 DEF Inv
<1> QED BY <1>2, <1>3

(* A contract is edited, renewed or closed.                                *)
LEMMA ContractEdited ==
  ASSUME Inv, NEW c \in Live, NEW n \in Contracts, contract' = [contract EXCEPT ![c] = n],
         UNCHANGED <<item, invoices, server, today, aborts>>, edits' \in 0 .. MaxEdits
  PROVE  Inv'
<1>1. c \in Contract /\ contract \in [Contract -> Contracts \cup {None}]
  BY DEF Inv, TablesOK, Live
<1>2. contract' \in [Contract -> Contracts \cup {None}]
  BY <1>1
<1>3. \A k \in Contract : contract'[k] = IF k = c THEN n ELSE contract[k]
  BY <1>1
<1>4. Live' = Live
  BY <1>3, RowsDiffer DEF Live
<1>5. item \in [Item -> Items \cup {None, NotYet}] /\ today \in Days /\ today \in Int
  BY RecurringAssumption, DateFacts DEF Inv, TablesOK
<1>6. ItemsOwned'
  BY <1>4 DEF Inv, ItemsOwned, LiveItems
<1>7. \A v \in invoices : v.contract \in Live'
  BY <1>4 DEF Inv, InvoicesOK
<1>8. today <= today'
  BY <1>5
<1> QED BY <1>2, <1>5, <1>6, <1>7, <1>8, TableStep

LEMMA UpdateContractKeeps ==
  ASSUME Inv, NEW c \in Contract, UpdateContract(c)
  PROVE  Inv'
<1>1. c \in Live /\ contract[c] \in Contracts
  BY DEF UpdateContract, Inv, TablesOK, Live
<1>2. edits' \in 0 .. MaxEdits
  BY RecurringAssumption DEF UpdateContract, Edit, Inv, TablesOK
<1>3. \E n \in Contracts : contract' = [contract EXCEPT ![c] = n]
  <2>1. CASE \E status \in Statuses : contract' = [contract EXCEPT ![c].status = status]
    <3>1. PICK status \in Statuses : contract' = [contract EXCEPT ![c].status = status]
      BY <2>1
    <3>2. [contract[c] EXCEPT !.status = status] \in Contracts
      BY <1>1 DEF Contracts
    <3> QED BY <3>1, <3>2
  <2>4. CASE \E renew \in BOOLEAN : contract' = [contract EXCEPT ![c].autoRenew = renew]
    <3>1. PICK renew \in BOOLEAN : contract' = [contract EXCEPT ![c].autoRenew = renew]
      BY <2>4
    <3>2. [contract[c] EXCEPT !.autoRenew = renew] \in Contracts
      BY <1>1 DEF Contracts
    <3> QED BY <3>1, <3>2
  <2>2. CASE \E cycle \in Cycles : contract' = [contract EXCEPT ![c].cycle = cycle]
    <3>1. PICK cycle \in Cycles : contract' = [contract EXCEPT ![c].cycle = cycle]
      BY <2>2
    <3>2. [contract[c] EXCEPT !.cycle = cycle] \in Contracts
      BY <1>1 DEF Contracts
    <3> QED BY <3>1, <3>2
  <2>3. CASE \E end \in Ends : contract' = [contract EXCEPT ![c].end = end]
    <3>1. PICK end \in Ends : contract' = [contract EXCEPT ![c].end = end]
      BY <2>3
    <3>2. end \in Date
      BY RecurringAssumption
    <3>3. [contract[c] EXCEPT !.end = end] \in Contracts
      BY <1>1, <3>2 DEF Contracts
    <3> QED BY <3>1, <3>3
  <2> QED BY <2>1, <2>2, <2>3, <2>4 DEF UpdateContract
<1> QED BY <1>1, <1>2, <1>3, ContractEdited DEF UpdateContract

(* The term that follows lies within the window.                           *)
LEMMA RenewalDates ==
  ASSUME NEW start \in Date, NEW end \in Date
  PROVE  LET first == Min({end + 1, Horizon - 1})
         IN /\ first \in Date
            /\ RenewalEnd(first, Max({1, MonthsBetween(start, end)})) \in Date
<1> DEFINE first == Min({end + 1, Horizon - 1})
           months == MonthsBetween(start, end)
           term == Max({1, months})
           after == AddMonths(first, term)
<1>1. Horizon \in Nat /\ end \in Nat /\ 1 <= end /\ end < Horizon
  BY DateFacts
<1>2. first = IF end + 1 <= Horizon - 1 THEN end + 1 ELSE Horizon - 1
  BY <1>1, MinOfTwo
<1>3. first \in Date /\ first \in Nat /\ 1 <= first /\ first < Horizon
  BY <1>1, <1>2, DateFacts
<1>4. months \in Int
  <2>1. MonthOf(start) \in 1 .. Months /\ MonthOf(end) \in 1 .. Months /\ Months \in Nat
    BY MonthOfDay, MonthsFacts
  <2>2. MonthOf(end) - MonthOf(start) \in Int
    BY <2>1
  <2> QED BY <2>2, MaxOfTwo DEF MonthsBetween
<1> HIDE DEF first, months
<1>5. term \in Nat /\ term >= 1
  BY <1>4, MaxOfTwo
<1> HIDE DEF term
<1>6. after \in Int /\ first < after /\ after <= Horizon
  BY <1>3, <1>5, AddMonthsLater
<1>7. RenewalEnd(first, term) = Max({first, after - 1})
  BY DEF RenewalEnd
<1> HIDE DEF after
<1>8. Max({first, after - 1}) = IF first >= after - 1 THEN first ELSE after - 1
  BY <1>3, <1>6, MaxOfTwo
<1>9. RenewalEnd(first, term) \in Date
  BY <1>1, <1>3, <1>6, <1>7, <1>8, DateFacts
<1> QED BY <1>3, <1>9 DEF first, term, months

LEMMA ExpireOrRenewKeeps ==
  ASSUME Inv, NEW c \in Contract, ExpireOrRenew(c)
  PROVE  Inv'
<1> DEFINE old == contract[c]
           start == Min({old.end + 1, Horizon - 1})
           end == RenewalEnd(start, Max({1, MonthsBetween(old.start, old.end)}))
           n == IF old.autoRenew
                THEN [old EXCEPT !.status = "renewed", !.start = start, !.end = end]
                ELSE [old EXCEPT !.status = "expired"]
<1>1. c \in Live /\ old \in Contracts /\ old.end # NoEnd
  BY DEF ExpireOrRenew, Inv, TablesOK, Live
<1>2. old.start \in Date /\ old.end \in Date
  BY <1>1 DEF Contracts
<1>3. start \in Date /\ end \in Date
  BY <1>2, RenewalDates
<1>4. contract' = [contract EXCEPT ![c] = n] /\ edits' \in 0 .. MaxEdits
  BY DEF ExpireOrRenew, Inv, TablesOK
<1> HIDE DEF start, end
<1>5. n \in Contracts
  BY <1>1, <1>3 DEF Contracts, Statuses
<1> HIDE DEF n
<1> QED BY <1>1, <1>4, <1>5, ContractEdited DEF ExpireOrRenew

LEMMA DeleteContractKeeps ==
  ASSUME Inv, NEW c \in Contract, DeleteContract(c)
  PROVE  Inv'
<1>1. /\ contract \in [Contract -> Contracts \cup {None}]
      /\ item \in [Item -> Items \cup {None, NotYet}]
      /\ today \in Days /\ today \in Int
  BY RecurringAssumption, DateFacts DEF Inv, TablesOK
<1>2. contract' \in [Contract -> Contracts \cup {None}]
  BY <1>1 DEF DeleteContract
<1>3. \A k \in Contract : contract'[k] = IF k = c THEN None ELSE contract[k]
  BY <1>1 DEF DeleteContract
<1>4. Live' = Live \ {c}
  BY <1>3 DEF Live
<1>5. \A i \in Item : item'[i] = IF i \in LiveItems /\ item[i].contract = c THEN None ELSE item[i]
  BY DEF DeleteContract
<1>6. item' \in [Item -> Items \cup {None, NotYet}]
  BY <1>1 DEF DeleteContract
<1>7. ItemsOwned'
  <2> SUFFICES ASSUME NEW i \in LiveItems' PROVE item'[i].contract \in Live'
    BY DEF ItemsOwned
  <2>1. i \in Item /\ item'[i] # None /\ item'[i] # NotYet
    BY DEF LiveItems
  <2>2. item'[i] = item[i] /\ i \in LiveItems /\ item[i].contract # c
    BY <1>5, <2>1 DEF LiveItems
  <2> QED BY <1>4, <2>2 DEF Inv, ItemsOwned
<1>8. \A v \in invoices : v.contract \in Live'
  BY <1>4 DEF Inv, InvoicesOK, DeleteContract
<1>9. \A i \in Item : item[i] # NotYet =>
           /\ item'[i] # NotYet
           /\ item'[i] # None => item[i] # None /\ (item[i].billed => item'[i].billed)
  BY <1>5, RowsDiffer
<1>10. edits' \in 0 .. MaxEdits /\ today <= today' /\ today' \in Days
  BY <1>1, RecurringAssumption DEF DeleteContract, Edit, Inv, TablesOK
<1> QED BY <1>2, <1>6, <1>7, <1>8, <1>9, <1>10, TableStep DEF DeleteContract

(* One item is created, edited or deleted.                                 *)
LEMMA ItemEdited ==
  ASSUME Inv, NEW i \in Item, NEW n \in Items \cup {None}, item' = [item EXCEPT ![i] = n],
         n # None => n.contract \in Live,
         item[i] # NotYet => item[i] # None /\ (n # None /\ item[i].billed => n.billed),
         UNCHANGED <<contract, invoices, server, today, aborts>>, edits' \in 0 .. MaxEdits
  PROVE  Inv'
<1>1. /\ contract \in [Contract -> Contracts \cup {None}]
      /\ item \in [Item -> Items \cup {None, NotYet}]
      /\ today \in Days /\ today \in Int
  BY RecurringAssumption, DateFacts DEF Inv, TablesOK
<1>2. item' \in [Item -> Items \cup {None, NotYet}]
  BY <1>1
<1>3. \A j \in Item : item'[j] = IF j = i THEN n ELSE item[j]
  BY <1>1
<1>4. n # NotYet
  BY RowsDiffer
<1>5. Live' = Live
  BY DEF Live
<1>6. ItemsOwned'
  <2> SUFFICES ASSUME NEW j \in LiveItems' PROVE item'[j].contract \in Live
    BY <1>5 DEF ItemsOwned
  <2>1. j \in Item /\ item'[j] # None /\ item'[j] # NotYet
    BY DEF LiveItems
  <2> QED BY <1>3, <2>1 DEF Inv, ItemsOwned, LiveItems
<1>7. \A v \in invoices : v.contract \in Live'
  BY <1>5 DEF Inv, InvoicesOK
<1>8. \A j \in Item : item[j] # NotYet =>
           /\ item'[j] # NotYet
           /\ item'[j] # None => item[j] # None /\ (item[j].billed => item'[j].billed)
  BY <1>3, <1>4
<1>9. today <= today' /\ today' \in Days
  BY <1>1
<1> QED BY <1>1, <1>2, <1>6, <1>7, <1>8, <1>9, TableStep

LEMMA ItemStepsKeep ==
  ASSUME Inv, NEW i \in Item, CreateItem(i) \/ UpdateItem(i) \/ DeleteItem(i)
  PROVE  Inv'
<1>1. item[i] \in Items \cup {None, NotYet}
  BY DEF Inv, TablesOK
<1>2. CASE CreateItem(i)
  <2>1. PICK c \in Live, rule \in Rules :
          item' = [item EXCEPT ![i] = [contract |-> c, rule |-> rule, billed |-> FALSE]]
    BY <1>2 DEF CreateItem
  <2> DEFINE n == [contract |-> c, rule |-> rule, billed |-> FALSE]
  <2>2. n \in Items /\ n.contract \in Live
    BY <2>1 DEF Items, Live
  <2>3. item[i] = NotYet /\ edits' \in 0 .. MaxEdits
    BY <1>2, RecurringAssumption DEF CreateItem, Edit, Inv, TablesOK
  <2> HIDE DEF n
  <2>4. item' = [item EXCEPT ![i] = n]
    BY <2>1 DEF n
  <2> QED BY <1>2, <2>2, <2>3, <2>4, ItemEdited DEF CreateItem
<1>3. CASE UpdateItem(i)
  <2>1. PICK rule \in Rules : item' = [item EXCEPT ![i].rule = rule]
    BY <1>3 DEF UpdateItem
  <2> DEFINE n == [item[i] EXCEPT !.rule = rule]
  <2>2. i \in LiveItems /\ item[i] \in Items /\ edits' \in 0 .. MaxEdits
    BY <1>1, <1>3, RecurringAssumption DEF UpdateItem, Edit, LiveItems, Inv, TablesOK
  <2>3. n \in Items /\ n.contract = item[i].contract /\ n.billed = item[i].billed
    BY <2>2 DEF Items
  <2>4. n.contract \in Live
    BY <2>2, <2>3 DEF Inv, ItemsOwned
  <2>5. item' = [item EXCEPT ![i] = n]
    BY <2>1
  <2>6. item[i] # None
    BY <2>2, RowsDiffer
  <2> HIDE DEF n
  <2> QED BY <1>3, <2>2, <2>3, <2>4, <2>5, <2>6, ItemEdited DEF UpdateItem
<1>4. CASE DeleteItem(i)
  <2>1. item[i] # None /\ edits' \in 0 .. MaxEdits /\ item' = [item EXCEPT ![i] = None]
    BY <1>4, RecurringAssumption DEF DeleteItem, LiveItems, Edit, Inv, TablesOK
  <2> QED BY <1>4, <2>1, ItemEdited DEF DeleteItem
<1> QED BY <1>2, <1>3, <1>4

LEMMA NextDayKeeps ==
  ASSUME Inv, NextDay
  PROVE  Inv'
<1> DEFINE Later == {d \in Days : d > today}
<1>1. /\ contract \in [Contract -> Contracts \cup {None}]
      /\ item \in [Item -> Items \cup {None, NotYet}]
      /\ today \in Days /\ edits \in 0 .. MaxEdits
      /\ Days \subseteq Nat
  BY RecurringAssumption, DateFacts DEF Inv, TablesOK
<1>2. Later # {}
  <2> SUFFICES ASSUME Later = {} PROVE today = Max(Days)
    BY DEF NextDay
  <2>1. \A d \in Days : today >= d
    BY <1>1
  <2>2. Max(Days) \in Days /\ Max(Days) >= today
    BY <1>1, <2>1 DEF Max
  <2>3. today \in Nat /\ Max(Days) \in Nat /\ today >= Max(Days)
    BY <1>1, <2>1, <2>2
  <2> QED BY <2>2, <2>3
<1>3. Min(Later) \in Later
  <2>1. Later \subseteq Nat
    BY <1>1
  <2> HIDE DEF Later
  <2>2. \E x \in Later : \A y \in Later : x <= y
    BY <1>2, <2>1, LeastNat
  <2> QED BY <2>2 DEF Min
<1>4. today' \in Days /\ today <= today'
  <2>1. today' = Min(Later)
    BY DEF NextDay
  <2>2. today' \in Days /\ today' > today
    BY <1>3, <2>1
  <2>3. today' \in Nat /\ today \in Nat
    BY <1>1, <2>2
  <2> QED BY <2>2, <2>3
<1>5. Live' = Live /\ LiveItems' = LiveItems
  BY DEF Live, LiveItems, NextDay
<1>6. ItemsOwned' /\ \A v \in invoices : v.contract \in Live'
  BY <1>5 DEF Inv, ItemsOwned, InvoicesOK, NextDay
<1> QED BY <1>1, <1>4, <1>6, TableStep DEF NextDay

LEMMA InitInv == Init => Inv
<1> SUFFICES ASSUME Init PROVE Inv
  OBVIOUS
<1>1. PICK o \in Opening : contract = o.contract /\ item = o.item
  BY DEF Init
<1>2. contract \in [Contract -> Contracts] /\ item \in [Item -> Items \cup {NotYet}]
  BY <1>1, RecurringAssumption
<1>3. today \in Days
  <2>1. Days \subseteq Nat /\ Days # {}
    BY RecurringAssumption, DateFacts
  <2>2. \E x \in Days : \A y \in Days : x <= y
    BY <2>1, LeastNat
  <2> QED BY <2>2 DEF Init, Min
<1>4. TablesOK
  BY <1>2, <1>3, RecurringAssumption DEF Init, TablesOK
<1>5. ItemsOwned
  <2> SUFFICES ASSUME NEW i \in LiveItems PROVE item[i].contract \in Live
    BY DEF ItemsOwned
  <2>1. item[i] \in Items
    BY <1>2 DEF LiveItems
  <2>2. item[i].contract \in Contract
    BY <2>1 DEF Items
  <2>3. contract[item[i].contract] \in Contracts
    BY <1>2, <2>2
  <2> QED BY <2>2, <2>3, RowsDiffer DEF Live
<1>6. invoices = {} /\ server = [s \in Server |-> Idle]
  BY DEF Init
<1>7. InvoicesOK /\ FirstsUnique /\ OnceClaimed /\ OnceUnique
  BY <1>6 DEF InvoicesOK, FirstsUnique, OnceClaimed, OnceUnique
<1>8. SweepsOK /\ ItemsKnown
  BY <1>6, IdleOK DEF SweepsOK, ItemsKnown
<1> QED BY <1>4, <1>5, <1>7, <1>8 DEF Inv

LEMMA NextInv == Inv /\ [Next]_vars => Inv'
<1> SUFFICES ASSUME Inv, [Next]_vars PROVE Inv'
  OBVIOUS
<1>1. ASSUME NEW s \in Server, Step(s) PROVE Inv'
  <2>1. aborts \in 0 .. MaxAborts
    BY DEF Inv, TablesOK
  <2>2. CASE StartSweep(s)
    BY <2>2, StartSweepKeeps
  <2>3. CASE Skip(s)
    BY <2>3, MovesOn DEF Skip
  <2>4. CASE RollFails(s)
    BY <2>1, <2>4, SweepEnds DEF RollFails
  <2>5. CASE ReadItems(s)
    BY <2>5, ReadItemsKeeps
  <2>6. CASE Bill(s)
    BY <2>6, BillKeeps
  <2>7. CASE BillDeleted(s)
    BY <2>1, <2>7, SweepEnds DEF BillDeleted
  <2> QED BY <1>1, <2>2, <2>3, <2>4, <2>5, <2>6, <2>7 DEF Step
<1>2. ASSUME NEW s \in Server, Abort(s) PROVE Inv'
  <2>1. aborts' \in 0 .. MaxAborts
    BY <1>2, RecurringAssumption DEF Abort, Inv, TablesOK
  <2> QED BY <1>2, <2>1, SweepEnds DEF Abort
<1>3. CASE Staff
  BY <1>3, UpdateContractKeeps, DeleteContractKeeps, ItemStepsKeep DEF Staff
<1>4. ASSUME NEW c \in Contract, ExpireOrRenew(c) PROVE Inv'
  BY <1>4, ExpireOrRenewKeeps
<1>5. CASE NextDay
  BY <1>5, NextDayKeeps
<1>6. CASE UNCHANGED vars
  <2>1. UNCHANGED <<contract, item, invoices, server, today, edits, aborts>>
    BY <1>6 DEF vars
  <2> QED BY <2>1 DEF Inv, TablesOK, ItemsOwned, InvoicesOK, Periodic, SweepsOK, FirstsUnique,
                      ItemsKnown, OnceClaimed, OnceUnique, Live, LiveItems
<1> QED BY <1>1, <1>2, <1>3, <1>4, <1>5, <1>6 DEF Next

LEMMA InvHolds == Spec => []Inv
BY InitInv, NextInv, PTL DEF Spec

-----------------------------------------------------------------------------
(* The theorems.                                                           *)

(* Sweeps, edits and renewals keep the tables well formed: invoices name   *)
(* contracts that are there, have lines and lie within the window, and no  *)
(* server bills from a day that has not come.                              *)
THEOREM RecurringTypeCorrect == Spec => []RecurringTypeOK
<1>1. ASSUME Inv PROVE RecurringTypeOK
  <2>1. \A i \in LiveItems : item[i] \in Items /\ item[i].contract \in Live
    BY <1>1 DEF Inv, TablesOK, ItemsOwned, LiveItems
  <2>2. ASSUME NEW v \in invoices
        PROVE  /\ v.contract \in Live /\ v.lines \in Lines \ {{}}
               /\ v.first \in Date /\ v.last \in v.first .. Horizon - 1
    <3>1. v.contract \in Live /\ v.lines \in Lines \ {{}} /\ Periodic(v)
      BY <1>1 DEF Inv, InvoicesOK
    <3>2. PICK d \in Date : /\ v.start <= d
                            /\ v.first = CurrentBillingPeriod(v.cycle, v.start, d).first
                            /\ v.last = CurrentBillingPeriod(v.cycle, v.start, d).last
      BY <3>1 DEF Periodic
    <3>3. v.start \in Date /\ v.cycle \in Recurring
      BY <3>1 DEF Periodic
    <3>4. v.first \in v.start .. d /\ v.last \in d .. Horizon - 1
      BY <3>2, <3>3, PeriodOfDay
    <3>5. /\ v.start \in Nat /\ 1 <= v.start /\ d \in Nat /\ d < Horizon /\ Horizon \in Nat
      BY <3>3, DateFacts
    <3>6. v.first \in Nat /\ 1 <= v.first /\ v.first < Horizon /\ v.last \in v.first .. Horizon - 1
      BY <3>4, <3>5
    <3> QED BY <3>1, <3>6, DateFacts
  <2>3. ASSUME NEW s \in Server
        PROVE  /\ server[s].items \in Lines /\ (server[s].items # NotRead => Working(s))
               /\ Working(s) => server[s].day \in Days /\ server[s].day <= today
    BY <1>1 DEF Inv, SweepsOK, SweepOK, Sweeps, Working
  <2> QED BY <1>1, <2>1, <2>2, <2>3 DEF RecurringTypeOK, Inv, TablesOK
<1> QED BY <1>1, InvHolds, PTL

(* No day of a contract is invoiced twice for one first day and cycle,     *)
(* whatever servers, crashes and days do: the ledger keeps the first days  *)
(* apart, and the walk over the periods keeps periods apart whose first    *)
(* days differ.                                                            *)
THEOREM DaysInvoicedOnce == Spec => []PeriodsDisjoint
<1>1. ASSUME Inv PROVE PeriodsDisjoint
  <2> SUFFICES ASSUME NEW v \in invoices, NEW w \in invoices, v # w, v.contract = w.contract,
                      v.start = w.start, v.cycle = w.cycle
               PROVE  v.last < w.first \/ w.last < v.first
    BY DEF PeriodsDisjoint
  <2>1. v.start \in Date /\ v.cycle \in Recurring /\ v.first # w.first
    BY <1>1 DEF Inv, InvoicesOK, Periodic, FirstsUnique
  <2>2. PICK d \in Date : /\ v.start <= d
                          /\ v.first = CurrentBillingPeriod(v.cycle, v.start, d).first
                          /\ v.last = CurrentBillingPeriod(v.cycle, v.start, d).last
    BY <1>1 DEF Inv, InvoicesOK, Periodic
  <2>3. PICK e \in Date : /\ v.start <= e
                          /\ w.first = CurrentBillingPeriod(v.cycle, v.start, e).first
                          /\ w.last = CurrentBillingPeriod(v.cycle, v.start, e).last
    BY <1>1 DEF Inv, InvoicesOK, Periodic
  <2>4. CASE d <= e
    BY <2>1, <2>2, <2>3, <2>4, DaysApart
  <2>5. CASE e <= d
    BY <2>1, <2>2, <2>3, <2>5, DaysApart
  <2>6. d <= e \/ e <= d
    BY DateFacts
  <2> QED BY <2>4, <2>5, <2>6
<1> QED BY <1>1, InvHolds, PTL

(* An item billed once is on one invoice at most: the transaction that     *)
(* writes the invoice marks the item or is rolled back, and no edit takes  *)
(* the mark away.                                                          *)
THEOREM OnceItemsBilledOnce == Spec => []OnceBilledOnce
<1>1. ASSUME Inv PROVE OnceBilledOnce
  <2> SUFFICES ASSUME NEW i \in Item
               PROVE  Cardinality({v \in invoices : [item |-> i, rule |-> "once"] \in v.lines}) <= 1
    BY DEF OnceBilledOnce
  <2> DEFINE S == {v \in invoices : [item |-> i, rule |-> "once"] \in v.lines}
  <2>1. \A v, w \in S : v = w
    BY <1>1 DEF Inv, OnceUnique, OnceLine
  <2> HIDE DEF S
  <2>2. ASSUME S = {} PROVE Cardinality(S) <= 1
    BY <2>2, FS_EmptySet
  <2>3. ASSUME S # {} PROVE Cardinality(S) <= 1
    <3>1. PICK v : S = {v}
      BY <2>1, <2>3
    <3>2. Cardinality({v}) = 1
      BY FS_Singleton
    <3> QED BY <3>1, <3>2
  <2>4. Cardinality(S) <= 1
    BY <2>2, <2>3
  <2> QED BY <2>4 DEF S
<1> QED BY <1>1, InvHolds, PTL

(* The loop that bills and the loop that draws and rolls prepaid hours cut *)
(* time alike, for every calendar, first day and recurring cycle.          *)
THEOREM LoopsCutAlike == Spec => []PeriodsAgree
<1>1. ASSUME Inv PROVE PeriodsAgree
  <2> SUFFICES ASSUME NEW c \in Live, contract[c].cycle \in Recurring,
                      contract[c].start <= today
               PROVE  LET k == contract[c]
                          p == CurrentBillingPeriod(k.cycle, k.start, today)
                      IN /\ PeriodFor(k.start, k.cycle, today) = p
                         /\ p.first > k.start =>
                              PeriodFor(k.start, k.cycle, p.first - 1).last = p.first - 1
    BY DEF PeriodsAgree
  <2>1. contract[c] \in Contracts /\ today \in Date
    BY <1>1, RecurringAssumption DEF Inv, TablesOK, Live
  <2>2. contract[c].start \in Date
    BY <2>1 DEF Contracts
  <2> QED BY <2>1, <2>2, LoopsAgree
<1> QED BY <1>1, InvHolds, PTL
=============================================================================
