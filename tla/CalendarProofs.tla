--------------------------- MODULE CalendarProofs ---------------------------
(***************************************************************************)
(* What holds of Calendar from any first year on, for any number of months *)
(* that datetime knows, any hours the clock is looked at and any of them   *)
(* at which blocks are stored.  A month has a number, i; the               *)
(* program counts by year and month and goes back and forth between these  *)
(* and instants.                                                           *)
(***************************************************************************)
EXTENDS Calendar, WellFoundedInduction, TLAPS

-----------------------------------------------------------------------------
(* Least and greatest                                                       *)

Less == {ab \in Nat \X Nat : ab[1] < ab[2]}

LEMMA LeastExists ==
  ASSUME NEW P, P \subseteq Nat, P # {}
  PROVE  \E p \in P : \A q \in P : p <= q
<1>1. \A a, b \in Nat : <<a, b>> \in Less <=> a < b
  BY DEF Less
<1>2. OpToRel(<, Nat) = Less
  BY Zenon DEF OpToRel, Less
<1>3. IsWellFoundedOn(Less, Nat)
  BY <1>2, NatLessThanWellFounded, Zenon
<1>4. PICK p \in P : \A q \in P : ~ (<<q, p>> \in Less)
  BY <1>3, WFMin, Zenon
<1>5. ASSUME NEW q \in P PROVE p <= q
  <2>1. ~ (q < p)
    BY <1>1, <1>4
  <2> QED BY <2>1
<1> QED BY <1>4, <1>5

LEMMA MinIsLeast ==
  ASSUME NEW P, P \subseteq Nat, P # {}
  PROVE  Min(P) \in P /\ \A q \in P : Min(P) <= q
BY LeastExists DEF Min

-----------------------------------------------------------------------------
(* The calendar                                                             *)

LEMMA MonthNumbers ==
  ASSUME NEW i \in Nat
  PROVE  /\ YearOf(i) \in Nat /\ YearOf(i) >= FirstYear /\ MonthOf(i) \in 1 .. 12
         /\ 12 * (YearOf(i) - FirstYear) + MonthOf(i) - 1 = i
<1>1. i \div 12 \in Nat /\ i % 12 \in 0 .. 11 /\ i = 12 * (i \div 12) + (i % 12)
  OBVIOUS
<1> QED BY <1>1, CalendarAssumption DEF YearOf, MonthOf

LEMMA MonthAfter ==
  ASSUME NEW i \in Nat
  PROVE  /\ MonthOf(i) = 12 => YearOf(i + 1) = YearOf(i) + 1 /\ MonthOf(i + 1) = 1
         /\ MonthOf(i) # 12 => YearOf(i + 1) = YearOf(i) /\ MonthOf(i + 1) = MonthOf(i) + 1
<1>1. i \div 12 \in Nat /\ i % 12 \in 0 .. 11 /\ i = 12 * (i \div 12) + (i % 12)
  OBVIOUS
<1>2. i % 12 = 11 => (i + 1) \div 12 = (i \div 12) + 1 /\ (i + 1) % 12 = 0
  BY <1>1
<1>3. i % 12 # 11 => (i + 1) \div 12 = i \div 12 /\ (i + 1) % 12 = (i % 12) + 1
  BY <1>1
<1> QED BY <1>1, <1>2, <1>3, CalendarAssumption DEF YearOf, MonthOf

LEMMA LeapDays ==
  ASSUME NEW y \in Nat
  PROVE  /\ LeapsUpTo(y) \in Int /\ LeapsUpTo(y - 1) \in Int
         /\ LeapsUpTo(y) = LeapsUpTo(y - 1) + (IF Leap(y) THEN 1 ELSE 0)
<1>1. y \div 4 = ((y - 1) \div 4) + (IF y % 4 = 0 THEN 1 ELSE 0)
  OBVIOUS
<1>2. y \div 100 = ((y - 1) \div 100) + (IF y % 100 = 0 THEN 1 ELSE 0)
  OBVIOUS
<1>3. y \div 400 = ((y - 1) \div 400) + (IF y % 400 = 0 THEN 1 ELSE 0)
  OBVIOUS
<1>4. (y % 400 = 0 => y % 100 = 0) /\ (y % 100 = 0 => y % 4 = 0)
  OBVIOUS
<1>5. \A k \in {4, 100, 400} : (y \div k) \in Int /\ ((y - 1) \div k) \in Int
  OBVIOUS
<1> QED BY <1>1, <1>2, <1>3, <1>4, <1>5 DEF LeapsUpTo, Leap

LEMMA DaysBeforeIs ==
  /\ DaysBefore[1] = 0   /\ DaysBefore[2] = 31  /\ DaysBefore[3] = 59   /\ DaysBefore[4] = 90
  /\ DaysBefore[5] = 120 /\ DaysBefore[6] = 151 /\ DaysBefore[7] = 181  /\ DaysBefore[8] = 212
  /\ DaysBefore[9] = 243 /\ DaysBefore[10] = 273 /\ DaysBefore[11] = 304 /\ DaysBefore[12] = 334
BY DEF DaysBefore

LEMMA FirstDayIsDay == \A i \in Nat : FirstDay(i) \in Int
<1> SUFFICES ASSUME NEW i \in Nat PROVE FirstDay(i) \in Int
  OBVIOUS
<1>1. \A m \in 1 .. 12 : DaysBefore[m] \in Int
  BY DaysBeforeIs
<1>2. YearOf(i) \in Nat /\ MonthOf(i) \in 1 .. 12
  BY MonthNumbers
<1>3. LeapsUpTo(YearOf(i) - 1) \in Int /\ LeapsUpTo(FirstYear - 1) \in Int
  BY <1>2, LeapDays, CalendarAssumption
<1> QED BY <1>1, <1>2, <1>3, CalendarAssumption DEF FirstDay

LEMMA DaysOfMonth == \A y, m : DaysIn(y, m) \in 28 .. 31
BY DEF DaysIn

(* The months are as long as calendar.monthrange says, and come one after    *)
(* the other.                                                                *)
LEMMA MonthLength ==
  ASSUME NEW i \in Nat
  PROVE  FirstDay(i + 1) = FirstDay(i) + DaysIn(YearOf(i), MonthOf(i))
<1> DEFINE y == YearOf(i)
           m == MonthOf(i)
           L(z) == LeapsUpTo(z)
<1>1. y \in Nat /\ m \in 1 .. 12 /\ FirstYear \in Nat /\ i + 1 \in Nat
  BY MonthNumbers, CalendarAssumption
<1>2. /\ L(y) \in Int /\ L(y - 1) \in Int /\ L(FirstYear - 1) \in Int
      /\ L(y) = L(y - 1) + (IF Leap(y) THEN 1 ELSE 0)
  BY <1>1, LeapDays
<1>3. FirstDay(i) = 365 * (y - FirstYear) + L(y - 1) - L(FirstYear - 1)
                      + DaysBefore[m] + (IF m > 2 /\ Leap(y) THEN 1 ELSE 0)
  BY DEF FirstDay
<1>4. CASE m = 12
  <2>1. YearOf(i + 1) = y + 1 /\ MonthOf(i + 1) = 1
    BY <1>4, MonthAfter
  <2>2. FirstDay(i + 1) = 365 * (y + 1 - FirstYear) + L(y) - L(FirstYear - 1) + DaysBefore[1]
    <3>1. L(YearOf(i + 1) - 1) = L(y)
      BY <1>1, <2>1
    <3>2. FirstDay(i + 1) = 365 * (YearOf(i + 1) - FirstYear) + L(YearOf(i + 1) - 1) - L(FirstYear - 1)
                              + DaysBefore[1] + 0
      BY <2>1 DEF FirstDay
    <3>3. DaysBefore[1] = 0 /\ L(y) \in Int /\ L(FirstYear - 1) \in Int
      BY <1>2, DaysBeforeIs
    <3> HIDE DEF y, m, L
    <3> QED BY <1>1, <2>1, <3>1, <3>2, <3>3
  <2>3. DaysIn(y, m) = 31
    BY <1>4 DEF DaysIn
  <2> HIDE DEF y, m, L
  <2> QED BY <1>1, <1>2, <1>3, <1>4, <2>2, <2>3, DaysBeforeIs DEF y, m
<1>5. CASE m # 12
  <2>1. YearOf(i + 1) = y /\ MonthOf(i + 1) = m + 1
    BY <1>5, MonthAfter
  <2>2. FirstDay(i + 1) = 365 * (y - FirstYear) + L(y - 1) - L(FirstYear - 1)
                            + DaysBefore[m + 1] + (IF m + 1 > 2 /\ Leap(y) THEN 1 ELSE 0)
    BY <2>1 DEF FirstDay
  <2>3. DaysBefore[m + 1] + (IF m + 1 > 2 /\ Leap(y) THEN 1 ELSE 0)
          = DaysBefore[m] + (IF m > 2 /\ Leap(y) THEN 1 ELSE 0) + DaysIn(y, m)
    <3> HIDE DEF y, m
    <3> QED BY <1>1, <1>5, DaysBeforeIs DEF DaysIn
  <2>4. DaysBefore[m] \in Int /\ DaysBefore[m + 1] \in Int /\ DaysIn(y, m) \in Int
    <3>1. \A n \in 1 .. 12 : DaysBefore[n] \in Int
      BY DaysBeforeIs
    <3>2. m + 1 \in 1 .. 12
      BY <1>1, <1>5
    <3> QED BY <1>1, <3>1, <3>2, DaysOfMonth
  <2> HIDE DEF y, m, L
  <2> QED BY <1>1, <1>2, <1>3, <2>2, <2>3, <2>4 DEF y, m
<1> QED BY <1>4, <1>5

LEMMA FirstMonth == FirstDay(0) = 0
<1>1. YearOf(0) = FirstYear /\ MonthOf(0) = 1
  BY CalendarAssumption DEF YearOf, MonthOf
<1>2. LeapsUpTo(FirstYear - 1) \in Int
  BY LeapDays, CalendarAssumption
<1> QED BY <1>1, <1>2, DaysBeforeIs, CalendarAssumption DEF FirstDay

LEMMA MonthsInOrder ==
  ASSUME NEW i \in Nat, NEW j \in Nat, i < j
  PROVE  FirstDay(i + 1) <= FirstDay(j) /\ FirstDay(i) < FirstDay(j)
<1>1. \A k \in Nat : FirstDay(k) \in Int /\ FirstDay(k) < FirstDay(k + 1)
  <2> SUFFICES ASSUME NEW k \in Nat PROVE FirstDay(k) \in Int /\ FirstDay(k) < FirstDay(k + 1)
    OBVIOUS
  <2>1. FirstDay(k) \in Int /\ DaysIn(YearOf(k), MonthOf(k)) \in 28 .. 31
    BY FirstDayIsDay, DaysOfMonth
  <2> QED BY <2>1, MonthLength
<1>2. FirstDay(i + 1) <= FirstDay(j)
  <2> DEFINE early == {k \in Nat : k >= i + 1 /\ FirstDay(k) < FirstDay(i + 1)}
  <2> SUFFICES ASSUME FirstDay(j) < FirstDay(i + 1) PROVE FALSE
    BY <1>1
  <2>1. j \in early
    OBVIOUS
  <2>2. PICK k \in early : \A l \in early : k <= l
    BY <2>1, LeastExists
  <2>3. k # i + 1
    BY <1>1, <2>2
  <2>4. k - 1 \in Nat /\ k - 1 >= i + 1 /\ k - 1 + 1 = k
    BY <2>2, <2>3
  <2>5. FirstDay(k - 1) \in Int /\ FirstDay(k) \in Int /\ FirstDay(i + 1) \in Int /\ FirstDay(k - 1) < FirstDay(k)
    BY <1>1, <2>2, <2>4
  <2>6. k - 1 \in early
    BY <2>2, <2>4, <2>5
  <2> QED BY <2>2, <2>6
<1>3. FirstDay(i) < FirstDay(i + 1) /\ FirstDay(i) \in Int /\ FirstDay(i + 1) \in Int /\ FirstDay(j) \in Int
  BY <1>1
<1> QED BY <1>2, <1>3

-----------------------------------------------------------------------------
(* Instants and the months they fall into                                   *)

Month(i) == [year |-> YearOf(i), month |-> MonthOf(i)]

(* The hour at which the i-th month begins. *)
Begins(i) == 24 * FirstDay(i) - KST

LEMMA BeginsInOrder ==
  /\ \A i \in Nat : Begins(i) \in Int /\ Begins(i) < Begins(i + 1)
  /\ \A i, j \in Nat : i < j => Begins(i) < Begins(j) /\ Begins(i + 1) <= Begins(j)
<1>1. ASSUME NEW i \in Nat
      PROVE  FirstDay(i) \in Int /\ FirstDay(i + 1) \in Int /\ FirstDay(i) < FirstDay(i + 1)
  <2>1. i + 1 \in Nat /\ i < i + 1
    OBVIOUS
  <2> QED BY <2>1, FirstDayIsDay, MonthsInOrder
<1>2. ASSUME NEW i \in Nat, NEW j \in Nat, i < j
      PROVE  FirstDay(i) < FirstDay(j) /\ FirstDay(i + 1) <= FirstDay(j)
  BY <1>2, MonthsInOrder
<1>3. ASSUME NEW i \in Nat
      PROVE  Begins(i) \in Int /\ Begins(i) < Begins(i + 1)
  BY <1>1 DEF Begins, KST
<1>4. ASSUME NEW i \in Nat, NEW j \in Nat, i < j
      PROVE  Begins(i) < Begins(j) /\ Begins(i + 1) <= Begins(j)
  BY <1>1, <1>2, <1>4 DEF Begins, KST
<1> QED BY <1>3, <1>4

LEMMA FallsBetween ==
  ASSUME NEW t \in Int, NEW i \in Nat
  PROVE  Falls(t, i) <=> Begins(i) <= t /\ t < Begins(i + 1)
<1>1. FirstDay(i) \in Int /\ FirstDay(i + 1) \in Int
  BY FirstDayIsDay
<1> QED BY <1>1 DEF Falls, Begins, KST

LEMMA InstantsAreHours == \A t \in Instants : t \in Nat
BY CalendarAssumption

LEMMA HasMonth ==
  ASSUME NEW t \in Instants
  PROVE  \E i \in 0 .. Months : Falls(t, i)
<1> DEFINE later == {i \in Nat : t + KST < 24 * FirstDay(i)}
<1>1. t \in Nat /\ Months \in Nat
  BY CalendarAssumption
<1>2. Months + 1 \in later
  BY <1>1, InstantsAssumption
<1>3. PICK k \in later : \A l \in later : k <= l
  BY <1>2, LeastExists
<1>4. k # 0
  BY <1>1, <1>3, FirstMonth DEF KST
<1>5. k - 1 \in Nat /\ k - 1 + 1 = k /\ k - 1 \in 0 .. Months
  BY <1>1, <1>2, <1>3, <1>4
<1>6. ~ (t + KST < 24 * FirstDay(k - 1))
  BY <1>3, <1>5
<1>7. FirstDay(k - 1) \in Int
  BY <1>5, FirstDayIsDay
<1>8. Falls(t, k - 1)
  BY <1>1, <1>3, <1>5, <1>6, <1>7 DEF Falls, KST
<1> QED BY <1>5, <1>8

LEMMA OneMonth ==
  ASSUME NEW t \in Int, NEW i \in Nat, NEW j \in Nat, Falls(t, i), Falls(t, j)
  PROVE  i = j
<1>1. Begins(i) <= t /\ t < Begins(i + 1) /\ Begins(j) <= t /\ t < Begins(j + 1)
  BY FallsBetween
<1>2. /\ Begins(i) \in Int /\ Begins(j) \in Int /\ Begins(i + 1) \in Int /\ Begins(j + 1) \in Int
      /\ i < j => Begins(i + 1) <= Begins(j)
      /\ j < i => Begins(j + 1) <= Begins(i)
  BY BeginsInOrder
<1> QED BY <1>1, <1>2

LEMMA InKoreaIs ==
  ASSUME NEW t \in Instants, NEW i \in Nat, Falls(t, i)
  PROVE  InKorea(t) = Month(i) /\ i \in 0 .. Months
<1>1. t \in Int
  BY CalendarAssumption
<1>2. PICK k \in 0 .. Months : Falls(t, k)
  BY HasMonth
<1>3. k = i
  BY <1>1, <1>2, OneMonth
<1>4. (CHOOSE n \in 0 .. Months : Falls(t, n)) = i
  <2> DEFINE c == CHOOSE n \in 0 .. Months : Falls(t, n)
  <2>1. c \in 0 .. Months /\ Falls(t, c)
    BY <1>2
  <2> HIDE DEF c
  <2>2. c = i
    BY <1>1, <2>1, OneMonth
  <2> QED BY <2>2 DEF c
<1> QED BY <1>2, <1>3, <1>4 DEF InKorea, Month

LEMMA FirstOfMonth ==
  ASSUME NEW i \in Nat
  PROVE  FirstOf(YearOf(i), MonthOf(i)) = Begins(i)
BY MonthNumbers DEF FirstOf, Begins

LEMMA NextOfMonth ==
  ASSUME NEW i \in Nat
  PROVE  NextMonth(Month(i)) = Month(i + 1)
<1>1. MonthOf(i) \in 1 .. 12
  BY MonthNumbers
<1>2. 1 + (MonthOf(i) % 12) = IF MonthOf(i) = 12 THEN 1 ELSE MonthOf(i) + 1
  BY <1>1
<1> QED BY <1>2, MonthAfter DEF NextMonth, Month

(* The statement of a month that datetime knows. *)
LEMMA StatementOf ==
  ASSUME NEW i \in 0 .. Months + 1, NEW t
  PROVE  /\ CalendarMonthPeriod(YearOf(i), MonthOf(i)) = [from |-> Begins(i), to |-> Begins(i + 1)]
         /\ ParsePeriod(AskFor(Month(i)), t) = {[from |-> Begins(i), to |-> Begins(i + 1)]}
<1>0. i \in Nat
  BY CalendarAssumption
<1>1. /\ FirstOf(YearOf(i), MonthOf(i)) = Begins(i)
      /\ FirstOf(YearOf(i + 1), MonthOf(i + 1)) = Begins(i + 1)
  BY <1>0, FirstOfMonth
<1>2. CalendarMonthPeriod(YearOf(i), MonthOf(i)) = [from |-> Begins(i), to |-> Begins(i + 1)]
  BY <1>0, <1>1, MonthAfter DEF CalendarMonthPeriod
<1>3. MonthOf(i) \in 1 .. 12 /\ Datable(YearOf(i), MonthOf(i))
  <2>1. i \div 12 \in Nat /\ i \div 12 <= (Months + 1) \div 12
    BY <1>0, CalendarAssumption
  <2>2. YearOf(i) \in Nat /\ 2 <= YearOf(i) /\ YearOf(i) < 9999
    BY <2>1, CalendarAssumption DEF YearOf
  <2>3. 1 <= YearOf(i) /\ YearOf(i) <= 9999 /\ YearOf(i) # 1 /\ YearOf(i) # 9999
    BY <2>2
  <2>4. \A y, m : y # 1 /\ y # 9999 => <<y, m>> # <<1, 1>> /\ <<y, m>> # <<9999, 12>>
    OBVIOUS
  <2>5. Datable(YearOf(i), MonthOf(i))
    BY <2>3, <2>4 DEF Datable
  <2> QED BY <1>0, <2>5, MonthNumbers
<1>4. ParsePeriod(AskFor(Month(i)), t) = ParseMonth(AskFor(Month(i)))
  BY DEF ParsePeriod, AskFor
<1>5. ParseMonth(AskFor(Month(i))) = {CalendarMonthPeriod(YearOf(i), MonthOf(i))}
  BY <1>3 DEF ParseMonth, AskFor, Month
<1> QED BY <1>2, <1>4, <1>5

-----------------------------------------------------------------------------
(* The clock                                                                *)

(* What of TypeOK is about the variables. *)
Clock == now \in Instants /\ samples \subseteq Instants

LEMMA MaxIsGreatest ==
  ASSUME NEW S, S \subseteq Instants, S # {}
  PROVE  Max(S) \in S /\ \A t \in S : t <= Max(S)
<1> DEFINE N == 24 * FirstDay(Months + 1)
           left == {N - t : t \in S}
<1>1. N \in Int /\ \A t \in Instants : t \in Nat /\ t < N
  <2>1. FirstDay(Months + 1) \in Int
    BY FirstDayIsDay, CalendarAssumption
  <2> QED BY <2>1, InstantsAssumption, InstantsAreHours DEF KST
<1> HIDE DEF N
<1>2. left \subseteq Nat /\ left # {}
  <2>1. \A t \in S : N - t \in Nat
    BY <1>1
  <2> QED BY <2>1
<1>3. PICK l \in left : \A k \in left : l <= k
  BY <1>2, LeastExists
<1>4. PICK m \in S : l = N - m
  BY <1>3
<1>5. \A t \in S : m >= t
  <2> SUFFICES ASSUME NEW t \in S PROVE m >= t
    OBVIOUS
  <2>1. N - m <= N - t
    BY <1>3, <1>4
  <2> QED BY <1>1, <2>1
<1>6. Max(S) \in S /\ \A t \in S : Max(S) >= t
  BY <1>5 DEF Max
<1> QED BY <1>1, <1>6

LEMMA ClockRuns ==
  /\ Init => Clock
  /\ Clock /\ [Next]_vars => Clock'
<1>1. ASSUME Init PROVE Clock
  <2>1. Instants # {}
    BY CalendarAssumption
  <2>2. Min(Instants) \in Instants
    BY <2>1, InstantsAreHours, MinIsLeast
  <2> QED BY <1>1, <2>2 DEF Init, Clock
<1>2. ASSUME Clock, Tick PROVE Clock'
  <2> DEFINE later == {t \in Instants : t > now}
  <2>1. Max(Instants) \in later
    BY <1>2, CalendarAssumption, MaxIsGreatest, InstantsAreHours DEF Tick, Clock
  <2>2. Min(later) \in later
    BY <2>1, MinIsLeast, InstantsAreHours
  <2> QED BY <1>2, <2>2 DEF Tick, Clock
<1>3. ASSUME Clock, StoreSample PROVE Clock'
  BY <1>3 DEF StoreSample, Clock
<1>4. ASSUME Clock, UNCHANGED vars PROVE Clock'
  BY <1>4 DEF Clock, vars
<1> QED BY <1>1, <1>2, <1>3, <1>4 DEF Next

-----------------------------------------------------------------------------
(* Statements and forecasts                                                 *)

LEMMA TodaysMonth ==
  ASSUME Clock
  PROVE  \E i \in 0 .. Months :
           /\ Falls(now, i) /\ now \in Nat
           /\ InKorea(now) = Month(i) /\ MonthStart(now) = Begins(i)
<1>1. now \in Instants /\ now \in Nat
  BY InstantsAreHours DEF Clock
<1>2. PICK i \in 0 .. Months : Falls(now, i)
  BY <1>1, HasMonth
<1>3. InKorea(now) = Month(i)
  BY <1>1, <1>2, InKoreaIs
<1>4. MonthStart(now) = Begins(i)
  BY <1>3, FirstOfMonth DEF MonthStart, Month
<1> QED BY <1>1, <1>2, <1>3, <1>4

LEMMA ClockTiles ==
  ASSUME Clock
  PROVE  MonthsTile
<1>1. PICK i \in 0 .. Months :
        Falls(now, i) /\ now \in Nat /\ InKorea(now) = Month(i) /\ MonthStart(now) = Begins(i)
  BY TodaysMonth
<1> DEFINE period == [from |-> Begins(i), to |-> Begins(i + 1)]
           after  == [from |-> Begins(i + 1), to |-> Begins(i + 1 + 1)]
           toDate == [from |-> Begins(i), to |-> now]
<1>2. period \in ParsePeriod(AskFor(InKorea(now)), now)
  BY <1>1, CalendarAssumption, StatementOf
<1>3. after \in ParsePeriod(AskFor(NextMonth(InKorea(now))), now)
  <2>1. NextMonth(InKorea(now)) = Month(i + 1) /\ i + 1 \in 0 .. Months + 1
    BY <1>1, CalendarAssumption, NextOfMonth
  <2> QED BY <2>1, StatementOf
<1>4. toDate \in ParsePeriod([period |-> "mtd"], now)
  BY <1>1 DEF ParsePeriod, MonthToDatePeriod
<1>5. Inside(now, period)
  BY <1>1, FallsBetween DEF Inside
<1> QED BY <1>2, <1>3, <1>4, <1>5 DEF MonthsTile

LEMMA Divides == ASSUME NEW q \in Nat, NEW e \in Nat, e > 0 PROVE (q * e) \div e = q
OBVIOUS

LEMMA ClockForecasts ==
  ASSUME Clock
  PROVE  ForecastIsFair
<1>1. PICK i \in 0 .. Months :
        Falls(now, i) /\ now \in Nat /\ InKorea(now) = Month(i) /\ MonthStart(now) = Begins(i)
  BY TodaysMonth
<1> DEFINE e == now - Begins(i)
           d == DaysIn(YearOf(i), MonthOf(i))
<1>2. d \in 28 .. 31 /\ Begins(i) \in Int /\ Begins(i + 1) \in Int /\ Begins(i + 1) = Begins(i) + 24 * d
  <2>1. d \in 28 .. 31 /\ FirstDay(i) \in Int /\ FirstDay(i + 1) = FirstDay(i) + d
    BY DaysOfMonth, FirstDayIsDay, MonthLength
  <2> HIDE DEF d
  <2> QED BY <2>1 DEF Begins, KST
<1>3. e \in Nat /\ e < 24 * d
  BY <1>1, <1>2, FallsBetween
<1>4. CalendarMonthPeriod(InKorea(now).year, InKorea(now).month) = [from |-> Begins(i), to |-> Begins(i + 1)]
  BY <1>1, CalendarAssumption, StatementOf DEF Month
<1>5. Forecast(now, 1000 * e) = IF e < 12 THEN 1000 * e ELSE (1000 * e * d * 24) \div e
  BY <1>1 DEF Forecast, Month
<1>6. e >= 12 => (1000 * e * d * 24) \div e = 24000 * d
  <2> HIDE DEF e, d
  <2>1. 1000 * e * d * 24 = (24000 * d) * e
    BY <1>2, <1>3
  <2> QED BY <1>2, <1>3, <2>1, Divides
<1>7. Forecast(now, 1000 * e) >= 1000 * e
  <2> HIDE DEF e, d
  <2> QED BY <1>2, <1>3, <1>5, <1>6
<1>8. e >= 12 => Forecast(now, 1000 * e) = 1000 * (Begins(i + 1) - Begins(i))
  <2> HIDE DEF e, d
  <2> QED BY <1>2, <1>3, <1>5, <1>6
<1> QED BY <1>4, <1>7, <1>8 DEF ForecastIsFair

-----------------------------------------------------------------------------
(* The months offered                                                       *)

(* The cursor of the loop, k months on. *)
LEMMA CursorIs ==
  ASSUME NEW S, NEW i \in Nat, InKorea(Min(S)) = Month(i)
  PROVE  \A k \in 0 .. Months + 1 : Cursor(S)[k] = Month(i + k)
<1> DEFINE D == 0 .. Months + 1
           far == [k \in D |-> Month(i + k)]
           loop(c) == [k \in D |-> IF k = 0 THEN InKorea(Min(S)) ELSE NextMonth(c[k - 1])]
<1>1. Months \in Nat
  BY CalendarAssumption
<1>2. far = loop(far)
  <2>1. ASSUME NEW k \in D
        PROVE  far[k] = IF k = 0 THEN InKorea(Min(S)) ELSE NextMonth(far[k - 1])
    <3>1. CASE k = 0
      BY <3>1
    <3>2. CASE k # 0
      <4>1. k - 1 \in D /\ i + (k - 1) \in Nat /\ (i + (k - 1)) + 1 = i + k
        BY <1>1, <3>2
      <4>2. NextMonth(Month(i + (k - 1))) = Month(i + k)
        BY <4>1, NextOfMonth
      <4> QED BY <3>2, <4>1, <4>2
    <3> QED BY <3>1, <3>2
  <2> QED BY <2>1, Zenon
<1>3. Cursor(S) = CHOOSE c : c = loop(c)
  BY DEF Cursor
<1>4. Cursor(S) = loop(Cursor(S))
  <2> HIDE DEF loop, far
  <2> QED BY <1>2, <1>3, Zenon
<1>5. \A k \in D : Cursor(S)[k] = IF k = 0 THEN InKorea(Min(S)) ELSE NextMonth(Cursor(S)[k - 1])
  BY <1>4, Zenon
<1> DEFINE astray == {k \in D : Cursor(S)[k] # Month(i + k)}
<1> SUFFICES ASSUME NEW k \in D, Cursor(S)[k] # Month(i + k) PROVE FALSE
  OBVIOUS
<1>6. astray \subseteq Nat /\ k \in astray
  BY <1>1
<1>7. PICK l \in astray : \A n \in astray : l <= n
  BY <1>6, LeastExists
<1>8. l \in D /\ Cursor(S)[l] # Month(i + l)
  OBVIOUS
<1> HIDE DEF loop, far
<1>9. l # 0
  BY <1>5, <1>8
<1>10. l - 1 \in D /\ i + (l - 1) \in Nat /\ (i + (l - 1)) + 1 = i + l /\ ~ (l <= l - 1)
  BY <1>1, <1>8, <1>9
<1>11. Cursor(S)[l - 1] = Month(i + (l - 1))
  BY <1>7, <1>10
<1>12. Cursor(S)[l] = Month(i + l)
  BY <1>5, <1>8, <1>9, <1>10, <1>11, NextOfMonth
<1> QED BY <1>8, <1>12

(* The oldest and the newest of the samples counted are of months i to j.    *)
Spans(S, i, j) == Falls(Min(S), i) /\ Falls(Max(S), j) /\ i <= j

LEMMA SamplesSpan ==
  ASSUME NEW S, S \subseteq Instants, S # {}
  PROVE  /\ Min(S) \in S /\ Max(S) \in S /\ Min(S) \in Nat /\ Max(S) \in Nat
         /\ \A t \in S : t \in Nat /\ Min(S) <= t /\ t <= Max(S)
         /\ \E i, j \in 0 .. Months : Spans(S, i, j)
<1>1. S \subseteq Nat
  BY InstantsAreHours
<1>2. /\ Min(S) \in S /\ Max(S) \in S /\ Min(S) \in Nat /\ Max(S) \in Nat
      /\ \A t \in S : t \in Nat /\ Min(S) <= t /\ t <= Max(S)
  BY <1>1, MinIsLeast, MaxIsGreatest
<1>3. PICK i \in 0 .. Months : Falls(Min(S), i)
  BY <1>2, HasMonth
<1>4. PICK j \in 0 .. Months : Falls(Max(S), j)
  BY <1>2, HasMonth
<1>5. i \in Nat /\ j \in Nat
  BY CalendarAssumption
<1>6. Begins(i) <= Min(S) /\ Max(S) < Begins(j + 1)
  BY <1>2, <1>3, <1>4, <1>5, FallsBetween
<1>7. /\ Begins(i) \in Int /\ Begins(j + 1) \in Int
      /\ j < i => Begins(j + 1) <= Begins(i)
  BY <1>5, BeginsInOrder
<1>8. Min(S) <= Max(S)
  BY <1>2
<1>9. i <= j
  BY <1>2, <1>5, <1>6, <1>7, <1>8
<1> QED BY <1>2, <1>3, <1>4, <1>9 DEF Spans

LEMMA OfferedIs ==
  ASSUME NEW S, S \subseteq Instants, S # {}, NEW i \in 0 .. Months, NEW j \in 0 .. Months, Spans(S, i, j)
  PROVE  AvailableMonths(S) = {Month(n) : n \in i .. j}
<1> DEFINE past == {k \in 0 .. Months + 1 : ~ NotPast(S, Cursor(S)[k])}
           l    == j - i + 1
<1>1. /\ Months \in Nat /\ i \in Nat /\ j \in Nat /\ i <= j /\ l \in 0 .. Months + 1
      /\ Min(S) \in Instants /\ Min(S) \in Int /\ Max(S) \in Nat
  <2>1. Min(S) \in S /\ Min(S) \in Nat /\ Max(S) \in Nat
    BY SamplesSpan
  <2>2. i <= j
    BY DEF Spans
  <2> QED BY <2>1, <2>2, CalendarAssumption
<1>2. \A k \in 0 .. Months + 1 : Cursor(S)[k] = Month(i + k)
  <2>1. InKorea(Min(S)) = Month(i)
    BY <1>1, InKoreaIs DEF Spans
  <2> QED BY <1>1, <2>1, CursorIs
<1>3. ASSUME NEW k \in 0 .. Months + 1
      PROVE  NotPast(S, Cursor(S)[k]) <=> k < l
  <2>1. i + k \in Nat
    BY <1>1
  <2>2. NotPast(S, Cursor(S)[k]) <=> Begins(i + k) <= Max(S)
    <3>1. FirstOf(Month(i + k).year, Month(i + k).month) = Begins(i + k)
      BY <2>1, FirstOfMonth DEF Month
    <3> QED BY <1>2, <3>1 DEF NotPast
  <2>3. Begins(j) <= Max(S) /\ Max(S) < Begins(j + 1)
    BY <1>1, FallsBetween DEF Spans
  <2>4. /\ Begins(i + k) \in Int /\ Begins(j) \in Int /\ Begins(j + 1) \in Int
        /\ i + k < j => Begins(i + k) < Begins(j)
        /\ j < i + k => Begins(j + 1) <= Begins(i + k)
    BY <1>1, <2>1, BeginsInOrder
  <2>5. i + k = j => Begins(i + k) = Begins(j)
    OBVIOUS
  <2>6. k < l <=> i + k <= j
    BY <1>1
  <2> QED BY <1>1, <2>1, <2>2, <2>3, <2>4, <2>5, <2>6
<1>4. l \in past /\ \A k \in past : l <= k
  BY <1>1, <1>3
<1>5. Min(past) = l
  <2>1. past \subseteq Nat /\ past # {}
    BY <1>1, <1>4
  <2>2. Min(past) \in past /\ \A k \in past : Min(past) <= k
    BY <2>1, MinIsLeast
  <2> HIDE DEF past
  <2>3. Min(past) \in Nat /\ Min(past) <= l /\ l <= Min(past)
    BY <1>4, <2>1, <2>2
  <2> QED BY <1>1, <2>3
<1>6. AvailableMonths(S) = {Cursor(S)[k] : k \in 0 .. (l - 1)}
  BY <1>5 DEF AvailableMonths
<1> HIDE DEF past
<1>7. ASSUME NEW k \in 0 .. (l - 1)
      PROVE  i + k \in i .. j /\ Cursor(S)[k] = Month(i + k)
  BY <1>1, <1>2
<1>8. ASSUME NEW n \in i .. j
      PROVE  n - i \in 0 .. (l - 1) /\ Month(n) = Cursor(S)[n - i]
  <2>1. n - i \in 0 .. (l - 1) /\ n - i \in 0 .. Months + 1 /\ i + (n - i) = n
    BY <1>1
  <2> QED BY <1>2, <2>1
<1> HIDE DEF l
<1> QED BY <1>6, <1>7, <1>8

LEMMA ClockOffers ==
  ASSUME Clock
  PROVE  SampledMonthsAreOffered
<1> DEFINE offered(S) == AvailableMonths(S)
           Reached(S) == \A t \in S : \E x \in offered(S) : \E period \in ParsePeriod(AskFor(x), now) :
                           Inside(t, period)
           Within(S) == \A x \in offered(S) : \E period \in ParsePeriod(AskFor(x), now) :
                          \E s, t \in S : s < period.to /\ period.from <= t
<1> SUFFICES ASSUME NEW S \in SUBSET samples PROVE Reached(S) /\ Within(S)
  BY DEF SampledMonthsAreOffered
<1>1. CASE S = {}
  <2>1. AvailableMonths(S) = {}
    BY <1>1 DEF AvailableMonths
  <2> QED BY <1>1, <2>1
<1>2. CASE S # {}
  <2>1. S \subseteq Instants
    BY DEF Clock
  <2>2. /\ Min(S) \in S /\ Max(S) \in S /\ Min(S) \in Nat /\ Max(S) \in Nat
        /\ \A t \in S : t \in Nat /\ Min(S) <= t /\ t <= Max(S)
    BY <1>2, <2>1, SamplesSpan
  <2>3. PICK i, j \in 0 .. Months : Spans(S, i, j)
    BY <1>2, <2>1, SamplesSpan
  <2>4. i \in Nat /\ j \in Nat /\ i <= j /\ j <= Months /\ Falls(Min(S), i) /\ Falls(Max(S), j)
    BY <2>3, CalendarAssumption DEF Spans
  <2>5. AvailableMonths(S) = {Month(n) : n \in i .. j}
    BY <1>2, <2>1, <2>3, OfferedIs
  <2>6. /\ Begins(i) <= Min(S) /\ Min(S) < Begins(i + 1) /\ Begins(j) <= Max(S) /\ Max(S) < Begins(j + 1)
        /\ Begins(i) \in Int /\ Begins(i + 1) \in Int /\ Begins(j) \in Int /\ Begins(j + 1) \in Int
    <3>1. Min(S) \in Int /\ Max(S) \in Int
      BY <2>2
    <3> QED BY <2>4, <3>1, FallsBetween, BeginsInOrder
  <2>7. ASSUME NEW n \in i .. j
        PROVE  /\ n \in Nat /\ Month(n) \in AvailableMonths(S)
               /\ [from |-> Begins(n), to |-> Begins(n + 1)] \in ParsePeriod(AskFor(Month(n)), now)
    <3>1. n \in Nat /\ n \in 0 .. Months + 1
      BY <2>4, CalendarAssumption
    <3> QED BY <2>5, <3>1, StatementOf
  <2>8. Reached(S)
    <3> SUFFICES ASSUME NEW t \in S
                 PROVE  \E x \in AvailableMonths(S) : \E period \in ParsePeriod(AskFor(x), now) : Inside(t, period)
      OBVIOUS
    <3>1. t \in Instants /\ t \in Nat /\ t \in Int /\ Min(S) <= t /\ t <= Max(S)
      BY <2>1, <2>2
    <3>2. PICK n \in 0 .. Months : Falls(t, n)
      BY <3>1, HasMonth
    <3>3. n \in Nat /\ Begins(n) <= t /\ t < Begins(n + 1)
      BY <3>1, <3>2, CalendarAssumption, FallsBetween
    <3>4. /\ Begins(n) \in Int /\ Begins(n + 1) \in Int
          /\ n < i => Begins(n + 1) <= Begins(i)
          /\ j < n => Begins(j + 1) <= Begins(n)
      BY <2>4, <3>3, BeginsInOrder
    <3>5. n \in i .. j
      BY <2>2, <2>4, <2>6, <3>1, <3>3, <3>4
    <3>6. Inside(t, [from |-> Begins(n), to |-> Begins(n + 1)])
      BY <3>3 DEF Inside
    <3> QED BY <2>7, <3>5, <3>6
  <2>9. Within(S)
    <3> SUFFICES ASSUME NEW x \in AvailableMonths(S)
                 PROVE  \E period \in ParsePeriod(AskFor(x), now) :
                          \E s, t \in S : s < period.to /\ period.from <= t
      OBVIOUS
    <3>1. PICK n \in i .. j : x = Month(n)
      BY <2>5
    <3>2. n \in Nat /\ i <= n /\ n <= j
      BY <2>4, <2>7
    <3>3. /\ Begins(n) \in Int /\ Begins(n + 1) \in Int /\ Begins(n) < Begins(n + 1)
          /\ i < n => Begins(i + 1) <= Begins(n)
          /\ n < j => Begins(n + 1) <= Begins(j)
      BY <2>4, <3>2, BeginsInOrder
    <3>4. Min(S) < Begins(n + 1) /\ Begins(n) <= Max(S)
      BY <2>2, <2>4, <2>6, <3>2, <3>3
    <3> DEFINE period == [from |-> Begins(n), to |-> Begins(n + 1)]
    <3>5. period \in ParsePeriod(AskFor(x), now) /\ Min(S) < period.to /\ period.from <= Max(S)
      BY <2>7, <3>1, <3>4
    <3> QED BY <2>2, <3>5
  <2> QED BY <2>8, <2>9
<1> QED BY <1>1, <1>2

LEMMA ClockTypes ==
  ASSUME Clock
  PROVE  TypeOK
<1>1. PICK i \in 0 .. Months : now \in Nat /\ MonthStart(now) = Begins(i)
  BY TodaysMonth
<1>2. i \in Nat /\ MonthStart(now) \in Int /\ now # None
  BY <1>1, CalendarAssumption, BeginsInOrder DEF None
<1>3. ASSUME NEW x \in AvailableMonths(samples)
      PROVE  x.year >= FirstYear /\ x.month \in 1 .. 12
  <2>1. samples \subseteq Instants /\ samples # {}
    BY DEF AvailableMonths, Clock
  <2>2. PICK k, j \in 0 .. Months : Spans(samples, k, j)
    BY <2>1, SamplesSpan
  <2>3. PICK n \in k .. j : x = Month(n)
    BY <2>1, <2>2, OfferedIs
  <2>4. n \in Nat
    BY CalendarAssumption
  <2> QED BY <2>3, <2>4, MonthNumbers DEF Month
<1>4. ASSUME NEW p \in {"7d", "30d", "mtd", "custom"}, NEW s \in {None, now}
      PROVE  ParsePeriod([period |-> p, start |-> s, end |-> now], now) \in (SUBSET Periods) \ {{}}
  <2> DEFINE q == [period |-> p, start |-> s, end |-> now]
  <2>1. \A days \in {7, 30} : DefaultPeriod(now, days) \in Periods
    BY <1>1 DEF DefaultPeriod, Periods
  <2>2. MonthToDatePeriod(now) \in Periods
    BY <1>1, <1>2 DEF MonthToDatePeriod, Periods
  <2>3. CASE p = "mtd"
    BY <2>2, <2>3 DEF ParsePeriod
  <2>4. CASE p = "custom" /\ s # None
    <3>1. ParsePeriod(q, now) = {[from |-> s, to |-> now]}
      BY <1>2, <2>4 DEF ParsePeriod
    <3>2. [from |-> s, to |-> now] \in Periods
      BY <1>1, <2>4 DEF Periods
    <3> QED BY <3>1, <3>2
  <2>5. CASE p \in {"7d", "30d"} \/ (p = "custom" /\ s = None)
    <3>1. ParsePeriod(q, now) = {DefaultPeriod(now, IF p = "7d" THEN 7 ELSE 30)}
      BY <2>5 DEF ParsePeriod
    <3> QED BY <2>1, <3>1
  <2> QED BY <2>3, <2>4, <2>5
<1> QED BY <1>3, <1>4 DEF TypeOK, Clock

-----------------------------------------------------------------------------

(* The clock stays among its instants, the months offered are months and     *)
(* what is asked for by name is a period (parse_period, available_months).   *)
THEOREM TypeCorrect == Spec => []TypeOK
<1> QED BY ClockRuns, ClockTypes, PTL DEF Spec

(* From any first year to the last that datetime knows, every hour is        *)
(* in the statement of exactly the month it has in Korea, and the statements *)
(* follow one another without a gap (CalendarMonthPeriod, MonthStart).       *)
THEOREM MonthsAlwaysTile == Spec => []MonthsTile
<1> QED BY ClockRuns, ClockTiles, PTL DEF Spec

(* However the blocks are spread over the months, and whichever of them a    *)
(* query counts: each is in the statement of a month that is offered and can *)
(* be asked for, and no month before or after them is offered (the loop of   *)
(* available_months against parse_month_param).                              *)
THEOREM MonthsAreOffered == Spec => []SampledMonthsAreOffered
<1> QED BY ClockRuns, ClockOffers, PTL DEF Spec

(* The forecast never says less than what has been billed already, and is    *)
(* right for a steady bill (compute_month_forecast).                         *)
THEOREM ForecastsAreFair == Spec => []ForecastIsFair
<1> QED BY ClockRuns, ClockForecasts, PTL DEF Spec
=============================================================================
