------------------------------- MODULE Calendar -------------------------------
(***************************************************************************)
(* Months of the bill.  Samples are dated in UTC, everything that is shown *)
(* and closed by the month follows Korean time, nine hours ahead: the      *)
(* period of a statement, the month to date and its forecast, and the list *)
(* of months there is something to show for.                               *)
(*                                                                         *)
(* An instant is an hour, counted from the first of January of FirstYear   *)
(* in UTC.  A clock ticks, blocks are stored, now and then or not for      *)
(* months, and the operators below are what the program would answer at    *)
(* every moment.                                                           *)
(***************************************************************************)
EXTENDS Integers, FiniteSetsExt

CONSTANTS
  FirstYear,
  Months,         \* how many months the clock may see
  Instants,       \* the hours at which the clock is looked at
  MaxSamples      \* how many of them may find a block stored

(* Months ends before Python's datetime does, in the year 9999. *)
ASSUME CalendarAssumption ==
  /\ FirstYear \in Nat \ {0, 1} /\ Months \in Nat \ {0} /\ FirstYear + ((Months + 1) \div 12) < 9999
  /\ Instants \subseteq Nat /\ Instants # {} /\ MaxSamples \in Nat

KST == 9

VARIABLES now, samples   \* the clock, and when blocks were stored

vars == <<now, samples>>

None == -1

Init == now = Min(Instants) /\ samples = {}

Tick ==
  /\ now < Max(Instants)
  /\ now' = Min({t \in Instants : t > now})
  /\ UNCHANGED samples

(* The collector stores a block, of any tenant's VM. *)
StoreSample ==
  /\ now \notin samples /\ Cardinality(samples) < MaxSamples
  /\ samples' = samples \cup {now}
  /\ UNCHANGED now

Next == Tick \/ StoreSample

Spec == Init /\ [][Next]_vars

-----------------------------------------------------------------------------
(* Python's calendar and datetime.                                          *)

Leap(y) == (y % 4 = 0 /\ y % 100 # 0) \/ y % 400 = 0

(* calendar.monthrange *)
DaysIn(y, m) == IF m = 2 THEN IF Leap(y) THEN 29 ELSE 28 ELSE IF m \in {4, 6, 9, 11} THEN 30 ELSE 31

YearOf(i)  == FirstYear + (i \div 12)
MonthOf(i) == 1 + (i % 12)

LeapsUpTo(y) == (y \div 4) - (y \div 100) + (y \div 400)

DaysBefore == <<0, 31, 59, 90, 120, 151, 181, 212, 243, 273, 304, 334>>

(* The day on which the i-th month begins. *)
FirstDay(i) ==
  LET y == YearOf(i)
      m == MonthOf(i)
  IN  365 * (y - FirstYear) + LeapsUpTo(y - 1) - LeapsUpTo(FirstYear - 1)
        + DaysBefore[m] + (IF m > 2 /\ Leap(y) THEN 1 ELSE 0)

(* Whether t falls, in Korea, in the i-th month. *)
Falls(t, i) == 24 * FirstDay(i) <= t + KST /\ t + KST < 24 * FirstDay(i + 1)

(* Months bounds the clock. *)
ASSUME InstantsAssumption == \A t \in Instants : t + KST < 24 * FirstDay(Months + 1)

(* datetime(y, m, 1, tzinfo=KST), in UTC. *)
FirstOf(y, m) == 24 * FirstDay(12 * (y - FirstYear) + m - 1) - KST

(* astimezone(KST), of which the year and the month matter here. *)
InKorea(t) ==
  LET i == CHOOSE i \in 0 .. Months : Falls(t, i) IN [year |-> YearOf(i), month |-> MonthOf(i)]

(* replace(day=1, hour=0, ...) *)
MonthStart(t) == FirstOf(InKorea(t).year, InKorea(t).month)

-----------------------------------------------------------------------------
(* billing/aggregator.py                                                    *)

(* Mutant: months begin in UTC. *)
UtcMonth(y, m) == [from |-> FirstOf(y, m) + KST,
                   to |-> KST + IF m = 12 THEN FirstOf(y + 1, 1) ELSE FirstOf(y, m + 1)]

CalendarMonthPeriod(y, m) ==
  [from |-> FirstOf(y, m), to |-> IF m = 12 THEN FirstOf(y + 1, 1) ELSE FirstOf(y, m + 1)]

MonthToDatePeriod(t) == [from |-> MonthStart(t), to |-> t]

DefaultPeriod(t, days) == [from |-> t - 24 * days, to |-> t]

(* Mutant: days that have begun count in full. *)
DaysBegun(t, billed) ==
  (billed * DaysIn(InKorea(t).year, InKorea(t).month)) \div (((t - MonthStart(t)) \div 24) + 1)

(* The run rate: billed is what the month to date has cost.  In the first    *)
(* half day there is too little to go by.                                    *)
Forecast(t, billed) ==
  LET elapsed == t - MonthStart(t) IN
  IF elapsed < 12 THEN billed
  ELSE (billed * DaysIn(InKorea(t).year, InKorea(t).month) * 24) \div elapsed

(* Mutant: no wrap at the end of the year. *)
ThirteenthMonth(x) == [year |-> x.year, month |-> x.month + 1]

NextMonth(x) == [year |-> IF x.month = 12 THEN x.year + 1 ELSE x.year, month |-> 1 + (x.month % 12)]

(* S is when the blocks were stored that a query counts: all of them, or     *)
(* those of the VMs that the projects of one tenant have now.                *)
Cursor(S) ==
  LET first == InKorea(Min(S))
      cursor[k \in 0 .. Months + 1] == IF k = 0 THEN first ELSE NextMonth(cursor[k - 1])
  IN  cursor

(* Mutant: a month that begins with the last sample is left out. *)
StrictlyBefore(S, x) == FirstOf(x.year, x.month) < Max(S)

NotPast(S, x) == FirstOf(x.year, x.month) <= Max(S)

(* The loop of available_months: from the month of the first sample on,      *)
(* while the cursor is not past the last one.                                *)
AvailableMonths(S) ==
  IF S = {} THEN {}
  ELSE LET cursor == Cursor(S)
           past   == {k \in 0 .. Months + 1 : ~ NotPast(S, cursor[k])}
       IN  {cursor[k] : k \in 0 .. (Min(past) - 1)}

-----------------------------------------------------------------------------
(* routers/common.py: what a query at time t asks for, or nothing when it is *)
(* refused (400) or fails (500).                                             *)

(* The months that begin and end, in UTC, within datetime's years. *)
Datable(y, m) == 1 <= y /\ y <= 9999 /\ <<y, m>> \notin {<<1, 1>>, <<9999, 12>>}

(* parse_month_param *)
ParseMonth(q) ==
  IF q.month \in 1 .. 12 /\ Datable(q.year, q.month) THEN {CalendarMonthPeriod(q.year, q.month)} ELSE {}

(* parse_period.  What it does not know, and a custom query that lacks one   *)
(* of its ends, is a query for thirty days; custom ends are not compared.    *)
ParsePeriod(q, t) ==
  CASE q.period = "mtd"    -> {MonthToDatePeriod(t)}
    [] q.period = "month"  -> ParseMonth(q)
    [] q.period = "custom" /\ None \notin {q.start, q.end} -> {[from |-> q.start, to |-> q.end]}
    [] OTHER -> {DefaultPeriod(t, IF q.period = "7d" THEN 7 ELSE 30)}

-----------------------------------------------------------------------------
(* Properties                                                               *)

Periods == [from : Int, to : Int]

TypeOK ==
  /\ now \in Instants /\ samples \subseteq Instants
  /\ \A x \in AvailableMonths(samples) : x.year >= FirstYear /\ x.month \in 1 .. 12
  /\ \A p \in {"7d", "30d", "mtd", "custom"}, s \in {None, now} :
       ParsePeriod([period |-> p, start |-> s, end |-> now], now) \in (SUBSET Periods) \ {{}}

Inside(t, period) == period.from <= t /\ t < period.to

AskFor(x) == [period |-> "month", year |-> x.year, month |-> x.month]

(* Every block belongs to the statement of exactly one month, the month its  *)
(* day has in Korea: nothing is billed in two months or in none.  And the    *)
(* month to date, which is found from the clock, is the statement of that    *)
(* month, which is found from its number, as far as it has come.             *)
MonthsTile ==
  LET this == InKorea(now)
      next == NextMonth(this)
  IN  \E period \in ParsePeriod(AskFor(this), now), after \in ParsePeriod(AskFor(next), now),
        toDate \in ParsePeriod([period |-> "mtd"], now) :
        /\ Inside(now, period) /\ period.to = after.from
        /\ toDate = [from |-> period.from, to |-> now]

(* Whichever blocks a query counts, each is in the statement of a month that *)
(* is offered and can be asked for: no cost is out of reach.  And no month   *)
(* is offered that ends before the first of them or begins after the last.   *)
(* A month between two of them is offered even when it holds none, unlike    *)
(* what the docstring of available_months says.                              *)
SampledMonthsAreOffered ==
  \A S \in SUBSET samples :
    LET offered == AvailableMonths(S) IN
    /\ \A t \in S : \E x \in offered : \E period \in ParsePeriod(AskFor(x), now) : Inside(t, period)
    /\ \A x \in offered : \E period \in ParsePeriod(AskFor(x), now) : \E s, t \in S :
         s < period.to /\ period.from <= t

(* The forecast is never below what the month has cost already, and for a    *)
(* tenant whose cost is the same every hour it is exact from the first half  *)
(* day on: the length of the month and the time elapsed, found on two ways,  *)
(* agree with the period of the statement (compute_month_forecast).          *)
ForecastIsFair ==
  LET period == CalendarMonthPeriod(InKorea(now).year, InKorea(now).month)
      bill   == 1000 * (now - period.from)
  IN  /\ Forecast(now, bill) >= bill
      /\ now - period.from >= 12 => Forecast(now, bill) = 1000 * (period.to - period.from)
=============================================================================
