---------------------------- MODULE MCCalendar ----------------------------
(* Instances of Calendar for TLC. *)
EXTENDS Calendar

(* The last and the first hour of every month in Korea, and of some of them  *)
(* the hours between which half of the first day passes.                     *)
AroundMonths ==
  LET at(months, hours) == {24 * FirstDay(i) + h : i \in months, h \in hours}
  IN  {t \in at(0 .. Months, {-10, -9}) \cup at({0, 1, Months - 1}, {2, 3}) :
         t >= 0 /\ t < 24 * FirstDay(Months + 1)}
=============================================================================
