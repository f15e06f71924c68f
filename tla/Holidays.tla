------------------------------- MODULE Holidays -------------------------------
(***************************************************************************)
(* The closure calendar                                                    *)
(* (apps/api/src/company-holidays/company-holidays.service.ts).  A holiday *)
(* recurs by rule, and the dates it falls on are computed when it is read. *)
(*                                                                         *)
(* A date is a number of days; Date.UTC with a day outside of its month,   *)
(* on which the code relies, is the sum of days.                           *)
(***************************************************************************)
EXTENDS Quantities, FiniteSets

CONSTANTS
  HolidayIds,
  Rules,        \* what a create request may carry
  Years,        \* bound: the years in which a holiday is read
  ReadingDays   \* bound: the days of such a year, 1 being January 1st

NoHoliday == [active |-> FALSE]

\* createCompanyHolidaySchema: each type of rule with the fields it needs.
RuleRows ==
  [ruleType : {"FIXED"}, month : 1..12, day : 1..31] \cup
  [ruleType : {"NTH_WEEKDAY"}, month : 1..12, weekday : 0..6, nth : (-1..5) \ {0}] \cup
  [ruleType : {"EXPLICIT"}, date : Nat]

ASSUME HolidaysAssumption ==
  /\ \A r \in Rules : r \in RuleRows
  /\ Years \subseteq Nat \ {0} /\ ReadingDays \subseteq 1..365

VARIABLES
  holidays,     \* holidays[h]: the row of h
  now           \* today, in days

holidayVars == <<holidays, now>>

-----------------------------------------------------------------------------
Leap(y) == (y % 4 = 0 /\ y % 100 # 0) \/ y % 400 = 0

MonthDays(y, m) == IF m = 2 THEN (IF Leap(y) THEN 29 ELSE 28)
                   ELSE IF m \in {4, 6, 9, 11} THEN 30 ELSE 31

\* Days up to the first of January of y, and to the first of month m of it.
YearStart(y) == LET p == y - 1 IN 365 * p + (p \div 4) - (p \div 100) + (p \div 400)

MonthStart(y, m) == YearStart(y) + Sum([n \in 1..(m - 1) |-> MonthDays(y, n)], m - 1)

Utc(y, m, d) == MonthStart(y, m) + d - 1

\* getUTCDay: the first of January of year 1 was a Monday.
WeekDay(date) == (date + 1) % 7

InMonth(date, y, m) == date \in MonthStart(y, m) .. (MonthStart(y, m) + MonthDays(y, m) - 1)

NoDate == -1

\* Mutation of Nth: the first week is counted twice when it starts on the weekday.
NthAfter(r, y) ==
  LET first  == Utc(y, r.month, 1)
      offset == 7 - ((WeekDay(first) - r.weekday + 7) % 7)
      date   == first + offset + (r.nth - 1) * 7
  IN  IF InMonth(date, y, r.month) THEN date ELSE NoDate

Nth(r, y) ==
  LET first  == Utc(y, r.month, 1)
      offset == (r.weekday - WeekDay(first) + 7) % 7
      date   == first + offset + (r.nth - 1) * 7
  IN  IF InMonth(date, y, r.month) THEN date ELSE NoDate

LastOfMonth(r, y) ==
  LET last == Utc(y, r.month, MonthDays(y, r.month))
  IN  last - ((WeekDay(last) - r.weekday + 7) % 7)

ResolveForYear(r, y) ==
  CASE r.ruleType = "FIXED" ->
         LET date == Utc(y, r.month, r.day) IN IF InMonth(date, y, r.month) THEN date ELSE NoDate
    [] r.ruleType = "NTH_WEEKDAY" -> IF r.nth = -1 THEN LastOfMonth(r, y) ELSE Nth(r, y)
    [] OTHER -> NoDate

YearOf(date) == CHOOSE y \in (date \div 366) .. (date \div 365 + 1) :
                  date \in YearStart(y) .. (YearStart(y + 1) - 1)

Earliest(dates) == CHOOSE d \in dates : \A e \in dates : d <= e

\* upcoming: when neither this year nor the next has a date to come, one that is past.
Upcoming(r) ==
  LET y      == YearOf(now)
      coming == {ResolveForYear(r, z) : z \in {y, y + 1}}
      ahead  == {d \in coming : d # NoDate /\ d >= now}
  IN  IF r.ruleType = "EXPLICIT" THEN r.date
      ELSE IF ahead # {} THEN Earliest(ahead) ELSE ResolveForYear(r, y)

-----------------------------------------------------------------------------
HolidaysInit ==
  /\ holidays = [h \in HolidayIds |-> NoHoliday]
  /\ now \in {Utc(y, 1, 1) + d - 1 : y \in Years, d \in ReadingDays}

CreateHoliday(h, r, active) ==
  /\ holidays[h] = NoHoliday
  /\ holidays' = [holidays EXCEPT ![h] = [rule |-> r, active |-> active]]
  /\ UNCHANGED now

UpdateHoliday(h, active) ==
  /\ holidays[h] # NoHoliday
  /\ holidays' = [holidays EXCEPT ![h].active = active]
  /\ UNCHANGED now

RemoveHoliday(h) ==
  /\ holidays[h] # NoHoliday
  /\ holidays' = [holidays EXCEPT ![h] = NoHoliday]
  /\ UNCHANGED now

HolidaysNext ==
  \E h \in HolidayIds :
    \/ \E r \in Rules, active \in BOOLEAN : CreateHoliday(h, r, active)
    \/ \E active \in BOOLEAN : UpdateHoliday(h, active)
    \/ RemoveHoliday(h)

HolidaysSpec == HolidaysInit /\ [][HolidaysNext]_holidayVars

-----------------------------------------------------------------------------
(***************************************************************************)
(* The dates of a rule, found by looking at every day of the month.        *)
(***************************************************************************)
DatesOf(r, y) ==
  LET days == MonthStart(y, r.month) .. (MonthStart(y, r.month) + MonthDays(y, r.month) - 1)
      same == {d \in days : WeekDay(d) = r.weekday}
  IN  CASE r.ruleType = "FIXED" -> {d \in days : d - MonthStart(y, r.month) = r.day - 1}
        [] r.ruleType = "NTH_WEEKDAY" /\ r.nth = -1 -> {d \in same : \A e \in same : e <= d}
        [] OTHER -> {d \in same : Cardinality({e \in same : e <= d}) = r.nth}

(***************************************************************************)
(* The arithmetic on week days finds the date that the calendar has, and   *)
(* none where it has none (a fifth Monday, February 30th); and the date on *)
(* the list is the next one whenever this year or the next still has one.  *)
(***************************************************************************)
HolidaysOnRule ==
  \A h \in HolidayIds :
    holidays[h] # NoHoliday /\ holidays[h].rule.ruleType # "EXPLICIT" =>
      LET r     == holidays[h].rule
          y     == YearOf(now)
          dates == DatesOf(r, y) \cup DatesOf(r, y + 1)
          ahead == {d \in dates : d >= now}
      IN  /\ \A z \in {y, y + 1} :
               DatesOf(r, z) = {ResolveForYear(r, z)} \ {NoDate}
          /\ ahead # {} => Upcoming(r) = Earliest(ahead)
=============================================================================
