---------------------------- MODULE GenericHelpers ----------------------------
(***************************************************************************)
(* The pure functions of helpers/generic.py: fiscal years and periods,     *)
(* batches and steps through a list.                                       *)
(***************************************************************************)
EXTENDS Integers, Sequences

-----------------------------------------------------------------------------
(* Fiscal years.  A date is its year, month and day.                       *)

Leap(year) == year % 4 = 0 /\ (year % 100 # 0 \/ year % 400 = 0)

\* calendar.monthrange(year, month)[1]
MonthDays(year, month) == CASE month \in {4, 6, 9, 11} -> 30
                            [] month = 2 -> IF Leap(year) THEN 29 ELSE 28
                            [] OTHER -> 31

Fy(date) == IF date.month > 9 THEN date.year + 1 ELSE date.year

\* What a calendar says of the day after a date.
NextDay(date) ==
    CASE date.day < MonthDays(date.year, date.month) ->
             [year |-> date.year, month |-> date.month, day |-> date.day + 1]
      [] date.day = MonthDays(date.year, date.month) /\ date.month < 12 ->
             [year |-> date.year, month |-> date.month + 1, day |-> 1]
      [] OTHER -> [year |-> date.year + 1, month |-> 1, day |-> 1]

ValidPeriod(year, period) == year \in 1000..9999 /\ period \in 2..12

\* The calendar month of a period; the first ones are in the year before.
MonthOf(period) == IF period - 3 < 1 THEN period + 9 ELSE period - 3
YearOf(year, period) == IF period - 3 < 1 THEN year - 1 ELSE year

\* fy_period_calendar_dates of a valid period.
PeriodStart(year, period) ==
    [year |-> YearOf(year, period), month |-> MonthOf(period), day |-> 1]
PeriodEnd(year, period) ==
    [PeriodStart(year, period) EXCEPT
        !.day = MonthDays(YearOf(year, period), MonthOf(period))]

-----------------------------------------------------------------------------
(* batch and step.                                                         *)

\* The i-th batch of n elements, and how many there are, for n > 0.
BatchAt(list, n, i) ==
    LET ndx == (i - 1) * n
    IN  SubSeq(list, ndx + 1, IF ndx + n < Len(list) THEN ndx + n ELSE Len(list))

BatchCount(list, n) == (Len(list) + n - 1) \div n

\* range(0, length, n) is empty for n < 0.
Batch(list, n) == [i \in 1..(IF n > 0 THEN BatchCount(list, n) ELSE 0) |-> BatchAt(list, n, i)]

\* The bounds of a slice; a bound that is None.
None == -1

\* The indices of [0, length) in iterable[from:to:sign], for bounds that are None
\* or at least 0 and a sign of 1 or -1.
Slice(length, from, to, sign) ==
    LET clip(b) == IF b > length THEN length ELSE b
        first == IF sign = 1 THEN (IF from = None THEN 0 ELSE clip(from))
                 ELSE (IF from = None \/ from >= length THEN length - 1 ELSE from)
        beyond == IF sign = 1 THEN (IF to = None THEN length ELSE clip(to)) ELSE to
        size == (beyond - first) * sign
    IN  [k \in 1..(IF size > 0 THEN size ELSE 0) |-> first + sign * (k - 1)]

Sign(direction) == IF direction < 0 THEN -1 ELSE 1

\* true_start
TrueStart(start, direction, include_start) ==
    LET s == IF include_start THEN start ELSE start + Sign(direction)
    IN  IF s < 0 THEN None ELSE s

OrZero(bound) == IF bound = None THEN 0 ELSE bound

\* Mutant of StepEnd: a bound of 0 is taken for None.
StepEndTruthy(true_start, direction) ==
    LET e == OrZero(true_start) + direction IN IF e > 0 THEN e ELSE None

\* end
StepEnd(true_start, direction) ==
    LET e == OrZero(true_start) + direction IN IF e >= 0 THEN e ELSE None

\* The pairs step yields, for a start inside the list: an index, and the index of
\* the value that comes with it.
Steps(length, start, direction, include_start) ==
    LET true_start == TrueStart(start, direction, include_start)
        end == StepEnd(true_start, direction)
        slice == Slice(length, true_start, end, Sign(direction))
    IN  IF true_start = None /\ end = None
        THEN <<>>
        ELSE [k \in DOMAIN slice |->
                 <<OrZero(true_start) + Sign(direction) * (k - 1), slice[k]>>]
=============================================================================
