------------------------------ MODULE Calendar ------------------------------
(***************************************************************************)
(* The date arithmetic of zcode-axi: src/window.rs (civil dates and the    *)
(* campaign-window advice) and the stamp of src/gui_queue.rs.  A date is   *)
(* <<year, month, day>>.  i64 seconds do not overflow in the years the     *)
(* program runs in.                                                        *)
(***************************************************************************)
EXTENDS Integers

OffsetSeconds == -3 * 3600
WindowStartDay == <<2026, 9, 3>>
WindowEndDay == <<2026, 9, 20>>
WindowStartHour == 12
WindowEndHour == 22
Day == 86400

\* `/' of Rust rounds towards zero.
TruncDiv(a, b) == IF a >= 0 THEN a \div b ELSE -((-a) \div b)

\* Mutant: the day of the 400th year forgotten.
YearOfEraShort(doe) == (doe - doe \div 1460 + doe \div 36524) \div 365

\* The years of the algorithm begin in March.
YearOfEra(doe) ==
  (doe - doe \div 1460 + doe \div 36524 - doe \div 146096) \div 365

CivilYear(y, m) == y + (IF m <= 2 THEN 1 ELSE 0)

CivilFromDays(days) ==
  LET z == days + 719468
      era == TruncDiv(IF z >= 0 THEN z ELSE z - 146096, 146097)
      doe == z - era * 146097
      yoe == YearOfEra(doe)
      doy == doe - (365 * yoe + yoe \div 4 - yoe \div 100)
      mp == (5 * doy + 2) \div 153
      m == IF mp < 10 THEN mp + 3 ELSE mp - 9
  IN <<CivilYear(yoe + era * 400, m), m, doy - (153 * mp + 2) \div 5 + 1>>

DaysFromCivil(date) ==
  LET y == date[1] - (IF date[2] <= 2 THEN 1 ELSE 0)
      era == TruncDiv(IF y >= 0 THEN y ELSE y - 399, 400)
      yoe == y - era * 400
      mp == IF date[2] > 2 THEN date[2] - 3 ELSE date[2] + 9
      doy == (153 * mp + 2) \div 5 + date[3] - 1
  IN era * 146097 + yoe * 365 + yoe \div 4 - yoe \div 100 + doy - 719468

\* Local time of a UTC second; hours are all the advice looks at.
FromUnix(unix) ==
  LET local == unix + OffsetSeconds
  IN [date |-> CivilFromDays(local \div Day), hour |-> (local % Day) \div 3600]

ToUnix(date, hour) == DaysFromCivil(date) * Day + hour * 3600 - OffsetSeconds

DateLess(a, b) ==
  \/ a[1] < b[1]
  \/ a[1] = b[1] /\ (a[2] < b[2] \/ (a[2] = b[2] /\ a[3] < b[3]))

\* No opening to announce.
NoOpening == -1

\* Mutant: the window has one hour more.
HourUpToEnd(hour) == hour \in WindowStartHour .. WindowEndHour

InHours(hour) == hour \in WindowStartHour .. WindowEndHour - 1

Advise(unix) ==
  LET now == FromUnix(unix)
      inDates == ~DateLess(now.date, WindowStartDay) /\ ~DateLess(WindowEndDay, now.date)
      tomorrow == CivilFromDays(DaysFromCivil(now.date) + 1)
  IN [in_window |-> inDates /\ InHours(now.hour),
      next |-> IF inDates /\ InHours(now.hour) THEN NoOpening
               ELSE IF DateLess(now.date, WindowStartDay)
                    THEN ToUnix(WindowStartDay, WindowStartHour)
               ELSE IF ~inDates THEN NoOpening
               ELSE IF now.hour < WindowStartHour THEN ToUnix(now.date, WindowStartHour)
               ELSE ToUnix(tomorrow, WindowStartHour)]
=============================================================================
