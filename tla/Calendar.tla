------------------------------ MODULE Calendar ------------------------------
(***************************************************************************)
(* Dates: the day number of a civil date and back (cypher/temporal.rs),    *)
(* the components of a date (expression/properties.rs), the four forms in  *)
(* which a map gives a date (functions/instant.rs), truncation and the     *)
(* shift by months (functions/temporal.rs).                                *)
(*                                                                         *)
(* A date is its day number, 0 being 1970-01-01.  An operation that can    *)
(* fail returns <<day>> or <<>>.  The limit of a year to nine digits is    *)
(* left out.                                                               *)
(***************************************************************************)
EXTENDS Integers, Sequences, TLC

\* Division of signed integers, which rounds towards zero.
Quot(a, b) == IF a >= 0 THEN a \div b ELSE - ((- a) \div b)

-----------------------------------------------------------------------------
(* Civil dates <<year, month, day>>.                                       *)

IsLeapYear(y) == y % 4 = 0 /\ (y % 100 # 0 \/ y % 400 = 0)

DaysInMonth(y, m) ==
    CASE m \in {1, 3, 5, 7, 8, 10, 12} -> 31
      [] m \in {4, 6, 9, 11} -> 30
      [] m = 2 -> IF IsLeapYear(y) THEN 29 ELSE 28
      [] OTHER -> 0

(* Years are counted from March, in eras of 400 years.                     *)
EraOf(n, length) == Quot(IF n >= 0 THEN n ELSE n - (length - 1), length)

DaysBeforeYear(yearOfEra) == yearOfEra * 365 + (yearOfEra \div 4) - (yearOfEra \div 100)

DaysFromMarch(year, dayOfYear) ==
    LET era == EraOf(year, 400)
    IN  era * 146097 + DaysBeforeYear(year - era * 400) + dayOfYear - 719468

DaysFromCivil(y, m, d) ==
    DaysFromMarch(IF m <= 2 THEN y - 1 ELSE y,
                  ((153 * (IF m > 2 THEN m - 3 ELSE m + 9) + 2) \div 5) + d - 1)

CivilFromMarch(year, doy, mp) ==
    LET month == IF mp < 10 THEN mp + 3 ELSE mp - 9
    IN  <<year + (IF month <= 2 THEN 1 ELSE 0), month, doy - ((153 * mp + 2) \div 5) + 1>>

CivilOfYear(year, doy) == CivilFromMarch(year, doy, (5 * doy + 2) \div 153)

CivilOfEra(era, doe) ==
    LET yoe == (doe - (doe \div 1460) + (doe \div 36524) - (doe \div 146096)) \div 365
    IN  CivilOfYear(yoe + era * 400, doe - DaysBeforeYear(yoe))

CivilFromDays(days) ==
    LET era == EraOf(days + 719468, 146097)
    IN  CivilOfEra(era, days + 719468 - era * 146097)

YearOf(days) == CivilFromDays(days)[1]

\* DateValue::from_components: through the text YYYY-MM-DD and parse_date
FromComponents(y, m, d) ==
    IF m \in 1..12 /\ d \in 1..DaysInMonth(y, m) THEN <<DaysFromCivil(y, m, d)>> ELSE <<>>

(* DateValue::from_days: through the text of format_date_from_days, which  *)
(* has fewer than the four digits that parse_year asks for if the year is  *)
(* negative and short.                                                     *)
FromDays(days) == IF YearOf(days) \in -999..-1 THEN <<>> ELSE <<days>>

-----------------------------------------------------------------------------
(* Components, as properties of a date.                                    *)

DayOfWeek(days) == ((days + 3) % 7) + 1
StartOfWeek(days) == days - ((days + 3) % 7)
WeekYear(days) == YearOf(days + (4 - DayOfWeek(days)))

(* The Monday of the week with 4 January.                                  *)
FirstMonday(y) == StartOfWeek(DaysFromCivil(y, 1, 4))

QuarterMonth(m) == ((m - 1) \div 3) * 3 + 1
QuarterStart(days) == DaysFromCivil(YearOf(days), QuarterMonth(CivilFromDays(days)[2]), 1)

\* date_property and iso_week
ComponentOf(days, c, name) ==
    CASE name = "year" -> c[1]
      [] name = "month" -> c[2]
      [] name = "day" -> c[3]
      [] name = "quarter" -> ((c[2] - 1) \div 3) + 1
      [] name = "dayOfQuarter" -> days - QuarterStart(days) + 1
      [] name = "ordinalDay" -> days - DaysFromCivil(c[1], 1, 1) + 1
      [] name = "dayOfWeek" -> DayOfWeek(days)
      [] name = "weekYear" -> WeekYear(days)
      [] name = "week" -> ((days - FirstMonday(WeekYear(days))) \div 7) + 1

Component(days, name) == ComponentOf(days, CivilFromDays(days), name)

-----------------------------------------------------------------------------
(* Dates from maps.                                                        *)

IsoWeekDate(y, week, weekday) ==
    LET days == FirstMonday(y) + (week - 1) * 7 + weekday - 1
    IN  IF week \in 1..53 /\ weekday \in 1..7 /\ YearOf(days + (4 - weekday)) = y
        THEN <<days>> ELSE <<>>

QuarterDate(y, quarter, day) ==
    LET month == (quarter - 1) * 3 + 1
        days == DaysFromCivil(y, month, 1) + day - 1
        end == IF quarter = 4 THEN DaysFromCivil(y + 1, 1, 1) ELSE DaysFromCivil(y, month + 3, 1)
    IN  IF quarter \in 1..4 /\ day >= 1 /\ days < end THEN <<days>> ELSE <<>>

OrdinalDate(y, ordinal) ==
    LET days == DaysFromCivil(y, 1, 1) + ordinal - 1
    IN  IF ordinal >= 1 /\ days < DaysFromCivil(y + 1, 1, 1) THEN <<days>> ELSE <<>>

DateFields == {"year", "month", "day", "week", "dayOfWeek", "quarter", "dayOfQuarter", "ordinalDay"}

\* validate_date_field_shape and reject_date_fields; based: there is a base
FieldsFit(names, based) ==
    /\ names \subseteq DateFields
    /\ ~ based => "year" \in names
    /\ "day" \in names /\ ~ based => "month" \in names
    /\ "dayOfWeek" \in names => "week" \in names
    /\ "dayOfQuarter" \in names => "quarter" \in names
    /\ "week" \in names => names \cap {"month", "day", "quarter", "dayOfQuarter", "ordinalDay"} = {}
    /\ "quarter" \in names => names \cap {"month", "day", "ordinalDay"} = {}
    /\ "ordinalDay" \in names => names \cap {"month", "day"} = {}

(* The year that date_from_map takes from the base.                        *)
InheritedYear(fields, base) ==
    IF "week" \in DOMAIN fields THEN WeekYear(base) ELSE YearOf(base)

(* date_from_map; base is <<day>> or <<>>, fields a function of names.     *)
DateFromMap(base, fields) ==
    LET names == DOMAIN fields
        based == Len(base) = 1
        \* a field, or the base's component, or the smallest value
        Field(name) == IF name \in names THEN fields[name]
                       ELSE IF based THEN Component(base[1], name) ELSE 1
        year == IF "year" \in names THEN fields["year"] ELSE InheritedYear(fields, base[1])
        \* canonical_date_from_days
        Canonical(r) == IF r = <<>> THEN <<>> ELSE FromDays(r[1])
    IN  IF ~ FieldsFit(names, based) THEN <<>>
        ELSE IF "week" \in names THEN Canonical(IsoWeekDate(year, fields["week"], Field("dayOfWeek")))
        ELSE IF "quarter" \in names THEN Canonical(QuarterDate(year, fields["quarter"], Field("dayOfQuarter")))
        ELSE IF "ordinalDay" \in names THEN Canonical(OrdinalDate(year, fields["ordinalDay"]))
        ELSE FromComponents(year, Field("month"), Field("day"))

-----------------------------------------------------------------------------
(* Truncation.                                                             *)

DateUnits == {"millennium", "century", "decade", "year", "weekYear", "quarter", "month", "week", "day"}

YearStart(y, n) == DaysFromCivil((y \div n) * n, 1, 1)

\* truncate_date_days
UnitYears == [millennium |-> 1000, century |-> 100, decade |-> 10, year |-> 1]

TruncateDays(days, unit) ==
    CASE unit \in DOMAIN UnitYears -> YearStart(YearOf(days), UnitYears[unit])
      [] unit = "weekYear" -> FirstMonday(WeekYear(days))
      [] unit = "quarter" -> QuarterStart(days)
      [] unit = "month" -> DaysFromCivil(YearOf(days), CivilFromDays(days)[2], 1)
      [] unit = "week" -> StartOfWeek(days)
      [] unit = "day" -> days

\* truncate_rank and truncate_field
Rank(name) ==
    CASE name = "millennium" -> 0 [] name = "century" -> 1 [] name = "decade" -> 2
      [] name \in {"year", "weekYear"} -> 3
      [] name = "quarter" -> 4
      [] name \in {"month", "week"} -> 5
      [] name \in {"day", "dayOfWeek", "dayOfQuarter", "ordinalDay"} -> 8

(* adjust_day_of_week and adjust_day_of_quarter: the new base, or a field  *)
(* that is taken out of the map because the base now stands for it.        *)
Adjusted(start, unit, fields) ==
    LET names == DOMAIN fields
        Taken(name) == [f \in names \ {name} |-> fields[f]]
    IN  CASE unit = "week" /\ "week" \notin names /\ "dayOfWeek" \in names ->
                [ok |-> fields["dayOfWeek"] \in 1..7, base |-> start + fields["dayOfWeek"] - 1,
                 fields |-> Taken("dayOfWeek")]
          [] unit = "quarter" /\ "quarter" \notin names /\ "dayOfQuarter" \in names ->
                [ok |-> /\ fields["dayOfQuarter"] >= 1
                        /\ QuarterStart(start + fields["dayOfQuarter"] - 1) = start,
                 base |-> start + fields["dayOfQuarter"] - 1, fields |-> Taken("dayOfQuarter")]
          [] OTHER -> [ok |-> TRUE, base |-> start, fields |-> fields]

DateFromAdjusted(adjusted) ==
    IF adjusted.ok /\ FromDays(adjusted.base) # <<>>
    THEN DateFromMap(<<adjusted.base>>, adjusted.fields) ELSE <<>>

(* date.truncate(unit, date, fields): apply_truncate_fields.               *)
TruncateWith(days, unit, fields) ==
    IF \E name \in DOMAIN fields : Rank(name) <= Rank(unit) THEN <<>>
    ELSE DateFromAdjusted(Adjusted(TruncateDays(days, unit), unit, fields))

-----------------------------------------------------------------------------
(* Months.                                                                 *)

(* shift_days_by_months: the day is clamped to the month's last.           *)
Clamped(y, m, d) == DaysFromCivil(y, m, IF d > DaysInMonth(y, m) THEN DaysInMonth(y, m) ELSE d)

ShiftByMonths(days, months) ==
    LET c == CivilFromDays(days)
        total == c[1] * 12 + c[2] - 1 + months
    IN  Clamped(total \div 12, (total % 12) + 1, c[3])

-----------------------------------------------------------------------------
(* The calendar walked day by day, from the first of January of a few      *)
(* years in both directions.  The civil date and the day of the week are   *)
(* kept by counting.  Every 400 years have 146097 days, which is a whole   *)
(* number of weeks, so that the same walk can be made in another era.      *)

CONSTANTS
    Years,          \* the years (AD) where the walk starts, from Start
    Eras,           \* a natural number k moves it 400 * k years back
    Days            \* how many days the walk goes

\* the day number and the day of the week of the first of January
Start == 1902 :> <<-24837, 3>> @@ 1970 :> <<0, 4>> @@ 2002 :> <<11688, 2>>

VARIABLES
    day,            \* the day number
    civil,          \* the civil date, counted
    weekday,        \* the day of the week, counted
    ahead, left     \* the direction, and how many days are left to go

vars == <<day, civil, weekday, ahead, left>>

Init ==
    \E y \in Years, k \in Eras :
        /\ ahead \in BOOLEAN
        /\ day = Start[y][1] - 146097 * k
        /\ civil = <<y - 400 * k, 1, 1>>
        /\ weekday = Start[y][2]
        /\ left = Days

Tomorrow ==
    /\ ahead /\ left > 0
    /\ day' = day + 1
    /\ civil' = IF civil[3] < DaysInMonth(civil[1], civil[2]) THEN <<civil[1], civil[2], civil[3] + 1>>
                ELSE IF civil[2] < 12 THEN <<civil[1], civil[2] + 1, 1>>
                ELSE <<civil[1] + 1, 1, 1>>
    /\ weekday' = (weekday % 7) + 1
    /\ left' = left - 1 /\ UNCHANGED ahead

Yesterday ==
    /\ ~ ahead /\ left > 0
    /\ day' = day - 1
    /\ civil' = IF civil[3] > 1 THEN <<civil[1], civil[2], civil[3] - 1>>
                ELSE IF civil[2] > 1 THEN <<civil[1], civil[2] - 1, DaysInMonth(civil[1], civil[2] - 1)>>
                ELSE <<civil[1] - 1, 12, 31>>
    /\ weekday' = ((weekday + 5) % 7) + 1
    /\ left' = left - 1 /\ UNCHANGED ahead

Next == Tomorrow \/ Yesterday

Spec == Init /\ [][Next]_vars

-----------------------------------------------------------------------------

(* The day number and the civil date are each other's inverse and agree    *)
(* with the calendar counted day by day, across leap years, centuries,     *)
(* eras and the year 0 (civil_from_days, days_from_civil).                 *)
CalendarAgrees ==
    /\ CivilFromDays(day) = civil
    /\ DaysFromCivil(civil[1], civil[2], civil[3]) = day
    /\ DayOfWeek(day) = weekday

(* The components of a date name it: week date, quarter date and ordinal   *)
(* date built from them are the date again, and so is the date as the base *)
(* of a map that repeats one of its components.                            *)
ComponentsNameTheDate ==
    LET C(name) == Component(day, name)
        Says(result) == result = FromDays(day)
    IN  /\ IsoWeekDate(C("weekYear"), C("week"), C("dayOfWeek")) = <<day>>
        /\ QuarterDate(C("year"), C("quarter"), C("dayOfQuarter")) = <<day>>
        /\ OrdinalDate(C("year"), C("ordinalDay")) = <<day>>
        /\ \A name \in {"week", "quarter", "ordinalDay"} : Says(DateFromMap(<<day>>, name :> C(name)))
        /\ \A name \in {"month", "day"} : DateFromMap(<<day>>, name :> C(name)) = <<day>>

IsStart(unit) ==
    CASE unit = "millennium" -> (civil[1] % 1000) = 0 /\ civil[2] = 1 /\ civil[3] = 1
      [] unit = "century" -> civil[1] % 100 = 0 /\ civil[2] = 1 /\ civil[3] = 1
      [] unit = "decade" -> civil[1] % 10 = 0 /\ civil[2] = 1 /\ civil[3] = 1
      [] unit = "year" -> civil[2] = 1 /\ civil[3] = 1
      [] unit = "weekYear" -> /\ weekday = 1
                              /\ \E i \in 0..6 : Tail(CivilFromDays(day + i)) = <<1, 4>>
      [] unit = "quarter" -> civil[2] \in {1, 4, 7, 10} /\ civil[3] = 1
      [] unit = "month" -> civil[3] = 1
      [] unit = "week" -> weekday = 1
      [] unit = "day" -> TRUE

(* Truncating a date gives the last start of a unit that is not after it:  *)
(* the date itself if a unit starts there, and what it is for the day      *)
(* before otherwise.                                                       *)
TruncatesToTheStart ==
    \A unit \in DateUnits :
        TruncateDays(day, unit) = IF IsStart(unit) THEN day ELSE TruncateDays(day - 1, unit)

FieldMaps ==
    {[day |-> 31], [month |-> 2], [ordinalDay |-> 366], [week |-> 53], [week |-> 53, dayOfWeek |-> 7],
     [quarter |-> 2, dayOfQuarter |-> 92], [dayOfQuarter |-> 91], [year |-> 2001, week |-> 53]}

(* A field given to truncate is what the result has: no day is moved to    *)
(* the next month and no week to the next year                             *)
(* (docs/cypher/functions/temporal.md).                                    *)
FieldsAreSet ==
    \A unit \in DateUnits, fields \in FieldMaps :
        \A r \in {TruncateWith(day, unit, fields)} :
            r # <<>> =>
                \A name \in DOMAIN fields :
                    Component(r[1], IF name = "year" /\ "week" \in DOMAIN fields THEN "weekYear" ELSE name)
                    = fields[name]

(* Months are added and taken away within the calendar: the result is in   *)
(* the month asked for, has the same day unless the month is shorter, and  *)
(* shifting in two steps differs by at most the days that were clamped.    *)
MonthsAreClamped ==
    \A n \in {-13, -1, 1, 12, 14} :
        LET r == CivilFromDays(ShiftByMonths(day, n))
            back == CivilFromDays(ShiftByMonths(ShiftByMonths(day, n), - n))
        IN  /\ r[1] * 12 + r[2] = civil[1] * 12 + civil[2] + n
            /\ r[3] = civil[3] \/ (r[3] = DaysInMonth(r[1], r[2]) /\ r[3] < civil[3])
            /\ back[1] = civil[1] /\ back[2] = civil[2] /\ back[3] = r[3]

=============================================================================
