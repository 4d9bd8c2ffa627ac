--------------------------- MODULE GameTime_proofs ---------------------------
(***************************************************************************)
(* For every calendar, number of slots, tracks and effects: the calendar   *)
(* counts the days begun, every sound belongs to a slot, a voice plays at  *)
(* the volume of its own effect, and the evening's music starts.           *)
(***************************************************************************)
EXTENDS GameTime, FiniteSetTheorems, WellFoundedInduction, TLAPS

-----------------------------------------------------------------------------
(***************************************************************************)
(* Arithmetic                                                              *)
(***************************************************************************)
LEMMA Monotonic ==
  ASSUME NEW a \in Nat, NEW b \in Nat, NEW n \in Nat, a <= b
  PROVE  a * n <= b * n
  OBVIOUS

LEMMA Product == \A a, b \in Nat : a * b \in Nat
  OBVIOUS

LEMMA Quotient ==
  ASSUME NEW d \in Nat, NEW n \in Nat \ {0}, NEW q \in Nat, NEW r \in 0 .. n - 1,
         d = q * n + r
  PROVE  d \div n = q /\ d % n = r
  OBVIOUS

-----------------------------------------------------------------------------
(***************************************************************************)
(* The calendar, written as a number of days: the year and the season count *)
(* seasons, those and the date count days.  The year that is shown stands  *)
(* still at the last, the year that is counted goes on for as many years   *)
(* as a week has days.                                                     *)
(***************************************************************************)
Dated(d, y, s, m) == d = (y * SeasonsPerYear + (s - 1)) * DaysPerSeason + (m - 1)

Shown(y) == IF y < LastYear THEN y ELSE LastYear

CalendarTypes ==
  /\ g_total_days \in 0 .. DaysPerWeek - 1
  /\ g_day_of_month \in 1 .. DaysPerSeason
  /\ g_season \in 1 .. SeasonsPerYear
  /\ g_time_counter \in 0 .. LastYear
  /\ days \in 0 .. Horizon - 1

Date ==
  \E y \in 0 .. LastYear + DaysPerWeek - 1 :
    Dated(days, y, g_season, g_day_of_month) /\ g_time_counter = Shown(y)

InWeek(d, weekday) == \E weeks \in Nat : d = weeks * DaysPerWeek + weekday

Tomorrow ==
  g_time_tick_counter =
    IF g_day_of_month < DaysPerSeason THEN g_season
    ELSE IF g_season < SeasonsPerYear THEN g_season + 1 ELSE 1

CalendarInv ==
  /\ CalendarTypes
  /\ Date
  /\ InWeek(days, g_total_days)
  /\ Tomorrow

LEMMA Constants ==
  /\ DaysPerWeek \in Nat \ {0} /\ DaysPerSeason \in Nat \ {0} /\ DaysPerSeason > 1
  /\ SeasonsPerYear \in Nat \ {0} /\ LastYear \in Nat \ {0}
  /\ YearLength \in Nat \ {0} /\ Horizon \in Nat
  /\ YearLength = SeasonsPerYear * DaysPerSeason
  /\ Horizon = (LastYear + DaysPerWeek) * YearLength
  /\ Horizon = LastYear * YearLength + DaysPerWeek * YearLength
<1>1. /\ DaysPerWeek \in Nat \ {0} /\ DaysPerSeason \in Nat \ {0} /\ DaysPerSeason > 1
      /\ SeasonsPerYear \in Nat \ {0} /\ LastYear \in Nat \ {0}
  BY TimeConstants
<1>2. YearLength \in Nat \ {0} /\ YearLength = SeasonsPerYear * DaysPerSeason
  BY <1>1 DEF YearLength
<1>3. Horizon = (LastYear + DaysPerWeek) * YearLength
  <2>1. LastYear + DaysPerWeek \in Nat /\ YearLength \in Nat
    BY <1>1, <1>2
  <2> QED
    BY <2>1 DEF Horizon
<1>4. Horizon = LastYear * YearLength + DaysPerWeek * YearLength
  BY <1>1, <1>2, <1>3
<1>5. Horizon \in Nat
  BY <1>1, <1>2, <1>3
<1> QED
  BY <1>1, <1>2, <1>3, <1>4, <1>5

(***************************************************************************)
(* What a date says of the number of days.                                 *)
(***************************************************************************)
Rest(s, m) == (s - 1) * DaysPerSeason + (m - 1)

LEMMA RestOfYear ==
  ASSUME NEW s \in 1 .. SeasonsPerYear, NEW m \in 1 .. DaysPerSeason
  PROVE  Rest(s, m) \in 0 .. YearLength - 1
<1>0. DaysPerSeason \in Nat /\ SeasonsPerYear \in Nat \ {0} /\ YearLength \in Nat
  BY Constants
<1>1. (s - 1) * DaysPerSeason \in Nat
  BY <1>0
<1>2. (s - 1) * DaysPerSeason <= (SeasonsPerYear - 1) * DaysPerSeason
  BY <1>0, Monotonic
<1>3. (SeasonsPerYear - 1) * DaysPerSeason = YearLength - DaysPerSeason
  BY <1>0, Constants
<1> QED
  BY <1>0, <1>1, <1>2, <1>3 DEF Rest

LEMMA DaysOfDate ==
  ASSUME NEW y \in Nat, NEW s \in 1 .. SeasonsPerYear, NEW m \in 1 .. DaysPerSeason,
         NEW d, Dated(d, y, s, m)
  PROVE  d = y * YearLength + Rest(s, m) /\ d \in Nat
<1>0. /\ DaysPerSeason \in Nat /\ SeasonsPerYear \in Nat /\ YearLength \in Nat
      /\ YearLength = SeasonsPerYear * DaysPerSeason
  BY Constants
<1>1. y * SeasonsPerYear \in Nat /\ s - 1 \in Nat
  BY <1>0, Product
<1>2. (y * SeasonsPerYear + (s - 1)) * DaysPerSeason
        = (y * SeasonsPerYear) * DaysPerSeason + (s - 1) * DaysPerSeason
  BY <1>0, <1>1
<1>3. (y * SeasonsPerYear) * DaysPerSeason = y * YearLength
  BY <1>0
<1>4. y * YearLength \in Nat /\ (s - 1) * DaysPerSeason \in Nat
  BY <1>0, <1>1, Product
<1>5. d = y * YearLength + (s - 1) * DaysPerSeason + (m - 1)
  BY <1>2, <1>3 DEF Dated
<1> QED
  BY <1>4, <1>5 DEF Rest

LEMMA DateOfDays ==
  ASSUME NEW y \in Nat, NEW s \in 1 .. SeasonsPerYear, NEW m \in 1 .. DaysPerSeason,
         NEW d, Dated(d, y, s, m)
  PROVE  /\ d % DaysPerSeason = m - 1
         /\ (d \div DaysPerSeason) % SeasonsPerYear = s - 1
         /\ d \div YearLength = y
<1>0. /\ DaysPerSeason \in Nat \ {0} /\ SeasonsPerYear \in Nat \ {0}
      /\ YearLength \in Nat \ {0} /\ d \in Nat
  BY Constants, DaysOfDate
<1> DEFINE seasons == y * SeasonsPerYear + (s - 1)
<1>1. seasons \in Nat /\ s - 1 \in 0 .. SeasonsPerYear - 1 /\ m - 1 \in 0 .. DaysPerSeason - 1
  <2>1. y * SeasonsPerYear \in Nat
    BY <1>0, Product
  <2> QED
    BY <1>0, <2>1
<1>2. seasons % SeasonsPerYear = s - 1
  <2>1. seasons = y * SeasonsPerYear + (s - 1)
    OBVIOUS
  <2> HIDE DEF seasons
  <2> QED
    BY <1>0, <1>1, <2>1, Quotient
<1>3. d = seasons * DaysPerSeason + (m - 1)
  BY DEF Dated
<1> HIDE DEF seasons
<1>4. d % DaysPerSeason = m - 1 /\ d \div DaysPerSeason = seasons
  BY <1>0, <1>1, <1>3, Quotient
<1>5. d \div YearLength = y
  <2>1. d = y * YearLength + Rest(s, m) /\ Rest(s, m) \in 0 .. YearLength - 1
    BY DaysOfDate, RestOfYear
  <2> QED
    BY <1>0, <2>1, Quotient
<1> QED
  BY <1>2, <1>4, <1>5

(***************************************************************************)
(* The day after a date.                                                   *)
(***************************************************************************)
NextDay(m) == IF m < DaysPerSeason THEN m + 1 ELSE 1
NextSeason(s, m) ==
  IF m < DaysPerSeason THEN s ELSE IF s < SeasonsPerYear THEN s + 1 ELSE 1
NextYear(y, s, m) == IF m < DaysPerSeason \/ s < SeasonsPerYear THEN y ELSE y + 1

LEMMA DayAfter ==
  ASSUME NEW y \in Nat, NEW s \in 1 .. SeasonsPerYear, NEW m \in 1 .. DaysPerSeason,
         NEW d, Dated(d, y, s, m)
  PROVE  /\ NextDay(m) \in 1 .. DaysPerSeason /\ NextSeason(s, m) \in 1 .. SeasonsPerYear
         /\ NextYear(y, s, m) \in Nat
         /\ Dated(d + 1, NextYear(y, s, m), NextSeason(s, m), NextDay(m))
<1>0. DaysPerSeason \in Nat \ {0} /\ SeasonsPerYear \in Nat \ {0} /\ d \in Nat
  BY Constants, DaysOfDate
<1>1. /\ NextDay(m) \in 1 .. DaysPerSeason /\ NextSeason(s, m) \in 1 .. SeasonsPerYear
      /\ NextYear(y, s, m) \in Nat
  BY <1>0 DEF NextDay, NextSeason, NextYear
<1> DEFINE seasons == y * SeasonsPerYear + (s - 1)
<1>2. /\ seasons \in Nat /\ y * SeasonsPerYear \in Nat
      /\ (y + 1) * SeasonsPerYear = y * SeasonsPerYear + SeasonsPerYear
  <2>1. y * SeasonsPerYear \in Nat
    BY <1>0, Product
  <2> QED
    BY <1>0, <2>1
<1>3. d = seasons * DaysPerSeason + (m - 1)
  BY DEF Dated
<1>4. CASE m < DaysPerSeason
  <2>1. d + 1 = seasons * DaysPerSeason + m
    <3>1. seasons * DaysPerSeason \in Nat
      BY <1>0, <1>2, Product
    <3> HIDE DEF seasons
    <3> QED
      BY <1>3, <3>1
  <2>2. m + 1 - 1 = m
    OBVIOUS
  <2> QED
    BY <1>1, <1>4, <2>1, <2>2 DEF Dated, NextDay, NextSeason, NextYear
<1>5. CASE m = DaysPerSeason
  <2> DEFINE after == NextYear(y, s, m) * SeasonsPerYear + (NextSeason(s, m) - 1)
  <2>1. after = seasons + 1
    <3>1. CASE s < SeasonsPerYear
      BY <1>0, <1>2, <1>5, <3>1 DEF NextSeason, NextYear
    <3>2. CASE s = SeasonsPerYear
      BY <1>0, <1>2, <1>5, <3>2 DEF NextSeason, NextYear
    <3> QED
      BY <1>0, <3>1, <3>2
  <2>2. d + 1 = after * DaysPerSeason
    <3> HIDE DEF seasons, after
    <3>1. (seasons + 1) * DaysPerSeason = seasons * DaysPerSeason + DaysPerSeason
      BY <1>0, <1>2
    <3>2. seasons * DaysPerSeason \in Nat
      BY <1>0, <1>2, Product
    <3> QED
      BY <1>0, <1>3, <1>5, <2>1, <3>1, <3>2
  <2>3. NextDay(m) - 1 = 0 /\ after * DaysPerSeason \in Nat
    BY <1>0, <1>2, <1>5, <2>1 DEF NextDay
  <2>4. d + 1 = after * DaysPerSeason + (NextDay(m) - 1)
    <3> HIDE DEF after
    <3> QED
      BY <2>2, <2>3
  <2> QED
    BY <1>1, <2>4 DEF Dated
<1> QED
  BY <1>0, <1>4, <1>5

(***************************************************************************)
(* What the calendar shows is what the number of days says.                *)
(***************************************************************************)
LEMMA CalendarShows == CalendarInv => CalendarAgrees
<1> SUFFICES ASSUME CalendarInv PROVE CalendarAgrees
  OBVIOUS
<1>1. /\ g_total_days \in 0 .. DaysPerWeek - 1 /\ g_day_of_month \in 1 .. DaysPerSeason
      /\ g_season \in 1 .. SeasonsPerYear /\ days \in Nat /\ DaysPerWeek \in Nat \ {0}
      /\ DaysPerSeason \in Nat /\ SeasonsPerYear \in Nat \ {0} /\ LastYear \in Nat
  BY Constants DEF CalendarInv, CalendarTypes
<1>2. PICK y \in 0 .. LastYear + DaysPerWeek - 1 :
        Dated(days, y, g_season, g_day_of_month) /\ g_time_counter = Shown(y)
  BY DEF CalendarInv, Date
<1>3. y \in Nat
  OBVIOUS
<1>4. /\ days % DaysPerSeason = g_day_of_month - 1
      /\ (days \div DaysPerSeason) % SeasonsPerYear = g_season - 1
      /\ days \div YearLength = y
  BY <1>1, <1>2, <1>3, DateOfDays
<1>5. days % DaysPerWeek = g_total_days
  <2>1. PICK weeks \in Nat : days = weeks * DaysPerWeek + g_total_days
    BY DEF CalendarInv, InWeek
  <2> QED
    BY <1>1, <2>1, Quotient
<1>6. ((days + 1) \div DaysPerSeason) % SeasonsPerYear
        = NextSeason(g_season, g_day_of_month) - 1
  <2>1. /\ NextDay(g_day_of_month) \in 1 .. DaysPerSeason
        /\ NextSeason(g_season, g_day_of_month) \in 1 .. SeasonsPerYear
        /\ NextYear(y, g_season, g_day_of_month) \in Nat
        /\ Dated(days + 1, NextYear(y, g_season, g_day_of_month),
                 NextSeason(g_season, g_day_of_month), NextDay(g_day_of_month))
    BY <1>1, <1>2, <1>3, DayAfter
  <2> QED
    BY <2>1, DateOfDays
<1>7. g_time_tick_counter = NextSeason(g_season, g_day_of_month)
  BY DEF CalendarInv, Tomorrow, NextSeason
<1>8. NextSeason(g_season, g_day_of_month) \in Nat
  BY <1>1 DEF NextSeason
<1> QED
  BY <1>1, <1>2, <1>4, <1>5, <1>6, <1>7, <1>8 DEF CalendarAgrees, Shown

LEMMA CalendarInit == Init => CalendarInv
<1> SUFFICES ASSUME Init PROVE CalendarInv
  OBVIOUS
<1>1. /\ g_total_days = 0 /\ g_day_of_month = 1 /\ g_season = 1 /\ g_time_counter = 0
      /\ g_time_tick_counter = 1 /\ days = 0
  BY DEF Init
<1>2. Horizon > 0
  <2>1. LastYear * YearLength \in Nat /\ DaysPerWeek * YearLength \in Nat \ {0}
    BY Constants
  <2> QED
    BY <2>1, Constants
<1>3. CalendarTypes
  BY <1>1, <1>2, Constants DEF CalendarTypes
<1>4. Date
  <2>1. 0 \in 0 .. LastYear + DaysPerWeek - 1 /\ Shown(0) = 0
    BY Constants DEF Shown
  <2>2. Dated(0, 0, 1, 1)
    BY Constants DEF Dated
  <2> QED
    BY <1>1, <2>1, <2>2 DEF Date
<1>5. InWeek(days, g_total_days)
  <2>1. 0 = 0 * DaysPerWeek + 0
    BY Constants
  <2> QED
    BY <1>1, <2>1 DEF InWeek
<1>6. Tomorrow
  BY <1>1, Constants DEF Tomorrow
<1> QED
  BY <1>3, <1>4, <1>5, <1>6 DEF CalendarInv

(***************************************************************************)
(* A day begins, or none: the date moves on within its season, the season  *)
(* within its year, the year that is shown up to the last one.             *)
(***************************************************************************)
LEMMA CalendarMoves ==
  CalendarTypes /\ AdvanceCalendar(1) =>
    /\ g_day_of_month' = NextDay(g_day_of_month)
    /\ g_season' = NextSeason(g_season, g_day_of_month)
    /\ g_time_counter' = IF g_day_of_month < DaysPerSeason \/ g_season < SeasonsPerYear
                            \/ g_time_counter = LastYear
                           THEN g_time_counter ELSE g_time_counter + 1
    /\ g_total_days' = IF g_total_days + 1 >= DaysPerWeek THEN 0 ELSE g_total_days + 1
    /\ Tomorrow'
  BY Constants DEF CalendarTypes, AdvanceCalendar, Tomorrow, NextDay, NextSeason

\* A year past the last one is shown as the last.
LEMMA ShownNext ==
  ASSUME NEW y \in Nat
  PROVE  Shown(y) = LastYear \/ Shown(y + 1) = Shown(y) + 1
  BY Constants DEF Shown

\* The days counted end where the years do, and nowhere else.
LEMMA HorizonIs ==
  ASSUME NEW y \in 0 .. LastYear + DaysPerWeek, NEW s \in 1 .. SeasonsPerYear,
         NEW m \in 1 .. DaysPerSeason, NEW d, Dated(d, y, s, m),
         y = LastYear + DaysPerWeek => s = 1 /\ m = 1
  PROVE  /\ d \in 0 .. Horizon
         /\ d = Horizon <=> y = LastYear + DaysPerWeek
<1>0. /\ YearLength \in Nat \ {0} /\ LastYear \in Nat /\ DaysPerWeek \in Nat /\ y \in Nat
      /\ Horizon = (LastYear + DaysPerWeek) * YearLength /\ DaysPerSeason \in Nat
      /\ Horizon \in Nat
  BY Constants
<1>1. d = y * YearLength + Rest(s, m) /\ d \in Nat /\ Rest(s, m) \in 0 .. YearLength - 1
  BY <1>0, DaysOfDate, RestOfYear
<1>2. CASE y = LastYear + DaysPerWeek
  <2>1. Rest(s, m) = 0
    BY <1>0, <1>2 DEF Rest
  <2> QED
    BY <1>0, <1>1, <1>2, <2>1
<1>3. CASE y # LastYear + DaysPerWeek
  <2>1. y + 1 <= LastYear + DaysPerWeek /\ y + 1 \in Nat /\ LastYear + DaysPerWeek \in Nat
    BY <1>0, <1>3
  <2>2. (y + 1) * YearLength <= Horizon
    BY <1>0, <2>1, Monotonic
  <2>3. (y + 1) * YearLength = y * YearLength + YearLength /\ y * YearLength \in Nat
    BY <1>0
  <2> QED
    BY <1>0, <1>1, <1>3, <2>2, <2>3
<1> QED
  BY <1>2, <1>3

\* The years counted go back by a whole number of weeks.
LEMMA WholeWeeks ==
  ASSUME NEW d, NEW weekday \in 0 .. DaysPerWeek - 1, InWeek(d, weekday), d = Horizon
  PROVE  InWeek(YearLength * LastYear, weekday)
<1>0. /\ DaysPerWeek \in Nat \ {0} /\ YearLength \in Nat /\ LastYear \in Nat
      /\ Horizon = LastYear * YearLength + DaysPerWeek * YearLength
      /\ weekday \in Nat
  BY Constants
<1>1. PICK weeks \in Nat : d = weeks * DaysPerWeek + weekday
  BY DEF InWeek
<1> DEFINE back == YearLength * LastYear
<1>2. /\ back \in Nat /\ YearLength * DaysPerWeek \in Nat
      /\ back + YearLength * DaysPerWeek = weeks * DaysPerWeek + weekday
  BY <1>0, <1>1
<1>3. weeks >= YearLength
  <2> SUFFICES ASSUME weeks < YearLength PROVE FALSE
    BY <1>0
  <2>1. weeks + 1 <= YearLength /\ weeks + 1 \in Nat
    BY <1>0
  <2>2. (weeks + 1) * DaysPerWeek <= YearLength * DaysPerWeek
    BY <1>0, <2>1, Monotonic
  <2>3. (weeks + 1) * DaysPerWeek = weeks * DaysPerWeek + DaysPerWeek
        /\ weeks * DaysPerWeek \in Nat
    BY <1>0
  <2> HIDE DEF back
  <2> QED
    BY <1>0, <1>2, <2>2, <2>3
<1>4. weeks - YearLength \in Nat
  BY <1>0, <1>3
<1>5. (weeks - YearLength) * DaysPerWeek = weeks * DaysPerWeek - YearLength * DaysPerWeek
  BY <1>0
<1>6. back = (weeks - YearLength) * DaysPerWeek + weekday
  <2>1. weeks * DaysPerWeek \in Nat
    BY <1>0
  <2> HIDE DEF back
  <2> QED
    BY <1>0, <1>2, <1>5, <2>1
<1> QED
  BY <1>4, <1>6 DEF InWeek

LEMMA WeekdayAfter ==
  ASSUME NEW d \in Nat, NEW weekday \in 0 .. DaysPerWeek - 1, InWeek(d, weekday)
  PROVE  InWeek(d + 1, IF weekday + 1 >= DaysPerWeek THEN 0 ELSE weekday + 1)
<1>0. DaysPerWeek \in Nat \ {0} /\ weekday \in Nat
  BY Constants
<1>1. PICK weeks \in Nat : d = weeks * DaysPerWeek + weekday
  BY DEF InWeek
<1>2. /\ weeks * DaysPerWeek \in Nat
      /\ (weeks + 1) * DaysPerWeek = weeks * DaysPerWeek + DaysPerWeek
  BY <1>0
<1>3. CASE weekday + 1 >= DaysPerWeek
  <2>1. d + 1 = (weeks + 1) * DaysPerWeek + 0 /\ weeks + 1 \in Nat
    BY <1>0, <1>1, <1>2, <1>3
  <2> QED
    BY <1>3, <2>1 DEF InWeek
<1>4. CASE ~(weekday + 1 >= DaysPerWeek)
  <2>1. d + 1 = weeks * DaysPerWeek + (weekday + 1)
    BY <1>0, <1>1, <1>2
  <2> QED
    BY <1>4, <2>1 DEF InWeek
<1> QED
  BY <1>3, <1>4

LEMMA DayBeginsKeeps == CalendarInv /\ AdvanceCalendar(1) /\ CountDays(1) => CalendarInv'
<1> SUFFICES ASSUME CalendarInv, AdvanceCalendar(1), CountDays(1) PROVE CalendarInv'
  OBVIOUS
<1>0. /\ DaysPerWeek \in Nat \ {0} /\ DaysPerSeason \in Nat \ {0}
      /\ SeasonsPerYear \in Nat \ {0} /\ LastYear \in Nat \ {0}
      /\ YearLength \in Nat \ {0} /\ Horizon \in Nat
      /\ Horizon = LastYear * YearLength + DaysPerWeek * YearLength
  BY Constants
<1>1. /\ g_total_days \in 0 .. DaysPerWeek - 1 /\ g_day_of_month \in 1 .. DaysPerSeason
      /\ g_season \in 1 .. SeasonsPerYear /\ g_time_counter \in 0 .. LastYear
      /\ days \in 0 .. Horizon - 1 /\ days \in Nat
  BY <1>0 DEF CalendarInv, CalendarTypes
<1>2. /\ g_day_of_month' = NextDay(g_day_of_month)
      /\ g_season' = NextSeason(g_season, g_day_of_month)
      /\ g_time_counter' = IF g_day_of_month < DaysPerSeason \/ g_season < SeasonsPerYear
                              \/ g_time_counter = LastYear
                             THEN g_time_counter ELSE g_time_counter + 1
      /\ g_total_days' = IF g_total_days + 1 >= DaysPerWeek THEN 0 ELSE g_total_days + 1
      /\ Tomorrow'
  BY CalendarMoves DEF CalendarInv
<1>3. PICK y \in 0 .. LastYear + DaysPerWeek - 1 :
        Dated(days, y, g_season, g_day_of_month) /\ g_time_counter = Shown(y)
  BY DEF CalendarInv, Date
<1> DEFINE z == NextYear(y, g_season, g_day_of_month)
<1>4. y \in Nat /\ y + 1 \in 0 .. LastYear + DaysPerWeek /\ y \in 0 .. LastYear + DaysPerWeek
  BY <1>0
<1>5. /\ g_day_of_month' \in 1 .. DaysPerSeason /\ g_season' \in 1 .. SeasonsPerYear
      /\ Dated(days + 1, z, g_season', g_day_of_month')
  BY <1>1, <1>2, <1>3, <1>4, DayAfter
<1>6. z \in 0 .. LastYear + DaysPerWeek
      /\ (z = LastYear + DaysPerWeek => g_season' = 1 /\ g_day_of_month' = 1)
  BY <1>0, <1>1, <1>2, <1>4 DEF NextYear, NextSeason, NextDay
<1>7. g_time_counter' = Shown(z)
  <2>1. Shown(y) = LastYear \/ Shown(y + 1) = Shown(y) + 1
    BY <1>4, ShownNext
  <2>2. Shown(y) = LastYear => Shown(y + 1) = LastYear
    BY <1>0, <1>4 DEF Shown
  <2>3. Shown(y) # LastYear => Shown(y + 1) = Shown(y) + 1
    BY <2>1
  <2> QED
    BY <1>2, <1>3, <2>2, <2>3 DEF NextYear
<1> HIDE DEF z
<1>8. /\ days + 1 \in 0 .. Horizon
      /\ days + 1 = Horizon <=> z = LastYear + DaysPerWeek
  BY <1>5, <1>6, HorizonIs
<1>9. InWeek(days + 1, g_total_days') /\ g_total_days' \in 0 .. DaysPerWeek - 1
  <2>1. InWeek(days + 1, IF g_total_days + 1 >= DaysPerWeek THEN 0 ELSE g_total_days + 1)
    BY <1>1, WeekdayAfter DEF CalendarInv
  <2> QED
    BY <1>0, <1>1, <1>2, <2>1
<1>10. g_time_counter' \in 0 .. LastYear
  BY <1>0, <1>6, <1>7 DEF Shown
<1>11. CASE days + 1 # Horizon
  <2>1. days' = days + 1 /\ days' \in 0 .. Horizon - 1
    BY <1>0, <1>1, <1>8, <1>11 DEF CountDays
  <2>2. z \in 0 .. LastYear + DaysPerWeek - 1
    BY <1>0, <1>6, <1>8, <1>11
  <2>3. Date'
    BY <1>5, <1>7, <2>1, <2>2 DEF Date
  <2> QED
    BY <1>2, <1>5, <1>9, <1>10, <2>1, <2>3 DEF CalendarInv, CalendarTypes
<1>12. CASE days + 1 = Horizon
  <2>1. days' = YearLength * LastYear
    BY <1>12 DEF CountDays
  <2>2. days' \in 0 .. Horizon - 1
    <3>1. LastYear * YearLength \in Nat /\ DaysPerWeek * YearLength \in Nat \ {0}
      BY <1>0
    <3>2. YearLength * LastYear = LastYear * YearLength
      BY <1>0
    <3> QED
      BY <1>0, <2>1, <3>1, <3>2
  <2>3. InWeek(days', g_total_days')
    BY <1>9, <1>12, <2>1, WholeWeeks
  <2>4. Dated(days', LastYear, g_season', g_day_of_month')
    <3>1. g_season' = 1 /\ g_day_of_month' = 1
      BY <1>6, <1>8, <1>12
    <3>2. (LastYear * SeasonsPerYear) * DaysPerSeason = YearLength * LastYear
      BY <1>0, Constants
    <3>3. LastYear * SeasonsPerYear \in Nat /\ YearLength * LastYear \in Nat
      BY <1>0
    <3> QED
      BY <2>1, <3>1, <3>2, <3>3 DEF Dated
  <2>5. g_time_counter' = Shown(LastYear) /\ LastYear \in 0 .. LastYear + DaysPerWeek - 1
    <3>1. z = LastYear + DaysPerWeek
      BY <1>8, <1>12
    <3> QED
      BY <1>0, <1>7, <3>1 DEF Shown
  <2>6. Date'
    BY <2>4, <2>5 DEF Date
  <2> QED
    BY <1>2, <1>5, <1>9, <1>10, <2>2, <2>3, <2>6 DEF CalendarInv, CalendarTypes
<1> QED
  BY <1>11, <1>12

LEMMA CalendarStep ==
  ASSUME CalendarInv, NEW more \in {0, 1}, AdvanceCalendar(more), CountDays(more)
  PROVE  CalendarInv'
<1>1. CASE more = 1
  BY <1>1, DayBeginsKeeps
<1>2. CASE more = 0
  <2>0. AdvanceCalendar(0) /\ CountDays(0)
    BY <1>2
  <2>1. CalendarTypes
    BY DEF CalendarInv
  <2>2. /\ UNCHANGED <<g_day_of_month, g_season, g_time_counter, g_total_days>>
        /\ Tomorrow'
    BY <2>0, <2>1, Constants DEF CalendarTypes, AdvanceCalendar, Tomorrow
  <2>3. days' = days
    BY <2>0, <2>1, Constants DEF CountDays, CalendarTypes
  <2> QED
    BY <2>2, <2>3 DEF CalendarInv, CalendarTypes, Date, InWeek
<1> QED
  BY <1>1, <1>2

-----------------------------------------------------------------------------
(***************************************************************************)
(* Handles: the library's new ones are all different, as long as there are *)
(* more of them than slots.                                                *)
(***************************************************************************)
Less == {p \in Nat \X Nat : p[1] < p[2]}

\* A set of numbers has a least one: the form induction takes here.
LEMMA LeastNumber ==
  ASSUME NEW T, T \subseteq Nat, T # {}
  PROVE  \E x \in T : \A y \in T : x <= y
<1>1. IsWellFoundedOn(Less, Nat)
  BY NatLessThanWellFounded DEF OpToRel, Less
<1>2. \E x \in T : \A y \in T : <<y, x>> \notin Less
  BY <1>1, WFMin
<1>3. \A x, y \in Nat : <<y, x>> \notin Less => x <= y
  BY DEF Less
<1> QED
  BY <1>2, <1>3

Below(F, h) == {g \in F : g < h}

(***************************************************************************)
(* Counted from the least, a set of numbers has an n-th one for every n    *)
(* below its size.                                                         *)
(***************************************************************************)
LEMMA NthExists ==
  ASSUME NEW F, F \subseteq Nat, IsFiniteSet(F), NEW n \in Nat, n < Cardinality(F)
  PROVE  \E h \in F : Cardinality(Below(F, h)) = n
<1> DEFINE T == {k \in Nat : k < Cardinality(F) /\ ~ \E h \in F : Cardinality(Below(F, h)) = k}
<1>1. SUFFICES ASSUME n \in T PROVE FALSE
  OBVIOUS
<1>2. PICK k \in T : \A j \in T : k <= j
  <2>1. T \subseteq Nat /\ T # {}
    BY <1>1
  <2> HIDE DEF T
  <2> QED
    BY <2>1, LeastNumber
<1>3. k \in Nat /\ k < Cardinality(F) /\ Cardinality(F) \in Nat
  BY <1>2, FS_CardinalityType
<1>4. CASE k = 0
  <2>1. F # {}
    BY <1>3, FS_EmptySet
  <2>2. PICK h \in F : \A g \in F : h <= g
    BY <2>1, LeastNumber
  <2>3. Below(F, h) = {}
    <3>1. \A g \in F : g \in Nat /\ h \in Nat /\ ~(g < h)
      BY <2>2
    <3> QED
      BY <3>1 DEF Below
  <2> QED
    BY <1>2, <1>4, <2>3, FS_EmptySet
<1>5. CASE k > 0
  <2>1. k - 1 \in Nat /\ k - 1 < Cardinality(F) /\ k - 1 \notin T
    BY <1>2, <1>3, <1>5
  <2>2. PICK h \in F : Cardinality(Below(F, h)) = k - 1
    BY <2>1
  <2> DEFINE U == Below(F, h) \union {h}
  <2>3. IsFiniteSet(Below(F, h)) /\ h \notin Below(F, h)
    BY FS_Subset DEF Below
  <2>4. Cardinality(U) = k
    <3>1. Cardinality(U) = Cardinality(Below(F, h)) + 1
      BY <2>3, FS_AddElement
    <3> HIDE DEF U
    <3> QED
      BY <1>3, <2>2, <3>1
  <2>5. F \ U # {}
    <3>1. U \subseteq F
      BY DEF Below
    <3> QED
      BY <1>3, <2>4, <3>1
  <2>6. PICK g \in F \ U : \A f \in F \ U : g <= f
    <3> HIDE DEF U
    <3> QED
      BY <2>5, LeastNumber
  <2>7. Below(F, g) = U
    <3>1. g \in Nat /\ h \in Nat /\ h < g
      BY <2>6 DEF Below
    <3>2. ASSUME NEW f \in F PROVE f < g <=> f \in U
      <4>1. f \in Nat
        OBVIOUS
      <4>2. f \in U => f < g
        BY <3>1, <4>1 DEF Below
      <4>3. f \notin U => ~(f < g)
        BY <2>6, <3>1, <4>1
      <4> QED
        BY <4>2, <4>3
    <3>3. U \subseteq F
      BY DEF Below
    <3> QED
      BY <3>2, <3>3 DEF Below
  <2> QED
    BY <1>2, <2>4, <2>6, <2>7
<1> QED
  BY <1>3, <1>4, <1>5

LEMMA NthFreeIs ==
  ASSUME NEW n \in Nat, n < Cardinality(FreeHandles)
  PROVE  NthFree(n) \in FreeHandles /\ Cardinality(Below(FreeHandles, NthFree(n))) = n
<1>1. NumHandles \in Nat
  BY AudioConstants
<1>2. FreeHandles \subseteq Nat /\ IsFiniteSet(FreeHandles)
  <2>1. IsFiniteSet(Handles) /\ Handles \subseteq Nat
    BY <1>1, FS_Interval DEF Handles
  <2>2. FreeHandles \subseteq Handles
    BY DEF FreeHandles
  <2> QED
    BY <2>1, <2>2, FS_Subset
<1>3. \E h \in FreeHandles : Cardinality(Below(FreeHandles, h)) = n
  BY <1>2, NthExists
<1> QED
  BY <1>3 DEF NthFree, Below

-----------------------------------------------------------------------------
(***************************************************************************)
(* The sounds.  Owned and Distinct are the invariant: what is heard has a   *)
(* slot that started it, and no two slots hold one handle, not even one    *)
(* left behind by a sound that has ended.                                  *)
(***************************************************************************)
Owned == \A g \in sounding : \E s \in Slots : Used(s) /\ ~Starts(s) /\ slots[s].handle = g

Distinct ==
  \A s, r \in Slots : s # r /\ slots[s].handle # NoHandle => slots[s].handle # slots[r].handle

SoundInv == AudioTypeOK /\ Owned /\ Distinct

LEMMA TheSlots ==
  /\ IsFiniteSet(Slots) /\ Slots \subseteq Nat /\ Cardinality(Slots) \in Nat
  /\ 2 * Cardinality(Slots) < NumHandles
  /\ 0 \in Channels /\ Channels \cap Voices = {} /\ Slots = Channels \cup Voices
<1>0. NumChannels \in Nat \ {0} /\ NumVoices \in Nat \ {0} /\ NumHandles \in Nat
  BY AudioConstants
<1>1. Slots = 0 .. NumChannels + NumVoices - 1
  BY <1>0 DEF Slots, Channels, Voices
<1>2. IsFiniteSet(Slots) /\ Cardinality(Slots) = NumChannels + NumVoices
  <2>1. 0 \in Int /\ NumChannels + NumVoices - 1 \in Int
    BY <1>0
  <2>2. /\ IsFiniteSet(0 .. NumChannels + NumVoices - 1)
        /\ Cardinality(0 .. NumChannels + NumVoices - 1) =
             IF 0 > NumChannels + NumVoices - 1 THEN 0
             ELSE (NumChannels + NumVoices - 1) - 0 + 1
    BY <2>1, FS_Interval
  <2> QED
    BY <1>0, <1>1, <2>2
<1> QED
  BY <1>0, <1>1, <1>2, AudioConstants DEF Slots, Channels, Voices

(***************************************************************************)
(* There are always more free handles than slots.                          *)
(***************************************************************************)
LEMMA EnoughHandles ==
  ASSUME SoundInv
  PROVE  Cardinality(FreeHandles) \in Nat /\ Cardinality(Slots) < Cardinality(FreeHandles)
<1> DEFINE held == {slots[s].handle : s \in Slots}
           f == [s \in Slots |-> slots[s].handle]
<1>0. NumHandles \in Nat /\ IsFiniteSet(Handles) /\ Cardinality(Handles) = NumHandles
  <2>1. NumHandles \in Nat /\ 1 \in Int
    BY AudioConstants
  <2> QED
    BY <2>1, FS_Interval DEF Handles
<1>1. IsFiniteSet(held) /\ Cardinality(held) <= Cardinality(Slots)
  <2>1. f \in Surjection(Slots, held)
    BY DEF Surjection
  <2> HIDE DEF f, held
  <2> QED
    BY <2>1, TheSlots, FS_Surjection
<1>2. sounding \subseteq held
  BY DEF SoundInv, Owned
<1>3. FreeHandles = Handles \ held
  BY <1>2 DEF FreeHandles
<1> HIDE DEF held
<1>4. IsFiniteSet(FreeHandles)
  BY <1>0, <1>3, FS_Subset
<1>5. Cardinality(FreeHandles) + Cardinality(held) >= NumHandles
  <2>1. /\ IsFiniteSet(FreeHandles \cup held)
        /\ Cardinality(FreeHandles \cup held) =
             Cardinality(FreeHandles) + Cardinality(held) - Cardinality(FreeHandles \cap held)
    BY <1>1, <1>4, FS_Union
  <2>2. Cardinality(Handles) <= Cardinality(FreeHandles \cup held)
    BY <1>3, <2>1, FS_Subset
  <2>3. Cardinality(FreeHandles \cap held) = 0
    <3>1. FreeHandles \cap held = {}
      BY <1>3
    <3> QED
      BY <3>1, FS_EmptySet
  <2>4. Cardinality(FreeHandles) \in Nat /\ Cardinality(held) \in Nat
    BY <1>1, <1>4, FS_CardinalityType
  <2> QED
    BY <1>0, <2>1, <2>2, <2>3, <2>4
<1> QED
  BY <1>0, <1>1, <1>4, <1>5, TheSlots, FS_CardinalityType

(***************************************************************************)
(* What the library gives: a slot that starts has a free handle or none,   *)
(* the others keep theirs, and no two of them are the same.                *)
(***************************************************************************)
LEMMA NewHandlesAre ==
  ASSUME SoundInv, NEW h \in NewHandles
  PROVE  /\ h \in [Slots -> Handles \cup {NoHandle}]
         /\ \A s \in Slots : ~Starts(s) => h[s] = slots[s].handle
         /\ \A s \in Slots : Starts(s) => h[s] \in FreeHandles \cup {NoHandle}
         /\ \A s, r \in Slots : s # r /\ h[s] # NoHandle => h[s] # h[r]
<1> DEFINE starting == {s \in Slots : Starts(s)}
           Nth(s) == NthFree(Cardinality({r \in starting : r < s}))
<1>1. PICK heard \in SUBSET starting :
        h = [s \in Slots |-> CASE s \in heard -> Nth(s)
                               [] s \in starting \ heard -> NoHandle
                               [] OTHER -> slots[s].handle]
  BY DEF NewHandles
<1>2. \A s \in starting : /\ Cardinality({r \in starting : r < s}) \in Nat
                          /\ Cardinality({r \in starting : r < s}) < Cardinality(FreeHandles)
                          /\ IsFiniteSet({r \in starting : r < s})
  <2> SUFFICES ASSUME NEW s \in starting
               PROVE  /\ Cardinality({r \in starting : r < s}) \in Nat
                      /\ Cardinality({r \in starting : r < s}) < Cardinality(FreeHandles)
                      /\ IsFiniteSet({r \in starting : r < s})
    OBVIOUS
  <2>1. {r \in starting : r < s} \in SUBSET Slots
    OBVIOUS
  <2>2. /\ IsFiniteSet({r \in starting : r < s})
        /\ Cardinality({r \in starting : r < s}) <= Cardinality(Slots)
    <3> HIDE DEF starting
    <3> QED
      BY <2>1, TheSlots, FS_Subset
  <2> QED
    BY <2>2, TheSlots, EnoughHandles, FS_CardinalityType
<1>3. \A s \in starting : Nth(s) \in FreeHandles
  BY <1>2, NthFreeIs
<1>4. \A s, r \in starting : s # r => Nth(s) # Nth(r)
  <2>1. ASSUME NEW s \in starting, NEW r \in starting, r < s
        PROVE  Nth(s) # Nth(r)
    <3> DEFINE S == {q \in starting : q < s}
               R == {q \in starting : q < r}
    <3>1. R \subseteq S /\ r \in S \ R
      <4>1. \A q \in starting : q \in Nat
        BY TheSlots
      <4> QED
        BY <2>1, <4>1
    <3>2. IsFiniteSet(S) /\ Cardinality(S) \in Nat /\ Cardinality(R) \in Nat
      BY <1>2
    <3>3. Cardinality(R) # Cardinality(S)
      <4> HIDE DEF R, S
      <4> QED
        BY <3>1, <3>2, FS_Subset
    <3>4. /\ Cardinality(Below(FreeHandles, Nth(s))) = Cardinality(S)
          /\ Cardinality(Below(FreeHandles, Nth(r))) = Cardinality(R)
      BY <1>2, NthFreeIs
    <3> QED
      BY <3>3, <3>4
  <2>2. \A s, r \in starting : s # r => s < r \/ r < s
    BY TheSlots
  <2> QED
    BY <2>1, <2>2
<1>5. /\ slots \in [Slots -> Slot]
      /\ \A s \in Slots : slots[s].handle \in Handles \cup {NoHandle}
  BY DEF SoundInv, AudioTypeOK, Slot
<1>6. /\ FreeHandles \subseteq Handles
      /\ \A s \in Slots : slots[s].handle \notin FreeHandles
      /\ NoHandle \notin FreeHandles
  BY DEF FreeHandles, Handles, NoHandle
<1> HIDE DEF Nth
<1>7. \A s \in Slots : /\ s \in heard => h[s] = Nth(s)
                       /\ s \in starting \ heard => h[s] = NoHandle
                       /\ s \notin starting => h[s] = slots[s].handle
  BY <1>1
<1>8. h \in [Slots -> Handles \cup {NoHandle}]
  BY <1>1, <1>3, <1>5, <1>6
<1>9. \A s, r \in Slots : s # r /\ h[s] # NoHandle => h[s] # h[r]
  BY <1>3, <1>4, <1>5, <1>6, <1>7 DEF SoundInv, Distinct
<1> QED
  BY <1>3, <1>7, <1>8, <1>9

(***************************************************************************)
(* A voice in use plays an effect at that effect's volume.                 *)
(***************************************************************************)
VolumeInv ==
  \A v \in Voices : Used(v) => /\ slots[v].sound \in Effects
                               /\ slots[v].volume = EffectVolume[slots[v].sound]

AudioInv == SoundInv /\ VolumeInv

LEMMA AudioStart == AudioInit => AudioInv
<1> SUFFICES ASSUME AudioInit PROVE AudioInv
  OBVIOUS
<1>1. slots \in [Slots -> Slot]
  BY DEF AudioInit, Slot, Volumes
<1>2. \A s \in Slots : slots[s].handle = NoHandle /\ ~Used(s)
  BY DEF AudioInit, Used
<1>3. Voices \subseteq Slots
  BY DEF Slots
<1> QED
  BY <1>1, <1>2, <1>3 DEF AudioInit, AudioInv, SoundInv, AudioTypeOK, Owned, Distinct, VolumeInv

(***************************************************************************)
(* The shape of every operation that gives no handle: a slot keeps its     *)
(* handle, and stays an owner as long as its sound is heard.               *)
(***************************************************************************)
LEMMA SameHandles ==
  ASSUME SoundInv, slots' \in [Slots -> Slot],
         sounding' \subseteq sounding, fading' \subseteq sounding',
         \A s \in Slots : /\ slots'[s].handle = slots[s].handle
                          /\ Used(s) /\ ~Starts(s) /\ slots[s].handle \in sounding'
                               => Used(s)' /\ ~Starts(s)'
  PROVE  SoundInv'
<1>1. AudioTypeOK'
  BY DEF SoundInv, AudioTypeOK
<1>2. Owned'
  BY DEF SoundInv, Owned
<1>3. Distinct'
  BY DEF SoundInv, Distinct
<1> QED
  BY <1>1, <1>2, <1>3 DEF SoundInv

LEMMA AudioUpdateKeeps ==
  ASSUME AudioInv, AudioUpdate
  PROVE  AudioInv'
<1>1. PICK h \in NewHandles :
        LET on == sounding \cup {h[s] : s \in {r \in Slots : Starts(r)}}
            cut == {h[s] : s \in {v \in Voices : Stops(v)}}
            heard == on \ (cut \cup {NoHandle})
        IN /\ sounding' = heard
           /\ fading' = (fading \cup {h[c] : c \in {d \in Channels : Stops(d)}}) \cap heard
           /\ slots' = [s \in Slots |->
                [slots[s] EXCEPT !.handle = h[s],
                                 !.flags = IF Used(s) /\ h[s] \in heard THEN {"used"} ELSE {}]]
  BY DEF AudioUpdate
<1>2. /\ sounding' \subseteq (sounding \cup {h[s] : s \in {r \in Slots : Starts(r)}}) \ {NoHandle}
      /\ fading' \subseteq sounding'
  BY <1>1
<1>3. slots' = [s \in Slots |->
                 [slots[s] EXCEPT !.handle = h[s],
                                  !.flags = IF Used(s) /\ h[s] \in sounding'
                                              THEN {"used"} ELSE {}]]
  BY <1>1
<1>4. /\ h \in [Slots -> Handles \cup {NoHandle}]
      /\ \A s \in Slots : ~Starts(s) => h[s] = slots[s].handle
      /\ \A s, r \in Slots : s # r /\ h[s] # NoHandle => h[s] # h[r]
  BY NewHandlesAre DEF AudioInv
<1>5. slots \in [Slots -> Slot] /\ sounding \subseteq Handles
  BY DEF AudioInv, SoundInv, AudioTypeOK
<1>6. \A s \in Slots : /\ slots'[s] \in Slot
                       /\ slots'[s].handle = h[s]
                       /\ slots'[s].flags = IF Used(s) /\ h[s] \in sounding' THEN {"used"} ELSE {}
                       /\ slots'[s].sound = slots[s].sound
                       /\ slots'[s].volume = slots[s].volume
  <2> TAKE s \in Slots
  <2> DEFINE flags == IF Used(s) /\ h[s] \in sounding' THEN {"used"} ELSE {}
  <2>1. slots[s] \in Slot /\ h[s] \in Handles \cup {NoHandle}
    BY <1>4, <1>5
  <2>2. flags \in SUBSET {"used", "start", "stop"}
    OBVIOUS
  <2>3. slots'[s] = [slots[s] EXCEPT !.handle = h[s], !.flags = flags]
    BY <1>3
  <2> HIDE DEF flags
  <2>4. /\ slots'[s] \in Slot /\ slots'[s].handle = h[s] /\ slots'[s].flags = flags
        /\ slots'[s].sound = slots[s].sound /\ slots'[s].volume = slots[s].volume
    BY <2>1, <2>2, <2>3 DEF Slot
  <2> QED
    BY <2>4 DEF flags
<1>7. AudioTypeOK'
  <2>1. slots' \in [Slots -> Slot]
    BY <1>3, <1>6
  <2>2. sounding' \subseteq Handles
    BY <1>2, <1>4, <1>5
  <2> QED
    BY <1>2, <2>1, <2>2 DEF AudioTypeOK
<1>8. Owned'
  <2> SUFFICES ASSUME NEW g \in sounding'
               PROVE  \E s \in Slots : Used(s)' /\ ~Starts(s)' /\ slots'[s].handle = g
    BY DEF Owned
  <2>1. \E s \in Slots : Used(s) /\ h[s] = g
    BY <1>2, <1>4 DEF AudioInv, SoundInv, Owned, Starts
  <2>2. PICK s \in Slots : Used(s) /\ h[s] = g
    BY <2>1
  <2>3. slots'[s].flags = {"used"} /\ slots'[s].handle = g
    BY <1>6, <2>2
  <2> QED
    BY <2>3 DEF Used, Starts
<1>9. Distinct'
  BY <1>4, <1>6 DEF Distinct
<1>10. VolumeInv'
  <2>1. \A v \in Voices : v \in Slots /\ (Used(v)' => Used(v))
    BY <1>6 DEF Used, Slots
  <2> QED
    BY <1>6, <2>1 DEF AudioInv, VolumeInv
<1> QED
  BY <1>7, <1>8, <1>9, <1>10 DEF AudioInv, SoundInv

LEMMA SoundEndsKeeps ==
  ASSUME AudioInv, NEW h, SoundEnds(h)
  PROVE  AudioInv'
<1>1. /\ slots' = slots /\ sounding' \subseteq sounding /\ fading' \subseteq sounding'
      /\ slots' \in [Slots -> Slot]
  BY DEF SoundEnds, AudioInv, SoundInv, AudioTypeOK
<1>2. SoundInv'
  <2>1. \A s \in Slots : (Used(s)' <=> Used(s)) /\ (Starts(s)' <=> Starts(s))
    BY <1>1 DEF Used, Starts
  <2> QED
    BY <1>1, <2>1, SameHandles DEF AudioInv
<1>3. VolumeInv'
  BY <1>1 DEF AudioInv, VolumeInv, Used
<1> QED
  BY <1>2, <1>3 DEF AudioInv

LEMMA ChannelInitKeeps ==
  ASSUME AudioInv, NEW c \in Channels, NEW music \in Bgm \cup Effects,
         AudioChannelInit(c, music), UNCHANGED <<sounding, fading>>
  PROVE  AudioInv'
<1>0. slots \in [Slots -> Slot] /\ c \in Slots /\ sounding' = sounding /\ fading' \subseteq sounding'
  BY TheSlots DEF AudioInv, SoundInv, AudioTypeOK
<1>1. CASE Used(c)
  <2>1. UNCHANGED slots
    BY <1>1 DEF AudioChannelInit
  <2> QED
    BY <1>0, <2>1, SameHandles DEF AudioInv, VolumeInv, Used, Starts
<1>2. CASE ~Used(c)
  <2> DEFINE new == [[slots[c] EXCEPT !.flags = {"used", "start"}] EXCEPT !.sound = music]
  <2>1. slots' = [slots EXCEPT ![c] = new]
    BY <1>0, <1>2 DEF AudioChannelInit
  <2>2. new \in Slot /\ new.handle = slots[c].handle
    BY <1>0 DEF Slot
  <2> HIDE DEF new
  <2>3. slots' \in [Slots -> Slot]
    BY <1>0, <2>1, <2>2
  <2>4. \A s \in Slots : slots'[s].handle = slots[s].handle /\ (s # c => slots'[s] = slots[s])
    BY <1>0, <2>1, <2>2
  <2>5. SoundInv'
    BY <1>0, <1>2, <2>3, <2>4, SameHandles DEF AudioInv, Used, Starts
  <2>6. VolumeInv'
    <3>1. \A v \in Voices : slots'[v] = slots[v]
      BY <2>4, TheSlots
    <3> QED
      BY <3>1 DEF AudioInv, VolumeInv, Used
  <2> QED
    BY <2>5, <2>6 DEF AudioInv
<1> QED
  BY <1>1, <1>2

LEMMA ChannelSetSpeedKeeps ==
  ASSUME AudioInv, NEW c \in Channels, AudioChannelSetSpeed(c), UNCHANGED <<sounding, fading>>
  PROVE  AudioInv'
<1>0. slots \in [Slots -> Slot] /\ c \in Slots /\ sounding' = sounding /\ fading' \subseteq sounding'
  BY TheSlots DEF AudioInv, SoundInv, AudioTypeOK
<1>1. CASE ~Used(c)
  <2>1. UNCHANGED slots
    BY <1>1 DEF AudioChannelSetSpeed
  <2> QED
    BY <1>0, <2>1, SameHandles DEF AudioInv, VolumeInv, Used, Starts
<1>2. CASE Used(c)
  <2> DEFINE new == [slots[c] EXCEPT !.flags = @ \cup {"stop"}]
  <2>1. slots' = [slots EXCEPT ![c] = new]
    BY <1>0, <1>2 DEF AudioChannelSetSpeed
  <2>2. /\ new \in Slot /\ new.handle = slots[c].handle
        /\ new.flags = slots[c].flags \cup {"stop"}
    BY <1>0 DEF Slot
  <2> HIDE DEF new
  <2>3. slots' \in [Slots -> Slot]
    BY <1>0, <2>1, <2>2
  <2>4. \A s \in Slots : slots'[s].handle = slots[s].handle /\ (s # c => slots'[s] = slots[s])
    BY <1>0, <2>1, <2>2
  <2>5. \A s \in Slots : (Used(s)' <=> Used(s)) /\ (Starts(s)' <=> Starts(s))
    BY <1>0, <2>1, <2>2, <2>4 DEF Used, Starts
  <2>6. SoundInv'
    BY <1>0, <2>3, <2>4, <2>5, SameHandles DEF AudioInv
  <2>7. VolumeInv'
    <3>1. \A v \in Voices : slots'[v] = slots[v]
      BY <2>4, TheSlots
    <3> QED
      BY <3>1 DEF AudioInv, VolumeInv, Used
  <2> QED
    BY <2>6, <2>7 DEF AudioInv
<1> QED
  BY <1>1, <1>2

\* Only the sound of the channel itself is cut: no other slot holds its handle.
LEMMA ChannelStopKeeps ==
  ASSUME AudioInv, NEW c \in Channels, AudioChannelStop(c)
  PROVE  AudioInv'
<1>0. /\ slots \in [Slots -> Slot] /\ c \in Slots /\ fading \subseteq sounding
      /\ sounding \subseteq Handles
  BY TheSlots DEF AudioInv, SoundInv, AudioTypeOK
<1>1. CASE ~Used(c)
  <2>1. UNCHANGED audio
    BY <1>1 DEF AudioChannelStop
  <2> QED
    BY <1>0, <2>1, SameHandles DEF AudioInv, VolumeInv, Used, Starts, audio
<1>2. CASE Used(c)
  <2> DEFINE new == [slots[c] EXCEPT !.flags = {}]
  <2>1. /\ slots' = [slots EXCEPT ![c] = new]
        /\ sounding' = sounding \ {slots[c].handle} /\ fading' = fading \ {slots[c].handle}
    BY <1>0, <1>2 DEF AudioChannelStop
  <2>2. new \in Slot /\ new.handle = slots[c].handle
    BY <1>0 DEF Slot
  <2> HIDE DEF new
  <2>3. slots' \in [Slots -> Slot]
    BY <1>0, <2>1, <2>2
  <2>4. \A s \in Slots : slots'[s].handle = slots[s].handle /\ (s # c => slots'[s] = slots[s])
    BY <1>0, <2>1, <2>2
  <2>5. SoundInv'
    <3>1. \A s \in Slots : slots[s].handle \in sounding' => s # c
      BY <2>1
    <3> QED
      BY <1>0, <2>1, <2>3, <2>4, <3>1, SameHandles DEF AudioInv, Used, Starts
  <2>6. VolumeInv'
    <3>1. \A v \in Voices : slots'[v] = slots[v]
      BY <2>4, TheSlots
    <3> QED
      BY <3>1 DEF AudioInv, VolumeInv, Used
  <2> QED
    BY <2>5, <2>6 DEF AudioInv
<1> QED
  BY <1>1, <1>2

\* The first free voice, or none: a voice that is in use is not touched.
LEMMA VoiceAllocated ==
  ASSUME AudioInv, NEW e \in Effects
  PROVE  LET sl == AudioVoiceAllocate(slots, e)
         IN /\ sl \in [Slots -> Slot]
            /\ \A s \in Slots : /\ sl[s].handle = slots[s].handle
                                /\ Used(s) => sl[s] = slots[s]
                                /\ sl[s] = slots[s] \/ sl[s].sound = e
<1> DEFINE sl == AudioVoiceAllocate(slots, e)
<1>0. slots \in [Slots -> Slot] /\ FreeVoices \subseteq Nat /\ Voices \subseteq Slots
  BY TheSlots DEF AudioInv, SoundInv, AudioTypeOK, FreeVoices
<1>1. CASE FreeVoices = {}
  <2>1. sl = slots
    BY <1>1 DEF AudioVoiceAllocate
  <2> QED
    BY <1>0, <2>1
<1>2. CASE FreeVoices # {}
  <2> DEFINE v == CHOOSE w \in FreeVoices : \A x \in FreeVoices : w <= x
             new == [[slots[v] EXCEPT !.flags = {"used", "start"}] EXCEPT !.sound = e]
  <2>1. v \in FreeVoices
    BY <1>0, <1>2, LeastNumber
  <2> HIDE DEF v
  <2>2. v \in Slots /\ ~Used(v)
    BY <1>0, <2>1 DEF FreeVoices
  <2>3. sl = [slots EXCEPT ![v] = new]
    <3>1. sl = [slots EXCEPT ![v].flags = {"used", "start"}, ![v].sound = e]
      BY <1>2 DEF AudioVoiceAllocate, v
    <3> HIDE DEF sl
    <3> QED
      BY <1>0, <2>2, <3>1
  <2>4. new \in Slot /\ new.handle = slots[v].handle /\ new.sound = e
    BY <1>0, <2>2 DEF Slot
  <2> HIDE DEF new, sl
  <2>5. sl \in [Slots -> Slot]
    BY <1>0, <2>3, <2>4
  <2>6. sl[v] = new /\ \A s \in Slots \ {v} : sl[s] = slots[s]
    BY <1>0, <2>2, <2>3
  <2>7. \A s \in Slots : /\ sl[s].handle = slots[s].handle
                         /\ Used(s) => sl[s] = slots[s]
                         /\ sl[s] = slots[s] \/ sl[s].sound = e
    BY <2>2, <2>4, <2>6
  <2> QED
    BY <2>5, <2>7 DEF sl
<1> QED
  BY <1>1, <1>2

LEMMA PlayEffectKeeps ==
  ASSUME AudioInv, NEW e \in Effects, SoundPlayEffect(e)
  PROVE  AudioInv'
<1>0. /\ slots \in [Slots -> Slot] /\ sounding' = sounding /\ fading' = fading
      /\ fading' \subseteq sounding' /\ Voices \subseteq Slots
  BY DEF AudioInv, SoundInv, AudioTypeOK, SoundPlayEffect, Slots
<1>1. CASE EffectChannel[e] # AnyVoice
  <2>1. EffectChannel[e] \in Channels /\ AudioChannelInit(EffectChannel[e], e)
    BY <1>1, AudioConstants DEF SoundPlayEffect
  <2> QED
    BY <1>0, <2>1, ChannelInitKeeps
<1>2. CASE EffectChannel[e] = AnyVoice
  <2> DEFINE sl == AudioVoiceAllocate(slots, e)
  <2>1. /\ sl \in [Slots -> Slot]
        /\ \A s \in Slots : /\ sl[s].handle = slots[s].handle
                            /\ Used(s) => sl[s] = slots[s]
                            /\ sl[s] = slots[s] \/ sl[s].sound = e
    BY VoiceAllocated
  <2>2. slots' = AudioVoiceSetVolume(sl, e, EffectVolume[e])
    BY <1>2 DEF SoundPlayEffect
  <2> HIDE DEF sl
  <2>3. slots' = [s \in Slots |-> IF s \in Playing(sl, e)
                                   THEN [sl[s] EXCEPT !.volume = EffectVolume[e]] ELSE sl[s]]
    BY <2>2 DEF AudioVoiceSetVolume
  <2>4. \A s \in Slots : LET loud == [sl[s] EXCEPT !.volume = EffectVolume[e]]
                       IN /\ loud \in Slot /\ loud.handle = sl[s].handle
                          /\ loud.flags = sl[s].flags /\ loud.sound = sl[s].sound
                          /\ loud.volume = EffectVolume[e]
    <3>1. EffectVolume[e] \in Volumes
      BY DEF Volumes
    <3> QED
      BY <2>1, <3>1 DEF Slot
  <2>5. \A s \in Slots : /\ slots'[s] \in Slot
                         /\ slots'[s].handle = sl[s].handle
                         /\ slots'[s].flags = sl[s].flags
                         /\ slots'[s].sound = sl[s].sound
                         /\ slots'[s].volume = IF s \in Playing(sl, e) THEN EffectVolume[e]
                                               ELSE sl[s].volume
    BY <2>1, <2>3, <2>4
  <2>6. slots' \in [Slots -> Slot]
    BY <2>3, <2>5
  <2>7. SoundInv'
    <3>1. \A s \in Slots : /\ slots'[s].handle = slots[s].handle
                           /\ Used(s) /\ ~Starts(s) => Used(s)' /\ ~Starts(s)'
      BY <2>1, <2>5 DEF Used, Starts
    <3> QED
      BY <1>0, <2>6, <3>1, SameHandles DEF AudioInv
  <2>8. VolumeInv'
    <3> SUFFICES ASSUME NEW v \in Voices, Used(v)'
                 PROVE  /\ slots'[v].sound \in Effects
                        /\ slots'[v].volume = EffectVolume[slots'[v].sound]
      BY DEF VolumeInv
    <3>0. v \in Slots /\ "used" \in sl[v].flags
      BY <1>0, <2>5 DEF Used
    <3>1. CASE sl[v].sound = e
      <4>1. v \in Playing(sl, e)
        BY <3>0, <3>1 DEF Playing
      <4> QED
        BY <2>5, <3>0, <3>1, <4>1
    <3>2. CASE sl[v].sound # e
      <4>1. v \notin Playing(sl, e) /\ sl[v] = slots[v] /\ Used(v)
        BY <2>1, <3>0, <3>2 DEF Playing, Used
      <4> QED
        BY <2>5, <3>0, <4>1 DEF AudioInv, VolumeInv
    <3> QED
      BY <3>1, <3>2
  <2> QED
    BY <2>7, <2>8 DEF AudioInv
<1> QED
  BY <1>1, <1>2

LEMMA VoiceStopKeeps ==
  ASSUME AudioInv, NEW e \in Effects, AudioVoiceStop(e)
  PROVE  AudioInv'
<1>0. /\ slots \in [Slots -> Slot] /\ sounding' = sounding /\ fading' \subseteq sounding'
      /\ Voices \subseteq Slots
  BY DEF AudioInv, SoundInv, AudioTypeOK, AudioVoiceStop, Slots
<1>1. slots' = [s \in Slots |-> IF s \in Playing(slots, e)
                                 THEN [slots[s] EXCEPT !.flags = @ \cup {"stop"}] ELSE slots[s]]
  BY DEF AudioVoiceStop
<1>2. \A s \in Slots : LET cut == [slots[s] EXCEPT !.flags = @ \cup {"stop"}]
                     IN /\ cut \in Slot /\ cut.handle = slots[s].handle
                        /\ cut.flags = slots[s].flags \cup {"stop"}
                        /\ cut.sound = slots[s].sound /\ cut.volume = slots[s].volume
  BY <1>0 DEF Slot
<1>3. \A s \in Slots : /\ slots'[s] \in Slot
                       /\ slots'[s].handle = slots[s].handle
                       /\ slots'[s].flags \in {slots[s].flags, slots[s].flags \cup {"stop"}}
                       /\ slots'[s].sound = slots[s].sound
                       /\ slots'[s].volume = slots[s].volume
  BY <1>0, <1>1, <1>2
<1>4. slots' \in [Slots -> Slot]
  BY <1>1, <1>3
<1>5. \A s \in Slots : (Used(s)' <=> Used(s)) /\ (Starts(s)' <=> Starts(s))
  BY <1>3 DEF Used, Starts
<1>6. SoundInv'
  BY <1>0, <1>3, <1>4, <1>5, SameHandles DEF AudioInv
<1>7. VolumeInv'
  BY <1>0, <1>3, <1>5 DEF AudioInv, VolumeInv
<1> QED
  BY <1>6, <1>7 DEF AudioInv

-----------------------------------------------------------------------------
(***************************************************************************)
(* The steps                                                               *)
(***************************************************************************)
ClockTypes ==
  /\ g_time_freeze_flag \in 0 .. SecondsPerMinute - 1
  /\ g_time_stop_flag \in 0 .. MinutesPerHour - 1 /\ g_hour_of_day \in 0 .. HoursPerDay - 1
  /\ evening \subseteq {15, 16, 17} /\ passes \in BOOLEAN

TimeInv == CalendarInv /\ ClockTypes /\ AudioInv

\* Midnight and the seconds and minutes that are carried stay on the clock's face.
LEMMA TimeAdvanceKeeps ==
  ASSUME CalendarInv, ClockTypes, TimeAdvance,
         evening' \subseteq {15, 16, 17}, passes' = passes
  PROVE  CalendarInv' /\ ClockTypes'
<1> DEFINE seconds == g_time_freeze_flag + SecondsStep
           more == IF DayBegins(seconds) THEN 1 ELSE 0
<1>1. more \in {0, 1} /\ AdvanceCalendar(more) /\ CountDays(more)
  BY DEF TimeAdvance
<1>2. CalendarInv'
  <2> HIDE DEF more
  <2> QED
    BY <1>1, CalendarStep
<1>3. ClockTypes'
  <2>1. {SecondsStep, SecondsPerMinute, MinutesPerHour, HoursPerDay} \subseteq Nat \ {0}
    BY TimeConstants
  <2>2. /\ g_time_freeze_flag' = IF seconds >= SecondsPerMinute THEN 0 ELSE seconds
        /\ g_time_stop_flag' = IF HourPasses(seconds) THEN 0 ELSE Minutes(seconds)
        /\ g_hour_of_day' = IF ~HourPasses(seconds) THEN g_hour_of_day
                            ELSE IF g_hour_of_day + 1 >= HoursPerDay THEN 0
                            ELSE g_hour_of_day + 1
    BY DEF TimeAdvance
  <2>3. g_time_freeze_flag' \in 0 .. SecondsPerMinute - 1
    BY <2>1, <2>2 DEF ClockTypes
  <2>4. g_time_stop_flag' \in 0 .. MinutesPerHour - 1
    BY <2>1, <2>2 DEF ClockTypes, HourPasses, Minutes
  <2>5. g_hour_of_day' \in 0 .. HoursPerDay - 1
    BY <2>1, <2>2 DEF ClockTypes
  <2> QED
    BY <2>3, <2>4, <2>5 DEF ClockTypes
<1> QED
  BY <1>2, <1>3

LEMMA ClockStarts ==
  /\ 0 \in 0 .. SecondsPerMinute - 1 /\ 0 \in 0 .. MinutesPerHour - 1
  /\ WakeHour \in 0 .. HoursPerDay - 1
<1>1. /\ SecondsPerMinute \in Nat \ {0} /\ MinutesPerHour \in Nat \ {0}
      /\ HoursPerDay \in Nat \ {0} /\ WakeHour \in Nat /\ EveningHour \in Nat
      /\ WakeHour < EveningHour /\ EveningHour < HoursPerDay
  BY TimeConstants
<1> QED
  BY <1>1

LEMMA TimeInit == Init => TimeInv
<1> SUFFICES ASSUME Init PROVE TimeInv
  OBVIOUS
<1>1. CalendarInv
  BY CalendarInit
<1>2. ClockTypes
  BY ClockStarts DEF Init, ClockTypes
<1>3. AudioInv
  BY AudioStart DEF Init
<1> QED
  BY <1>1, <1>2, <1>3 DEF TimeInv

\* Nothing but the clock and the player's sleep moves the calendar.
LEMMA CalendarStands == CalendarInv /\ UNCHANGED calendar => CalendarInv'
  BY DEF CalendarInv, CalendarTypes, Date, InWeek, Tomorrow, calendar

LEMMA ClockStands ==
  ClockTypes /\ UNCHANGED <<clock, passes>> /\ evening' \subseteq {15, 16, 17} => ClockTypes'
  BY DEF ClockTypes, clock

LEMMA AudioStands == AudioInv /\ UNCHANGED audio => AudioInv'
  BY DEF AudioInv, SoundInv, AudioTypeOK, Owned, Distinct, VolumeInv, Used, Starts, audio

LEMMA TimeUpdateKeeps == TimeInv /\ TimeUpdate => TimeInv'
<1> SUFFICES ASSUME TimeInv, TimeUpdate PROVE TimeInv'
  OBVIOUS
<1>0. CalendarInv /\ ClockTypes /\ AudioInv /\ 0 \in Channels
  BY TheSlots DEF TimeInv
<1>1. UNCHANGED <<sounding, fading>> /\ passes' = passes
  BY DEF TimeUpdate
<1>2. AudioInv'
  <2>1. \/ AudioChannelSetSpeed(0) \/ AudioChannelInit(0, Night) \/ UNCHANGED slots
    BY DEF TimeUpdate, FadeAtDusk, PlayNight, FadeAtNight
  <2>2. ASSUME AudioChannelSetSpeed(0) PROVE AudioInv'
    BY <1>0, <1>1, <2>2, ChannelSetSpeedKeeps
  <2>3. ASSUME AudioChannelInit(0, Night) PROVE AudioInv'
    <3>1. Night \in Bgm \cup Effects
      BY TimeConstants
    <3> QED
      BY <1>0, <1>1, <2>3, <3>1, ChannelInitKeeps
  <2>4. ASSUME UNCHANGED slots PROVE AudioInv'
    BY <1>0, <1>1, <2>4, AudioStands DEF audio
  <2> QED
    BY <2>1, <2>2, <2>3, <2>4
<1>3. evening' \subseteq {15, 16, 17}
  BY <1>0 DEF TimeUpdate, FadeAtDusk, PlayNight, FadeAtNight, ClockTypes
<1>4. CASE passes
  BY <1>0, <1>1, <1>2, <1>3, <1>4, TimeAdvanceKeeps DEF TimeUpdate, TimeInv
<1>5. CASE ~passes
  BY <1>0, <1>1, <1>2, <1>3, <1>5, CalendarStands, ClockStands DEF TimeUpdate, TimeInv
<1> QED
  BY <1>4, <1>5

LEMMA TimeSleepKeeps == TimeInv /\ TimeSleep => TimeInv'
<1> SUFFICES ASSUME TimeInv, TimeSleep PROVE TimeInv'
  OBVIOUS
<1>1. CalendarInv'
  <2>1. AdvanceCalendar(1) /\ CountDays(1) /\ 1 \in {0, 1}
    BY DEF TimeSleep
  <2> QED
    BY <2>1, CalendarStep DEF TimeInv
<1>2. ClockTypes'
  BY ClockStarts DEF TimeSleep, TimeInv, ClockTypes
<1>3. AudioInv'
  BY AudioStands DEF TimeSleep, TimeInv
<1> QED
  BY <1>1, <1>2, <1>3 DEF TimeInv

LEMMA PlaySoundsKeeps == TimeInv /\ PlaySounds => TimeInv'
<1> SUFFICES ASSUME TimeInv, PlaySounds PROVE TimeInv'
  OBVIOUS
<1>0. CalendarInv /\ ClockTypes /\ AudioInv /\ 0 \in Channels
  BY TheSlots DEF TimeInv
<1>1. CalendarInv' /\ ClockTypes'
  BY <1>0, CalendarStands, ClockStands DEF PlaySounds, ClockTypes
<1>2. ASSUME NEW music \in Bgm, SoundPlayBgm(music) PROVE AudioInv'
  BY <1>0, <1>2, ChannelInitKeeps DEF SoundPlayBgm
<1>3. ASSUME SoundFadeBgm PROVE AudioInv'
  BY <1>0, <1>3, ChannelSetSpeedKeeps DEF SoundFadeBgm
<1>4. ASSUME SoundStopBgm PROVE AudioInv'
  BY <1>0, <1>4, ChannelStopKeeps DEF SoundStopBgm
<1>5. ASSUME NEW e \in Effects, SoundPlayEffect(e) PROVE AudioInv'
  BY <1>0, <1>5, PlayEffectKeeps
<1>6. ASSUME NEW e \in Effects, AudioVoiceStop(e) PROVE AudioInv'
  BY <1>0, <1>6, VoiceStopKeeps
<1> QED
  BY <1>1, <1>2, <1>3, <1>4, <1>5, <1>6 DEF PlaySounds, TimeInv

LEMMA TimeStep == TimeInv /\ [Next]_vars => TimeInv'
<1> SUFFICES ASSUME TimeInv, [Next]_vars PROVE TimeInv'
  OBVIOUS
<1>0. CalendarInv /\ ClockTypes /\ AudioInv
  BY DEF TimeInv
<1>1. ASSUME Sound, AudioInv' PROVE TimeInv'
  BY <1>0, <1>1, CalendarStands, ClockStands DEF Sound, TimeInv, ClockTypes
<1>2. CASE TimeUpdate
  BY <1>2, TimeUpdateKeeps
<1>3. CASE passes /\ TimeSleep
  BY <1>3, TimeSleepKeeps
<1>4. CASE ClearEvening
  BY <1>0, <1>4, CalendarStands, ClockStands, AudioStands DEF ClearEvening, TimeInv
<1>5. CASE PlaySounds
  BY <1>5, PlaySoundsKeeps
<1>6. CASE Frame
  BY <1>0, <1>1, <1>6, AudioUpdateKeeps DEF Frame
<1>7. CASE Library
  BY <1>0, <1>1, <1>7, SoundEndsKeeps DEF Library, FadeEnds, SequenceEnds
<1>8. CASE UNCHANGED vars
  <2>1. UNCHANGED audio /\ Sound
    BY <1>8 DEF vars, Sound
  <2> QED
    BY <1>0, <1>1, <2>1, AudioStands
<1> QED
  BY <1>2, <1>3, <1>4, <1>5, <1>6, <1>7, <1>8 DEF Next

\* The invariant of the whole: calendar, clock and sounds.
THEOREM TimeInvariance == Spec => []TimeInv
<1> QED
  BY TimeInit, TimeStep, PTL DEF Spec

\* Every variable keeps its type: the clock never shows a sixtieth minute or a
\* twenty-fifth hour, and the calendar no day past its season's last.
THEOREM TypeCorrect == Spec => []TypeOK
<1>1. TimeInv => TypeOK
  <2> SUFFICES ASSUME TimeInv PROVE TypeOK
    OBVIOUS
  <2>1. SeasonsPerYear \in Nat \ {0}
    BY TimeConstants
  <2>2. g_time_tick_counter \in 1 .. SeasonsPerYear
    BY <2>1 DEF TimeInv, CalendarInv, CalendarTypes, Tomorrow
  <2> QED
    BY <2>2 DEF TimeInv, CalendarInv, CalendarTypes, ClockTypes, AudioInv, SoundInv, TypeOK
<1> QED
  BY <1>1, TimeInvariance, PTL

\* The day of the week, the date, the season, the year and the season of tomorrow that
\* time.c keeps apart all count the same days, for every length of week, season and year.
THEOREM CalendarHolds == Spec => []CalendarAgrees
<1>1. TimeInv => CalendarAgrees
  BY CalendarShows DEF TimeInv
<1> QED
  BY <1>1, TimeInvariance, PTL

\* Every sound heard belongs to exactly one slot that is in use and has started it,
\* whatever order audio.c's calls, the frames and the library's own endings come in.
THEOREM EverySoundOwned == Spec => []SoundsAreOwned
<1>1. TimeInv => SoundsAreOwned
  <2> SUFFICES ASSUME TimeInv, NEW g \in sounding PROVE Cardinality(Owners(g)) = 1
    BY DEF SoundsAreOwned
  <2>1. PICK s \in Slots : Used(s) /\ ~Starts(s) /\ slots[s].handle = g
    BY DEF TimeInv, AudioInv, SoundInv, Owned
  <2>2. g # NoHandle
    BY DEF TimeInv, AudioInv, SoundInv, AudioTypeOK, Handles, NoHandle
  <2>3. Owners(g) = {s}
    BY <2>1, <2>2 DEF TimeInv, AudioInv, SoundInv, Distinct, Owners
  <2> QED
    BY <2>3, FS_Singleton
<1> QED
  BY <1>1, TimeInvariance, PTL

\* A voice in use plays at the volume of its own effect, not of the one before.
THEOREM VolumeIsOwn == Spec => []OwnVolume
<1>1. TimeInv => OwnVolume
  BY DEF TimeInv, AudioInv, VolumeInv, OwnVolume
<1> QED
  BY <1>1, TimeInvariance, PTL

\* In the step that takes the evening's music for started, it starts: PlayNight waits
\* for a channel that AudioChannelInit does not refuse.
THEOREM EveningMusic == Spec => NightMusicStarts
<1>1. TimeInv /\ [Next]_vars
        => [16 \in evening' \ evening => slots'[0].sound = Night /\ Starts(0)']_vars
  <2> SUFFICES ASSUME TimeInv, [Next]_vars, 16 \in evening' \ evening
               PROVE  slots'[0].sound = Night /\ Starts(0)'
    OBVIOUS
  <2>1. TimeUpdate
    BY DEF Next, vars, TimeSleep, ClearEvening, PlaySounds, Frame, Library, Sound
  <2>2. SoundIsBgmStopped /\ AudioChannelInit(0, Night)
    BY <2>1 DEF TimeUpdate, FadeAtDusk, PlayNight, FadeAtNight
  <2>3. slots \in [Slots -> Slot] /\ 0 \in Slots
    BY TheSlots DEF TimeInv, AudioInv, SoundInv, AudioTypeOK
  <2>4. slots' = [slots EXCEPT ![0].flags = {"used", "start"}, ![0].sound = Night]
    BY <2>2 DEF SoundIsBgmStopped, AudioChannelInit, Used
  <2>5. slots'[0].sound = Night /\ slots'[0].flags = {"used", "start"}
    BY <2>3, <2>4 DEF Slot
  <2> QED
    BY <2>5 DEF Starts, Used
<1> QED
  BY <1>1, TimeInvariance, PTL DEF Spec, NightMusicStarts
=============================================================================
