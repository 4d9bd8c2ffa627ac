------------------------------ MODULE GameTime ------------------------------
(***************************************************************************)
(* The clock and calendar of harvest-moon-64 (time.c) and the music it     *)
(* changes in the evening, over the channels of GameAudio.  A frame calls  *)
(* the game's own code, which updates the time, plays sounds and puts the  *)
(* player to bed in any order, and then AudioUpdate.  Left out: the date   *)
(* shown on the screen, and the event flags cleared with the year and the  *)
(* season, which only assembly reads.                                      *)
(***************************************************************************)
EXTENDS GameAudio

CONSTANTS
  SecondsStep, SecondsPerMinute,    \* 0xA and 0x3C
  MinutesPerHour, HoursPerDay,      \* 0x3C and 0x18
  WakeHour, EveningHour,            \* 6 and 0x12
  DaysPerWeek, DaysPerSeason, SeasonsPerYear,    \* 7, 30 and 4
  LastYear,                         \* 0x63
  Day, Night                        \* tracks: the music of a map by the hour

YearLength == DaysPerSeason * SeasonsPerYear
Horizon == YearLength * (LastYear + DaysPerWeek)    \* bound: the days counted

ASSUME TimeConstants ==
  /\ {SecondsStep, SecondsPerMinute, MinutesPerHour, HoursPerDay, DaysPerWeek,
      DaysPerSeason, SeasonsPerYear, LastYear, WakeHour, EveningHour} \subseteq Nat \ {0}
  /\ WakeHour < EveningHour /\ EveningHour < HoursPerDay
  /\ DaysPerSeason > 1
  /\ {Day, Night} \subseteq Bgm /\ Day # Night

VARIABLES
  g_time_freeze_flag, g_time_stop_flag, g_hour_of_day,    \* seconds, minutes, hours
  g_total_days,           \* day of the week
  g_day_of_month, g_season,
  g_time_counter,         \* year
  g_time_tick_counter,    \* season of tomorrow
  evening,                \* event flags 0xF, 0x10, 0x11 of the day that are set
  passes,                 \* time passes where the player is; fixed in a behaviour
  days                    \* history: days begun

clock == <<g_time_freeze_flag, g_time_stop_flag, g_hour_of_day>>
calendar == <<g_total_days, g_day_of_month, g_season, g_time_counter, g_time_tick_counter,
              days>>
vars == <<audio, clock, calendar, evening, passes>>

TypeOK ==
  /\ AudioTypeOK
  /\ g_time_freeze_flag \in 0 .. SecondsPerMinute - 1
  /\ g_time_stop_flag \in 0 .. MinutesPerHour - 1 /\ g_hour_of_day \in 0 .. HoursPerDay - 1
  /\ g_total_days \in 0 .. DaysPerWeek - 1 /\ g_day_of_month \in 1 .. DaysPerSeason
  /\ {g_season, g_time_tick_counter} \subseteq 1 .. SeasonsPerYear
  /\ g_time_counter \in 0 .. LastYear
  /\ evening \subseteq {15, 16, 17} /\ passes \in BOOLEAN /\ days \in 0 .. Horizon - 1

Init ==
  /\ AudioInit
  /\ g_time_freeze_flag = 0 /\ g_time_stop_flag = 0 /\ g_hour_of_day = WakeHour
  /\ g_total_days = 0 /\ g_day_of_month = 1 /\ g_season = 1 /\ g_time_counter = 0
  /\ g_time_tick_counter = 1
  /\ evening = {} /\ passes \in BOOLEAN /\ days = 0

(***************************************************************************)
(* TimeAdvance(seconds): the clock, then the calendar it carries into.     *)
(***************************************************************************)
Minutes(seconds) == g_time_stop_flag + (IF seconds >= SecondsPerMinute THEN 1 ELSE 0)
HourPasses(seconds) == Minutes(seconds) >= MinutesPerHour
DayBegins(seconds) == HourPasses(seconds) /\ g_hour_of_day + 1 = WakeHour

\* The days counted go back to the beginning of the last year, by DaysPerWeek years: a
\* whole number of weeks, whether or not a year is one.
CountDays(more) ==
  days' = IF days + more = Horizon THEN YearLength * LastYear ELSE days + more

\* fault: the season of tomorrow is looked up a day late
FaultCalendar(more) ==
  LET day == g_day_of_month + more
      over == day > DaysPerSeason
      date == IF over THEN 1 ELSE day
      season == IF over THEN g_season + 1 ELSE g_season
      year == IF season > SeasonsPerYear THEN g_time_counter + 1 ELSE g_time_counter
      this == IF season > SeasonsPerYear THEN 1 ELSE season
  IN /\ g_total_days' = IF g_total_days + more >= DaysPerWeek THEN 0 ELSE g_total_days + more
     /\ g_day_of_month' = date /\ g_season' = this
     /\ g_time_counter' = IF year > LastYear THEN LastYear ELSE year
     /\ g_time_tick_counter' = this

\* The calendar with `more` days begun; the year stands still at LastYear.
AdvanceCalendar(more) ==
  LET day == g_day_of_month + more
      over == day > DaysPerSeason
      date == IF over THEN 1 ELSE day
      season == IF over THEN g_season + 1 ELSE g_season
      year == IF season > SeasonsPerYear THEN g_time_counter + 1 ELSE g_time_counter
      this == IF season > SeasonsPerYear THEN 1 ELSE season
      next == IF date + 1 > DaysPerSeason THEN this + 1 ELSE this
  IN /\ g_total_days' = IF g_total_days + more >= DaysPerWeek THEN 0 ELSE g_total_days + more
     /\ g_day_of_month' = date /\ g_season' = this
     /\ g_time_counter' = IF year > LastYear THEN LastYear ELSE year
     /\ g_time_tick_counter' = IF next > SeasonsPerYear THEN 1 ELSE next

TimeAdvance ==
  LET seconds == g_time_freeze_flag + SecondsStep
      more == IF DayBegins(seconds) THEN 1 ELSE 0
  IN /\ g_time_freeze_flag' = IF seconds >= SecondsPerMinute THEN 0 ELSE seconds
     /\ g_time_stop_flag' = IF HourPasses(seconds) THEN 0 ELSE Minutes(seconds)
     /\ g_hour_of_day' = IF ~HourPasses(seconds) THEN g_hour_of_day
                         ELSE IF g_hour_of_day + 1 >= HoursPerDay THEN 0 ELSE g_hour_of_day + 1
     /\ AdvanceCalendar(more) /\ CountDays(more)

\* fault: the calendar is left to the next dawn
FaultSleep ==
  /\ g_hour_of_day' = WakeHour /\ g_time_stop_flag' = 0 /\ g_time_freeze_flag' = 0
  /\ g_total_days' = (g_total_days + 1) % DaysPerWeek
  /\ UNCHANGED <<g_day_of_month, g_season, g_time_counter, g_time_tick_counter>>
  /\ CountDays(1) /\ UNCHANGED <<audio, evening, passes>>

TimeSleep ==
  /\ g_hour_of_day' = WakeHour /\ g_time_stop_flag' = 0 /\ g_time_freeze_flag' = 0
  /\ AdvanceCalendar(1) /\ CountDays(1)
  /\ UNCHANGED <<audio, evening, passes>>

(***************************************************************************)
(* TimeUpdate: time passes, and then the music goes by the new hour: the   *)
(* day's track is faded in the evening (0xF), the night's track starts     *)
(* when its channel is free (0x10), and fades again before dawn (0x11).    *)
(***************************************************************************)
IsEvening(hour) == hour \in EveningHour .. HoursPerDay - 1

FadeAtDusk(hour) ==
  /\ IsEvening(hour) /\ 15 \notin evening
  /\ AudioChannelSetSpeed(0) /\ evening' = evening \cup {15}

\* fault: the night's track does not wait for its channel
FaultPlayNight(hour) ==
  /\ IsEvening(hour) /\ 15 \in evening /\ 16 \notin evening
  /\ AudioChannelInit(0, Night) /\ evening' = evening \cup {16}

\* func_8006EA44 plays the track of the map and the hour.
PlayNight(hour) ==
  /\ IsEvening(hour) /\ 15 \in evening /\ 16 \notin evening /\ SoundIsBgmStopped
  /\ AudioChannelInit(0, Night) /\ evening' = evening \cup {16}

\* Outdoors, in ordinary weather.
FadeAtNight(hour) ==
  /\ hour < WakeHour /\ 17 \notin evening
  /\ AudioChannelSetSpeed(0) /\ evening' = evening \cup {17}

TimeUpdate ==
  /\ IF passes THEN TimeAdvance ELSE UNCHANGED <<clock, calendar>>
  /\ \/ FadeAtDusk(g_hour_of_day') \/ PlayNight(g_hour_of_day') \/ FadeAtNight(g_hour_of_day')
     \/ /\ ~IsEvening(g_hour_of_day') \/ 15 \in evening    \* a map may have no music
        /\ UNCHANGED <<slots, evening>>
  /\ UNCHANGED <<sounding, fading, passes>>

(***************************************************************************)
(* The rest of the game: assembly that calls these operations.             *)
(***************************************************************************)
ClearEvening ==
  /\ evening # {} /\ evening' = {}
  /\ UNCHANGED <<audio, clock, calendar, passes>>

\* Bound: the music is played while time passes and effects while it stands still.
PlaySounds ==
  /\ \/ passes /\ \E music \in Bgm : SoundPlayBgm(music)
     \/ passes /\ (SoundFadeBgm \/ SoundStopBgm)
     \/ ~passes /\ \E e \in Effects : SoundPlayEffect(e) \/ AudioVoiceStop(e)
  /\ UNCHANGED <<clock, calendar, evening, passes>>

Sound == UNCHANGED <<clock, calendar, evening, passes>>
Frame == AudioUpdate /\ Sound
Library == (FadeEnds \/ SequenceEnds) /\ Sound

Next == TimeUpdate \/ (passes /\ TimeSleep) \/ ClearEvening \/ PlaySounds \/ Frame \/ Library

\* Frames go on, see GameLoop, and the library finishes its fades.
Spec == Init /\ [][Next]_vars /\ WF_vars(Frame) /\ WF_vars(FadeEnds /\ Sound)

(***************************************************************************)
(* Properties                                                              *)
(***************************************************************************)
\* The day of the week, the date, the season, the year and the season of tomorrow all
\* count the same days, whether a day begins at WakeHour or with the player's sleep; only
\* the year stands still at LastYear.
CalendarAgrees ==
  /\ g_total_days = days % DaysPerWeek
  /\ g_day_of_month = (days % DaysPerSeason) + 1
  /\ g_season = ((days \div DaysPerSeason) % SeasonsPerYear) + 1
  /\ g_time_counter = IF days \div YearLength < LastYear THEN days \div YearLength ELSE LastYear
  /\ g_time_tick_counter = (((days + 1) \div DaysPerSeason) % SeasonsPerYear) + 1

\* When the evening's music is taken for started it is: AudioChannelInit refuses a
\* channel that another track still holds, and nobody would ask again that day.
NightMusicStarts ==
  [][16 \in evening' \ evening => slots'[0].sound = Night /\ Starts(0)']_vars
=============================================================================
