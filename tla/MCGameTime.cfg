SPECIFICATION Spec
CONSTANTS
  NumChannels = 2
  NumVoices = 2
  Bgm = {"day", "night"}
  Effects = {"door", "bell", "rain"}
  AnyVoice = 255
  EffectChannel <- MCEffectChannel
  EffectVolume <- MCEffectVolume
  NumHandles = 9
  SecondsStep = 1
  SecondsPerMinute = 2
  MinutesPerHour = 1
  HoursPerDay = 4
  WakeHour = 1
  EveningHour = 2
  DaysPerWeek = 3
  DaysPerSeason = 2
  SeasonsPerYear = 2
  LastYear = 1
  Day = "day"
  Night = "night"
INVARIANTS SoundsAreOwned OwnVolume CalendarAgrees
PROPERTIES NightMusicStarts FadesEnd
