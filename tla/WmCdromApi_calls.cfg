\* Discs of every kind in a drive without a tray sensor, which may change any number
\* of times before a call looks at it.
CONSTANTS
  AudioA = AudioA
  AudioB = AudioB
  Extra = Extra
  Mixed = Mixed
  Data = Data
  NoDisc = NoDisc
  Discs = {AudioA, AudioB, Extra, Mixed, Data}
  TrackStart <- MCTrackStart
  DataTracks <- MCDataTracks
  SlotLoading = TRUE
  MotorTray = TRUE
  ParksPaused = TRUE
  Positions = {0, 1}
SPECIFICATION Spec
INVARIANTS TypeOK TocComplete StatusStable TocOfThisDisc PlaysAskedTrack
