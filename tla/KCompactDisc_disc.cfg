\* A disc of two audio tracks and one with a data track come and go; both
\* playlist switches are used.
CONSTANTS
  Long = Long
  Short = Short
  Single = Single
  Extra = Extra
  NoDisc = NoDisc
  Discs = {Short, Extra}
  TrackStart <- MCTrackStart
  DataTracks <- MCDataTracks
  SlotLoading = FALSE
  MotorTray = TRUE
  ParksPaused = FALSE
  TrackNumbers = {0, 2}
  Positions = {1}
  LoopArgs = {TRUE, FALSE}
  RandomArgs = {TRUE, FALSE}
  Unseen = FALSE
SPECIFICATION Spec
INVARIANTS TypeOK PlaylistMatchesDisc PlayingDiscKnown EntriesInList
