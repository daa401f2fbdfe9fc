\* What the timer does after each order, and must do in the end, with a playlist in
\* order, looped or not, on a disc of three tracks.
CONSTANTS
  Long = Long
  Short = Short
  Single = Single
  Extra = Extra
  NoDisc = NoDisc
  Discs = {Long}
  TrackStart <- MCTrackStart
  DataTracks <- MCDataTracks
  SlotLoading = FALSE
  MotorTray = TRUE
  ParksPaused = FALSE
  TrackNumbers = {3}
  Positions = {1}
  LoopArgs = {TRUE}
  RandomArgs = {}
  Unseen = FALSE
SPECIFICATION FairSpec
PROPERTIES ServesOrders TracksFollowInOrder EjectOpensTray AdvancesAtEnd
