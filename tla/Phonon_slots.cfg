SPECIFICATION FairSpec
CONSTANTS
  Titles = {1, 2}
  TrackNumbers = {2}
  LoopArgs = {TRUE}
  RandomArgs = {TRUE}
  Backlog = 5
INVARIANT SettlesOnDisc
PROPERTY ServesOrders
PROPERTY TitleInList
PROPERTY TitleNotInterrupted
PROPERTY EjectOpensTray
