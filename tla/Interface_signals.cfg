SPECIFICATION Spec
CONSTANTS
  Tracks <- MCTracks
  SlotLoading = {1}
  InfoModes = {"Synchronous", "Asynchronous"}
  MaxOrders = 1
  MaxEvents = 1
INVARIANT TimerKept
INVARIANT ToldRight
INVARIANT UrlOfOpened
PROPERTY ServesOrders
CHECK_DEADLOCK FALSE
