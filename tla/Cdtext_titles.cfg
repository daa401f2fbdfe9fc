CONSTANTS
  h1 = h1
  h2 = h2
  Handles <- MCHandles
  DiscsOf <- MCDiscsOf
  NoDisc = NoDisc
  Unknown = Unknown
  Char = {"a", "b"}
  End = "end"
  Repeat = "repeat"
  MaxLanguageBlocks = 8
  DatafieldLength = 4
SPECIFICATION Spec
INVARIANT TextOfThisDisc
INVARIANT KeptTextKnown
PROPERTY NewDiscShown
