SPECIFICATION FairSpec
CONSTANTS
  Systems <- AllSystems
  Discs = {d1, d2}
  NoDisc = NoDisc
INVARIANT TocOfThisDisc
INVARIANT NoDiscShown
PROPERTY DiscFound
PROPERTY OrdersObeyed
