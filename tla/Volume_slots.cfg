SPECIFICATION VolumeSpec
CONSTANTS
  Volumes <- SomeVolumes
  Balances <- SomeBalances
  PowerOn <- SomeLevels
INVARIANT TypeOK
PROPERTY SideKept
PROPERTY VolumeReadBack
