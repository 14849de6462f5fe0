SPECIFICATION FairSpec
CONSTANTS
  None = None
  Slice <- StorageSlice
  Platforms = {p1}
  Specs <- Sizes
  Limit <- StorageLimits
  Total = 3
  Legacy = {}
  AllowVolumeExpansion = FALSE
INVARIANT ReferencesExist
PROPERTIES StatusForCurrentSpec FailureSurfaces
CHECK_DEADLOCK FALSE
