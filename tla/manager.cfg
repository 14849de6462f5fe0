SPECIFICATION Spec
CONSTANTS
  None = None
  Slice <- ReleaseSlice
  Platforms = {p1}
  Specs <- Releases
  Limit <- VersionLimits
  Total = 3
  Legacy = {}
  AllowVolumeExpansion = FALSE
  LeaderElect = TRUE
  LeasesAllowed = TRUE
INVARIANT WorkloadsApplied
PROPERTIES OneOperator
CHECK_DEADLOCK FALSE
