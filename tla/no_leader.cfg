SPECIFICATION FairSpec
CONSTANTS
  None = None
  Slice <- ReleaseSlice
  Platforms = {p1}
  Specs <- OneSpec
  Limit <- DriftLimits
  Total = 1
  Legacy = {}
  AllowVolumeExpansion = FALSE
  LeaderElect = TRUE
  LeasesAllowed = FALSE
PROPERTIES Converges
CHECK_DEADLOCK FALSE
