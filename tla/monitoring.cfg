SPECIFICATION FairSpec
CONSTANTS
  None = None
  Slice <- MonitoringSlice
  Platforms = {p1}
  Specs <- Toggles
  Limit <- ToggleLimits
  Total = 3
  Legacy <- V1Monitoring
  AllowVolumeExpansion = FALSE
PROPERTIES Converges
CHECK_DEADLOCK FALSE
