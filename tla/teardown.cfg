SPECIFICATION FairSpec
CONSTANTS
  None = None
  Slice <- HostSlice
  Platforms = {p1}
  Specs <- OneSpec
  Limit <- TeardownLimits
  Total = 4
  Legacy <- V1Ingress
  AllowVolumeExpansion = FALSE
PROPERTIES Teardown Converges
CHECK_DEADLOCK FALSE
