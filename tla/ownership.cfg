SPECIFICATION FifoSpec
CONSTANTS
  None = None
  Slice <- HostSlice
  Platforms = {p1, p2}
  Specs <- OneSpec
  Limit <- OwnershipLimits
  Total = 4
  Legacy <- V1Ingress
  AllowVolumeExpansion = FALSE
PROPERTIES NoStealing FailureSurfaces
CHECK_DEADLOCK FALSE
