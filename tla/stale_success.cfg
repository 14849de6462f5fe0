SPECIFICATION Spec
CONSTANTS
  None = None
  Slice <- HostSlice
  Platforms = {p1}
  Specs <- Releases
  Limit <- EditLimits
  Total = 3
  Legacy = {}
  AllowVolumeExpansion = FALSE
INVARIANT AllApplied
CHECK_DEADLOCK FALSE
