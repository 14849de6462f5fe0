SPECIFICATION Spec
CONSTANTS
  None = None
  Slice <- ReleaseSlice
  Platforms = {p1}
  Specs <- Releases
  Limit <- EditLimits
  Total = 2
  Legacy = {}
  AllowVolumeExpansion = FALSE
INVARIANT ReadyOnlyAfterRollout
CHECK_DEADLOCK FALSE
