SPECIFICATION Spec
CONSTANTS
  None = None
  Slice <- ReleaseSlice
  Platforms = {p1}
  Specs <- Releases
  Limit <- DriftLimits
  Total = 2
  Legacy = {}
  AllowVolumeExpansion = FALSE
PROPERTIES ManualRollbackSticks
CHECK_DEADLOCK FALSE
