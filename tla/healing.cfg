SPECIFICATION FairSpec
CONSTANTS
  None = None
  Slice <- ReleaseSlice
  Platforms = {p1}
  Specs <- Releases
  Limit <- HealingLimits
  Total = 2
  Legacy = {}
  AllowVolumeExpansion = FALSE
INVARIANTS TypeOK WorkloadsApplied
PROPERTIES Converges Quiesces
CHECK_DEADLOCK FALSE
