SPECIFICATION FairSpec
CONSTANTS
  Item = {i1}
  Demand = {d1}
  EnrichmentMaxRetry = 1
  OrganizationMaxRetry = 1
  None = None
INVARIANTS PendingIsExplained CompletedIsHandedOver
PROPERTIES LateWorkDoesNoHarm WorkEnds
CHECK_DEADLOCK FALSE
