SPECIFICATION Spec
CONSTANTS
  Gateways <- TwoUpstreams
  PageSize = 1
  MaxFaults = 0
  MaxChanges = 0
  Names = {1, 2}
  MaxEdits = 0
INVARIANT ReturnsAllEntities
