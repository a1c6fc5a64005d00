SPECIFICATION Spec
CONSTANTS
  Gateways <- AllKinds
  PageSize = 1
  MaxFaults = 1
  MaxChanges = 1
  Names = {1, 2}
  MaxEdits = 1
INVARIANTS TypeOK DumpComplete FileIsFaithful EditsAreLocal TargetFollowsFile RejectedForCause
