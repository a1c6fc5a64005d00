SPECIFICATION Spec
CONSTANTS
  id1 = id1
  id2 = id2
  rid1 = rid1
  rid2 = rid2
  A = A
  B = B
  States <- Gateways
  KongCascades <- Cascades
  NoDeletes = {FALSE, TRUE}
SYMMETRY Symmetry
INVARIANTS TypeOK OrderRespectsReferences Converges MirrorsKong PlanIsExpected DryRunPredicts RejectedOnlyAfterFailure PostProcessSucceeds
