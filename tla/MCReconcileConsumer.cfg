SPECIFICATION Spec
CONSTANTS
  id1 = id1
  id2 = id2
  rid1 = rid1
  rid2 = rid2
  A = A
  B = B
  States <- ConsumerStates
  KongCascades <- Cascades
  NoDeletes = {FALSE}
INVARIANT Converges
