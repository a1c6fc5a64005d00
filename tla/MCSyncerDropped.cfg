\* Are all events that were not processed among the dropped ones?
SPECIFICATION Spec
CONSTANTS
  a = a
  b = b
  c = c
  d = d
  w1 = w1
  w2 = w2
  w3 = w3
  Worker = {w1, w2}
  Event <- MCPair
  NumStages = 2
  StageOf <- MCPairStageOf
  EventBuffer = 1
  MaxRetries = 1
  CtxErr = CtxErr
  DifferErr = DifferErr
  NoEvent = NoEvent
INVARIANTS UnprocessedAreDropped
