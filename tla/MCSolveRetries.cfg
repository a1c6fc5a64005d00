\* Are the requests of events retried?
SPECIFICATION SolveSpec
CONSTANTS
  p = p
  q = q
  w1 = w1
  w2 = w2
  limiter = limiter
  Worker = {w1, w2}
  Event <- MCEvent
  NumStages = 1
  StageOf <- MCStageOf
  EventBuffer = 1
  MaxRetries = 4
  CtxErr = CtxErr
  DifferErr = DifferErr
  NoEvent = NoEvent
  OpOf <- MCOpOf
  SchemaOf <- MCSchemaOf
  NoSchema = NoSchema
  ResultBuffer = 1
  Mode <- MCMode
INVARIANTS ServerErrorsRetried
