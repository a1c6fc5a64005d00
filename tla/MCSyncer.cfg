\* Three workers, four events in three stages, a buffer of one, one retry; no
\* symmetry, which is unsound for liveness.
SPECIFICATION FairSpec
CONSTANTS
  a = a
  b = b
  c = c
  d = d
  w1 = w1
  w2 = w2
  w3 = w3
  Worker = {w1, w2, w3}
  Event <- MCEvent
  NumStages = 3
  StageOf <- MCStageOf
  EventBuffer = 1
  MaxRetries = 1
  CtxErr = CtxErr
  DifferErr = DifferErr
  NoEvent = NoEvent
INVARIANTS
  TypeOK
  InFlightExact
  StageBarrier
  NoSilentLoss
  ErrorsReported
  NothingInLimbo
PROPERTIES
  SettledForever
  ImplementsStagedSync
  Termination
