SPECIFICATION FairSpec
CONSTANTS
  b1 = b1
  b2 = b2
  s1 = s1
  s2 = s2
  Body = {b1, b2}
  Relation = {s1, s2}
  Absent = Absent
  NoRelation = NoRelation
  MaxFaults = 3
INVARIANTS TypeOK DoneIsApplied RefusedIsApplied
PROPERTIES Idempotent Recovers
