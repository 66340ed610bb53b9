SPECIFICATION Spec
CONSTANTS
  MaxNow = 5
  LimitNames <- Names
  Minimum <- LowestWall
  Operator <- OperatorWall
  JobLimits <- Walls
  None = None
INVARIANTS
  WithinCeilings
  ErrorIsEvaluations
  ReplayAccepted
  ChildRunInv
PROPERTY RunEnds
CHECK_DEADLOCK FALSE
