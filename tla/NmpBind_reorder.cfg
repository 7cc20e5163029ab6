SPECIFICATION FairSpec
CONSTANTS
  Envs = {{"threads"}}
  MaxStarts = 2
  MaxConnects = 2
  MaxSends = 2
  PipeRoom = 2
CHECK_DEADLOCK FALSE
PROPERTIES RightOrder
