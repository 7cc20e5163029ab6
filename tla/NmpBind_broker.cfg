SPECIFICATION FairSpec
CONSTANTS
  Envs = {{}, {"busy","quit"}, {"die"}}
  MaxStarts = 2
  MaxConnects = 2
  MaxSends = 1
  PipeRoom = 2
CHECK_DEADLOCK FALSE
INVARIANTS LinkKept
PROPERTIES RightOrder CallsEnd Released
