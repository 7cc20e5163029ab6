SPECIFICATION FairSpec
CONSTANTS
  Nib = 4
  Requests <- MCRequests
  Responses <- MCResponses
  MaxPuts = 2
CHECK_DEADLOCK FALSE
INVARIANTS WiresOK AsSent BitsHold
PROPERTIES CallEnds ImplementsExactLink
