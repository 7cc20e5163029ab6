SPECIFICATION FairSpec
CONSTANTS
  Clients = {"wd", "rfx"}
  Builds = {"bsd", "rdos"}
  Starts = {TRUE, FALSE}
  OldClients = {"rfx"}
  Vanishing = {{}, {"wd"}}
  MaxConns = 3
  MaxRequests = 3
CHECK_DEADLOCK FALSE
INVARIANTS NestingOK ResponseMatches OnceInOrder
PROPERTIES CallsEnd ServerFree
