SPECIFICATION FairSpec
CONSTANTS
  Clients = {"wd", "rfx"}
  Builds = {"bsd"}
  Starts = {FALSE}
  OldClients = {}
  Vanishing = {{"wd"}}
  MaxConns = 2
  MaxRequests = 3
CHECK_DEADLOCK FALSE
INVARIANTS OncePerRequest
