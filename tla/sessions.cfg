SPECIFICATION Spec
CONSTANTS
  c1 = c1
  c2 = c2
  p1 = p1
  None = None
  Forever = Forever
  LoggedOut = LoggedOut
  Clients = {c1, c2}
  Players = {p1}
  PlayerOf <- Devices
  Tokens = {1, 2}
  TTL = 2
  Modes <- Both
  Lexical <- ByName
  Skew = 1
  Horizon = 2
INVARIANTS TypeOK OnlineCovers QueuedHadLogin ToldPlaceHolds
PROPERTIES GivenTokensEnd
CHECK_DEADLOCK FALSE
