SPECIFICATION Spec
CONSTANTS
  c1 = c1
  c2 = c2
  p1 = p1
  p2 = p2
  p3 = p3
  p4 = p4
  Clients = {c1, c2}
  Players = {p1, p2, p3, p4}
  PlayersOf <- Apart
  Creator = c1
  MaxPlayers = 2
INVARIANTS TypeOK OverfullBound RecordsAgree
