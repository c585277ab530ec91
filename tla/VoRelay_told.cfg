SPECIFICATION FairSpec
CHECK_DEADLOCK FALSE
CONSTANTS
  Conn = {c1, c2, c3}
  None = none
  Name = {n1, n2, n3}
  Asked = n1
  Home = home
  Asks <- OneAsked
  Variant <- AllVary
  Address <- OneAddress
  MaxClients = 2
  MaxPerAddress = 2
  MaxBacklog = 1
  LobbyRows = 8
  Extra = {}
  MaxTold = 0
  MaxAsked = 0
  FewCame = 3
PROPERTY ToldInTheEnd
