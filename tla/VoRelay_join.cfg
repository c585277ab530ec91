SPECIFICATION Spec
SYMMETRY Alike
CHECK_DEADLOCK FALSE
CONSTANTS
  Conn = {c1, c2, c3}
  None = none
  Name = {n1, n2, n3}
  Asked = n1
  Home = home
  Asks <- OneAsked
  Variant <- AllVary
  Address <- OneAddress
  MaxClients = 3
  MaxPerAddress = 3
  MaxBacklog = 2
  LobbyRows = 8
  Extra = {"JOIN"}
  MaxTold = 0
  MaxAsked = 1
  FewCame = 3
PROPERTY JoinKeepsMatch
