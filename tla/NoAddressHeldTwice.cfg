CONSTANTS
  Mac = {m1, m2}
  Addr <- MCAddr
  Xid <- MCXid
  IP_ADDRESS_POOL_START = 2
  IP_ADDRESS_POOL_AMOUNT = 1
  IP_ADDRESS_LEASE_TIME = 2
  DHCP_SERVER_IP_ADDRESS = 1
  INADDR_BROADCAST = 255
  NoOption = NoOption
  NoPacket = NoPacket
  MaxTime = 6
  Operations = {"discover", "release"}
  CommandLine = {0}
  SameSecond = FALSE
  Delays = FALSE
  Duplicates = FALSE
  QueueLimit = 2
SYMMETRY MCSymmetry
SPECIFICATION Spec
INVARIANT
  NoAddressHeldTwice
CHECK_DEADLOCK FALSE
