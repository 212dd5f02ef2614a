CONSTANTS
  Mac = {m1}
  Addr <- MCAddr
  Xid <- MCXid
  IP_ADDRESS_POOL_START = 2
  IP_ADDRESS_POOL_AMOUNT = 2
  IP_ADDRESS_LEASE_TIME = 2
  DHCP_SERVER_IP_ADDRESS = 1
  INADDR_BROADCAST = 255
  NoOption = NoOption
  NoPacket = NoPacket
  MaxTime = 4
  Operations = {"discover", "renew", "inform", "release", "exit", "restart"}
  CommandLine = {0, 1}
  SameSecond = FALSE
  Delays = TRUE
  Duplicates = TRUE
  QueueLimit = 2
SPECIFICATION Spec
INVARIANTS
  HeldIsRecorded
PROPERTY
  HolderNotRefused
CHECK_DEADLOCK FALSE
