CONSTANTS
  Mac = {m1, m2}
  Addr <- MCAddr
  Xid <- MCXid
  IP_ADDRESS_POOL_START = 2
  IP_ADDRESS_POOL_AMOUNT = 1
  IP_ADDRESS_LEASE_TIME = 9
  DHCP_SERVER_IP_ADDRESS = 1
  INADDR_BROADCAST = 255
  NoOption = NoOption
  NoPacket = NoPacket
  MaxTime = 4
  Operations = {"discover", "renew", "release", "exit"}
  CommandLine = {1}
  SameSecond = FALSE
  Delays = TRUE
  Duplicates = FALSE
  QueueLimit = 2
SYMMETRY MCSymmetry
SPECIFICATION Spec
INVARIANTS
  TypeOK
  HeldIsRecorded
  NoAddressHeldTwice
PROPERTY
  HolderNotRefused
CHECK_DEADLOCK FALSE
