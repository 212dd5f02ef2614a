CONSTANTS
  Mac = {m1, m2}
  Addr <- MCAddr
  Xid = {0}
  IP_ADDRESS_POOL_START = 2
  IP_ADDRESS_POOL_AMOUNT = 2
  IP_ADDRESS_LEASE_TIME = 1
  DHCP_SERVER_IP_ADDRESS = 1
  INADDR_BROADCAST = 255
  NoOption = NoOption
  NoPacket = NoPacket
  Unwritten <- MCUnwritten
  Packets <- MCPackets
  MaxTime = 1
SYMMETRY MCSymmetry
SPECIFICATION Spec
INVARIANTS
  TypeOK
  ListConsistent
  AllocationTerminates
PROPERTIES
  GrantRespectsLeases
  LeaseLostOnlyByRelease
  LeaseOutsidePoolOnlyByInform
  UnsetReadOnlyByInform
  AckRecordedUnlessTakenOver
  HolderIsAnswered
  ImplementsLeaseTable
