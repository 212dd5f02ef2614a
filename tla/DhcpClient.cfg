CONSTANTS
  Addr = {0, 5, 6}
  Server = {1}
  IP_ADDRESS_LEASE_TIME = 8
  T1_RENEWAL_TIME = 4
  T2_REBIND_TIME = 7
  MAX_WAIT_TIME = 2
  NoOption = NoOption
  NoLease = NoLease
  Modes = {"interact", "once"}
  Interruptible <- MCOutsideWindows
  Datagrams <- MCDatagrams
  QueueLimit = 1
SPECIFICATION FairSpec
INVARIANTS
  TypeOK
  AlarmWhileBound
  ExpiredOnlyWhileHandling
  ExchangeKeepsItsXid
PROPERTIES
  AddressNotReplaced
  ExpiredAddressIsGivenUp
  MenuComesBack
