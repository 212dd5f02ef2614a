CONSTANTS
  Addr = {0, 5}
  Server = {1}
  IP_ADDRESS_LEASE_TIME = 8
  T1_RENEWAL_TIME = 4
  T2_REBIND_TIME = 7
  MAX_WAIT_TIME = 2
  NoOption = NoOption
  NoLease = NoLease
  Modes = {"interact", "once"}
  Interruptible <- MCOutsideWindows
  Datagrams <- MCServerDatagrams
  QueueLimit = 1
SPECIFICATION Spec
INVARIANT BindsOnlyAck
