CONSTANTS
  Requested <- MCRequested
  OtherServer <- MCOtherServer
  Foreign <- MCForeign
  Garbage <- MCGarbage
  NoOption = NoOption
SPECIFICATION Spec
INVARIANTS
  TypeOK
  PacketReadBack
  ReplyReadBack
