SPECIFICATION FairSpec
CONSTANTS
  Msgs = {"ping", "login"}
  Size <- MCSize
  Header = 2
  Capacity = 9
  Garbage = Garbage
  MaxSent = 4
CHECK_DEADLOCK FALSE
INVARIANTS
  TypeOK
  HangsUpAtEndOnly
  NothingLeftBehind
PROPERTIES
  ImplementsChannel
  AllHandedOver
