SPECIFICATION FairSpec
CONSTANTS
  Fds = {f1, f2}
  Listen = listen
  Conns = {c1, c2, c3}
  Silent = {c3}
  MaxSent = 2
INVARIANTS
  TypeOK
  EventsAddressed
  NoMessageLostOnClose
PROPERTIES
  ImplementsSocketEvents
  ClosedIsReleased
  SentIsDelivered
  PendingIsAccepted
