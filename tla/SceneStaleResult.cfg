SPECIFICATION Spec
CONSTANTS
  Names = {"7", "8"}
  Passwords = {"1"}
  Sockets = {s1}
  Words <- MCWords
  NoLiteral = NoLiteral
  Numbers = {101}
  MaxRows = 2
  Spelled <- MCSpelled
  Faults = {"store_error"}
  mStartCharID = 100
  MaxAccounts = 2
INVARIANT
  SessionOwnsRole
