SPECIFICATION Spec
CONSTANTS
  Names = {"7", "8", "tom"}
  Passwords = {"1", "2"}
  Sockets = {s1, s2}
  Words <- MCWords
  NoLiteral = NoLiteral
  Numbers = {101}
  MaxRows = 2
  Spelled <- MCSpelled
  Faults = {"link_lost", "crash"}
  mStartCharID = 100
  MaxAccounts = 3
SYMMETRY SocketSymmetry
INVARIANTS
  SocketLists
  AccountNamesUnique
  OneAccountPerRole
  SessionOwnsRole
  CreatedAccountCanLogIn
PROPERTY
  ImplementsLoginService
