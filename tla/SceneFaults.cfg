SPECIFICATION Spec
CONSTANTS
  Names = {"7", "o'neill"}
  Passwords = {"7"}
  Sockets = {s1}
  Words <- MCWords
  NoLiteral = NoLiteral
  Numbers = {101}
  MaxRows = 2
  Spelled <- MCSpelled
  Faults = {"sql_error", "link_lost", "store_error", "crash"}
  mStartCharID = 100
  MaxAccounts = 3
INVARIANTS
  TypeOK
  RoleIdNeverCollides
  RoleRowsOwned
