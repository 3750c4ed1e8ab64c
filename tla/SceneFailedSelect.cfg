SPECIFICATION Spec
CONSTANTS
  Names = {"7"}
  Passwords = {"1"}
  Sockets = {s1}
  Words <- MCWords
  NoLiteral = NoLiteral
  Numbers = {101}
  MaxRows = 2
  Spelled <- MCSpelled
  Faults = {"sql_error"}
  mStartCharID = 100
  MaxAccounts = 2
INVARIANT
  AccountNamesUnique
