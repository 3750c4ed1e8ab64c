SPECIFICATION Spec
CONSTANTS
  MaxStarts = 3
  MaxAccounts = 2
  Faults = {"no_fork", "db_down", "killed", "client_leaves",
            "sql_error"}
CHECK_DEADLOCK FALSE
INVARIANT
  SuccessMeansListening
