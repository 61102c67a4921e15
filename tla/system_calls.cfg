SPECIFICATION Spec
CONSTANTS
  Failures = {"open", "fork", "dup2", "execv", "waitpid"}
  MaxCalls = 3
CHECK_DEADLOCK FALSE
INVARIANTS TypeOK ResultIsOfOwnCommand
PROPERTIES FileHoldsOutput EveryCallReturns
