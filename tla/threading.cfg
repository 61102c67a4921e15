SPECIFICATION Spec
CONSTANTS
  Thread = {t1, t2, t3}
  Caller = Caller
  Block = {b1, b2}
  NULL = NULL
  Failures = {"malloc", "pthread_create"}
CHECK_DEADLOCK FALSE
INVARIANTS HoldsMutexAlone JoinerGetsOwnData
PROPERTIES EveryThreadJoined
