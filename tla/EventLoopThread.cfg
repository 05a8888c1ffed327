CONSTANTS
  Owner = owner
  Callers = {owner, c1}
  Functors = {f1, f2, f3}
SPECIFICATION ThreadFairSpec
INVARIANTS NoLostWakeup CleanShutdown
PROPERTIES IsExecutor WakeupRunsFunctor OwnerReturns
CHECK_DEADLOCK FALSE
