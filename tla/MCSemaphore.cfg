CONSTANTS
  Thunks = {t1, t2, t3, t4}
  Capacity = 2
SPECIFICATION SemaphoreFairSpec
INVARIANTS IInv
PROPERTIES EveryThunkSettles ImplementsFifoExecutor
CHECK_DEADLOCK FALSE
