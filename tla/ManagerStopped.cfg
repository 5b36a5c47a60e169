SPECIFICATION Spec
CONSTANT MaxQueue = 3
ACTION_CONSTRAINT CallbacksFirst
INVARIANT StoppedIsStopped
CHECK_DEADLOCK FALSE
