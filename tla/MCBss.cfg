SPECIFICATION Spec
CONSTANT Script <- MCScript
CONSTANT IrqIntervals <- MCIrqIntervals
CONSTANT Images <- MCBssPrograms
CHECK_DEADLOCK FALSE
INVARIANT BssIsCleared
