SPECIFICATION Spec
CONSTANT Script <- MCScript
CONSTANT IrqIntervals <- MCIrqIntervals
CONSTANT Images <- MCWritePrograms
CHECK_DEADLOCK FALSE
INVARIANT CountIsReturned
