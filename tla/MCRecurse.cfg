SPECIFICATION Spec
CONSTANT Script <- MCScript
CONSTANT IrqIntervals <- MCIrqIntervals
CONSTANT Images <- MCForthWords
CHECK_DEADLOCK FALSE
INVARIANT RecurseCallsItself
