SPECIFICATION SpecIrq
CONSTANT Script <- MCScript
CONSTANT IrqIntervals <- MCIrqIntervals
CONSTANT Images <- MCImages
CHECK_DEADLOCK FALSE
INVARIANT NoNestedInterrupts
INVARIANT StackIsKept
 
INVARIANT WriteIsFaithful
PROPERTY ImplementsTimer
PROPERTY CallsReturn
PROPERTY InterruptsAreTransparent
PROPERTY IrqIsServed
PROPERTY MakesProgress
PROPERTY ImplementsClock
