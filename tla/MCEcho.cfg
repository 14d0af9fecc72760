SPECIFICATION Spec
CONSTANT Script <- MCScript
CONSTANT IrqIntervals <- MCIrqIntervals
CONSTANT Images <- MCImages
INVARIANT EchoIsFaithful
PROPERTY EchoIsComplete
