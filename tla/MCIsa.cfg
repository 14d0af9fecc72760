SPECIFICATION SpecIsa
CONSTANT Script <- MCScript
CONSTANT IrqIntervals <- MCIrqIntervals
CONSTANT Images <- MCImages
CHECK_DEADLOCK FALSE
INVARIANT TypeOK
INVARIANT IoCellsBlank
INVARIANT BasicCounts
PROPERTY PcAdvances
PROPERTY StoresStayInPlace
