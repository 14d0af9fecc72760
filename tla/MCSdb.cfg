SPECIFICATION SpecN
CONSTANT Script <- MCScript
CONSTANT IrqIntervals <- MCIrqIntervals
CONSTANT Images <- MCImages
CONSTANT UintRange = 16777216
CONSTANT UlongRange = 33554432
CONSTANT Letters <- MCLetters
CONSTANT MaxWatchpoints = 2
CONSTANT MaxHeight = 4
CONSTANT Expression <- MCExpression
CONSTANT NoExpression = NoExpression
CONSTANT Counts <- MCCounts
CONSTANT Lengths <- MCLengths
CHECK_DEADLOCK FALSE
INVARIANT WatchesAreCurrent
INVARIANT NoChangeIsMissed
INVARIANT StepsAsAsked
INVARIANT GuardsProtect
INVARIANT PoolIsPartitioned
PROPERTY NumbersStay
