SPECIFICATION Spec
CONSTANT Builds = {TRUE, FALSE}
CONSTANT Environments = {"unset", "number"}
CONSTANT Handled <- MCHandled
CONSTANT Others = {}
CHECK_DEADLOCK FALSE
INVARIANT TerminalIsRestored
INVARIANT DiesOfItsSignal
PROPERTY SignalKills
