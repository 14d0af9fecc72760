SPECIFICATION Spec
CONSTANT Builds = {FALSE}
CONSTANT Environments = {"garbage"}
CONSTANT Handled <- MCHandled
CONSTANT Others = {}
CHECK_DEADLOCK FALSE
INVARIANT TerminalIsRestored
