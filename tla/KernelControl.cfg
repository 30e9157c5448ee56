SPECIFICATION Spec
CONSTANTS
    ShellKinds = {"execute"}
    ControlKinds = {"interrupt", "stop", "restart"}
    Outcomes = {"value"}
    Receivers = {"shell", "iopub", "heartbeat"}
    Streams = {"stdout"}
    IopubCap = 1
    MaxPipe = 1
    MayLeave = FALSE
    MaxShell = 2
    MaxControl = 2
    MaxPings = 0
    MaxOutputs = 0
INVARIANTS KnownDeaths StaleAtMostOne NothingForgotten
PROPERTIES FrontendView
