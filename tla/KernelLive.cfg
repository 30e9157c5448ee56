SPECIFICATION FairSpec
CONSTANTS
    ShellKinds = {"execute"}
    ControlKinds = {"interrupt", "stop", "restart"}
    Outcomes = {"stream"}
    Receivers = {"shell", "iopub"}
    Streams = {"stdout"}
    IopubCap = 1
    MaxPipe = 1
    MayLeave = TRUE
    MaxShell = 1
    MaxControl = 2
    MaxPings = 0
    MaxOutputs = 1
PROPERTIES RequestsClosed StopEnds InterruptDuringCell
