SPECIFICATION FairSpec
CONSTANTS
    ShellKinds = {"execute"}
    ControlKinds = {"interrupt"}
    Outcomes = {"nothing"}
    Receivers = {"shell", "iopub"}
    Streams = {}
    IopubCap = 1
    MaxPipe = 1
    MayLeave = FALSE
    MaxShell = 1
    MaxControl = 1
    MaxPings = 0
    MaxOutputs = 1
PROPERTY InterruptAnswered
