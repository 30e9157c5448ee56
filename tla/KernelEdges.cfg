SPECIFICATION FairSpec
CONSTANTS
    ShellKinds = {"execute", "info"}
    ControlKinds = {"info", "interrupt", "stop", "unsupported"}
    Outcomes = {"error", "stream"}
    Receivers = {"shell", "iopub", "heartbeat"}
    Streams = {"stdout"}
    IopubCap = 1
    MaxPipe = 1
    MayLeave = TRUE
    MaxShell = 1
    MaxControl = 1
    MaxPings = 1
    MaxOutputs = 1
INVARIANTS TypeOK KnownDeaths
PROPERTIES HeartbeatLives
