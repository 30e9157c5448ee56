\* Two cells with results, prints and captured output; no control requests.
SPECIFICATION Spec
CONSTANTS
    ShellKinds = {"execute", "is_complete", "unknown"}
    ControlKinds = {}
    Outcomes = {"error", "nothing", "value"}
    Receivers = {"shell", "iopub"}
    Streams = {"stdout"}
    IopubCap = 1
    MaxPipe = 1
    MayLeave = FALSE
    MaxShell = 2
    MaxControl = 0
    MaxPings = 0
    MaxOutputs = 2
INVARIANTS NothingForgotten
PROPERTIES FrontendView
