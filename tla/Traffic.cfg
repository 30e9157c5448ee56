\* Two shell requests and one control request, three bytes of text at most
\* through a buffer of two, and every damage the frames may have.
SPECIFICATION FairSpec
CONSTANTS
    Streams = {stdout}
    BufferSize = 2
    MaxRequests = 2
    MaxControl = 1
    MaxText = 3
    ShellSends = {"execute_request", "is_complete_request", "comm_info_request"}
    ControlSends = {"kernel_info_request", "shutdown_request", "debug_request"}
    Damages = {"no_delimiter", "cut", "junk", "bad_content"}
INVARIANTS TypeOK TextKept DecodesWhole WithheldFull AttributedLater FramesReadBack WellFormedServed
PROPERTIES UniqueIds TextArrives
CHECK_DEADLOCK FALSE
