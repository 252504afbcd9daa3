\* An interlock reported while any message is pending is not sent.
SPECIFICATION Spec
CONSTANTS
    N = 2
    NUM_PS_MODULES = 0
    TIMEOUT_DSP_IPC_ACK = 2
    Inputs = {3}
    RemoteCmds <- TurnOn
    LocalCmds <- NoCommands
    Itlks = {3}
    ItlkModules = {}
    BootInterface = 0
    IsDCLink = FALSE
    MaxFrames = 1
    FrameCost = 1
CHECK_DEADLOCK FALSE
PROPERTIES InterlockRequestSent
