\* The lock task visits one power supply only.
SPECIFICATION SystemSpec
CONSTANTS
    N = 2
    NUM_PS_MODULES = 2
    TIMEOUT_DSP_IPC_ACK = 2
    Inputs = {0}
    RemoteCmds <- UnlockCmds
    LocalCmds <- NoCommands
    Itlks = {}
    ItlkModules = {}
    BootInterface = 0
    IsDCLink = FALSE
    MaxFrames = 2
    FrameCost = 1
CHECK_DEADLOCK FALSE
PROPERTIES AutoLock
