\* One power supply: the timed tasks reach it.
SPECIFICATION SystemSpec
CONSTANTS
    N = 1
    NUM_PS_MODULES = 1
    TIMEOUT_DSP_IPC_ACK = 2
    Inputs = {0, 1}
    RemoteCmds <- UnlockCmds
    LocalCmds <- TurnOn
    Itlks = {}
    ItlkModules = {}
    BootInterface = 0
    IsDCLink = FALSE
    MaxFrames = 2
    FrameCost = 1
CHECK_DEADLOCK FALSE
PROPERTIES AutoLock AutoRemote
