\* The RS-485 interrupt preempts calls of the display and of the timed tasks.
SPECIFICATION ArmSpec
CONSTANTS
    N = 2
    NUM_PS_MODULES = 1
    TIMEOUT_DSP_IPC_ACK = 2
    Inputs = {0}
    RemoteCmds <- InterfaceCmds
    LocalCmds <- TurnOn
    Itlks <- NoItlks
    ItlkModules = {}
    BootInterface = 1
    IsDCLink = FALSE
    MaxFrames = 2
    FrameCost = 1
INVARIANTS IsrMessageIntact  OkMeansTaken
PROPERTIES IsrBounded MainReturns
CHECK_DEADLOCK FALSE
