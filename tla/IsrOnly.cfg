\* RS-485 is the only source of commands; an endless host.
SPECIFICATION ArmSpec
CONSTANTS
    N = 2
    NUM_PS_MODULES = 0
    TIMEOUT_DSP_IPC_ACK = 2
    Inputs = {3}
    RemoteCmds <- PayloadCmds
    LocalCmds <- NoCommands
    Itlks <- NoItlks
    ItlkModules = {}
    BootInterface = 0
    IsDCLink = FALSE
    MaxFrames = 0
    FrameCost = 0
INVARIANTS TypeOK OkMeansTaken TimeoutMeansPolled
PROPERTIES PendingUntouched ImplementsMailbox IsrReturns
