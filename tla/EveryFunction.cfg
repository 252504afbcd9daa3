\* A packet with any function of the table, single or broadcast, on the DC link
\* model, while the CAN interrupt reports interlocks.
SPECIFICATION Spec
CONSTANTS
    N = 2
    NUM_PS_MODULES = 0
    TIMEOUT_DSP_IPC_ACK = 2
    Inputs = {6}
    RemoteCmds <- AllCommands
    LocalCmds <- NoCommands
    Itlks = {5}
    ItlkModules = {0, 1}
    BootInterface = 0
    IsDCLink = TRUE
    MaxFrames = 1
    FrameCost = 1
INVARIANTS IsrMessageIntact OkMeansTaken TimeoutMeansPolled
CHECK_DEADLOCK FALSE
