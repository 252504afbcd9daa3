\* A display command preempted by a packet goes to another supply.
SPECIFICATION Spec
CONSTANTS
    N = 2
    NUM_PS_MODULES = 0
    TIMEOUT_DSP_IPC_ACK = 2
    Inputs = {0}
    RemoteCmds <- InterfaceCmds
    LocalCmds <- TurnOn
    Itlks = {}
    ItlkModules = {}
    BootInterface = 1
    IsDCLink = FALSE
    MaxFrames = 2
    FrameCost = 1
CHECK_DEADLOCK FALSE
PROPERTIES LocalCommandTarget
