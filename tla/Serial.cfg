\* All three receivers; one byte of the traffic is damaged or lost.
SPECIFICATION FairSpec
CONSTANTS
    Variants = {"low", "high", "ihm"}
    Base = 4
    SERIAL_BUF_SIZE = 8
    FifoSize = 4
    Level = 2
    RS485_Address <- Addresses
    MAX_ADDRESS = 2
    BCAST_ADDRESS = 3
    Frames <- TwoPackets
    MaxFaults = 1
INVARIANTS TypeOK PacketsHandled 
PROPERTIES BackToListening
