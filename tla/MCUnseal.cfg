SPECIFICATION UnsealSpec
CONSTANTS
    Operators = {o1, o2}
    MaxRestarts = 1
INVARIANTS
    ServingIsComplete
    SendNeverBlocks
    AllSignersOrNone
    SignerIsAnnounced
PROPERTY
    EventuallyServing
