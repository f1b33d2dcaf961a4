SPECIFICATION Spec
CONSTANTS
    Headers <- AppHeaders
    Messages <- AddressAbsent
    Frames <- NoFrames
INVARIANTS
    EncodeDecodeInverse
