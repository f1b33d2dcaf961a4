SPECIFICATION Spec
CONSTANTS
    Headers <- AppHeaders
    Messages <- AppMessages
    Frames <- AllFrames
INVARIANTS
    TypeOK
    EncodeDecodeInverse
    OnlyPollingEscapes
    OperandsCoverFrame
    CompleteFramesAreDelivered
    ExtensionBitDelimits
