CONSTANTS
    Depths = {0, 1, 2}
    BlockCount = 6
    MaxBatch = 2
SPECIFICATION WriterFairSpec
INVARIANT EncoderSound
PROPERTIES KeepsSink CallsReturn
