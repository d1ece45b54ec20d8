CONSTANTS
    LineSizes <- MCTwoLines
    MaxChunkSize = 3
    ChannelSize = 4
    PipeLines = 1
    MaxUnheard = 0
SPECIFICATION UploadSpec
CHECK_DEADLOCK FALSE
INVARIANT EveryLineGoesUp
