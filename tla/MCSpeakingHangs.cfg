CONSTANTS
    c1 = c1
    c2 = c2
    rec = rec
    None = None
    Calls <- MCCalls
    Elements <- MCElements
    Names = {"happy"}
    Duration = 3
    Texts <- MCTexts
    MaxChunks = 2
    Lead = 1
    MaxStops = 1
    Says <- MCCalls
    Tracks <- MCTracks
    Streams <- MCStreams
    Guess = 2
    Recording = rec
    Latency = 1
    MaxIdle = 1
    MaxLate = 2
SPECIFICATION FairSpeakingSpec
PROPERTY EverySpeakSettles
CHECK_DEADLOCK FALSE
