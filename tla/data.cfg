SPECIFICATION MCSpec
CONSTANTS
    Bits <- MCBits
    Numbers <- MCNumbers
    Names = {1, 2}
    MaxTokens = 9
    MaxDepth = 2
    MaxSwitches = 1
    Top = 63
    NumberTexts <- MCNumberTexts
    StringTexts <- MCStringTexts
    CommentTexts <- MCCommentTexts
    Keys = {1, 2, 3}
    Values = {1, 2}
    MaxFields = 3
    MaxSteps = 4
    Half = 3
    Integrals <- MCIntegrals
    Chars = {3}
    Contents <- MCContents
    Counts = {0, 1, 2}
    MaxSize = 3
    MaxOps = 4
    SourceTexts <- MCSourceTexts
    Delim = 7
    ReadCounts = {0, 2}
    BufSize = 2
    Room = 2
    MaxCalls = 2
    NarrowTop = 15
    IntHalf = 32
    IntegerTexts <- MCIntegerTexts
    DoubleTexts <- MCDoubleTexts
    WordTexts <- MCWordTexts
    PortTop = 99
    Garbage <- MCGarbage
    UriTexts <- MCUriTexts
    Readings <- MCReadings
    RawTexts <- MCRawTexts
    QueryTexts <- MCQueryTexts
    PathTexts <- MCPathTexts
    MorePaths <- MCMorePaths
    Pairs <- MCPairs
    IntEnd = 1048576
    ByteTexts <- MCByteTexts
    UnitTexts <- MCUnitTexts
    DateTexts <- MCDateTexts
    Base64Texts <- MCBase64Texts
    Blobs <- MCBlobs
    Ticks <- MCTicks
    Seconds <- MCSeconds
    Fields <- MCFields
    ContentTypes <- MCContentTypes
    BodyTexts <- MCBodyTexts
    MoreTypes <- MCMoreTypes
    MoreBodies <- MCMoreBodies
    SetBodies <- MCSetBodies
    HeaderMaps <- MCHeaderMaps
    HeaderTexts <- MCHeaderTexts
    ChunkSizes <- MCChunkSizes
    MaxUses = 5
INVARIANTS
    DataTypeOK
    SafeIntExact
    TextsSound
    StreamsSound
CHECK_DEADLOCK FALSE
