CONSTANTS
    HeaderNames <- MCHeaderNames
    HeaderValues <- MCHeaderValues
    BodyFields <- MCBodyFields
    BodyValues = {m1}
    NoValue = NoValue
    ContentLength <- MCContentLength
    LowerCase <- MCLowerCase
    ModelField <- MCModelField
    WireHeaders <- MCWireHeaders
    PluginKeys <- MCPluginKeys
    PluginValues <- MCPluginValues
    BodyByteLimit = 1
    MaxBody = 2
    MaxWrite = 1
    MaxRedeliver = 1
SPECIFICATION FairSpec
INVARIANTS
    TypeOK
    OutputOrder
    BodyIntact
    ContentLengthMatchesBody
    PostProcessorsRun
PROPERTIES
    HeadersCarryPluginView
    EndedSideIsAnswered
    ImplementsStreamEvents
    EventPayloadFrozen
CHECK_DEADLOCK FALSE
