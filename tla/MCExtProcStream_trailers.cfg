CONSTANTS
    HeaderNames <- MCHeaderNames
    HeaderValues <- MCHeaderValues
    BodyFields <- MCBodyFields
    BodyValues = {m1}
    NoValue = NoValue
    ContentLength <- MCContentLength
    LowerCase <- MCLowerCase
    ModelField <- MCModelField
    WireHeaders <- MCWireHeaders
    PluginKeys = {}
    PluginValues = {}
    BodyByteLimit = 1
    MaxBody = 1
    MaxWrite = 1
    MaxRedeliver = 0
SPECIFICATION FairSpec
PROPERTIES
    TrailersEndTheBody
CHECK_DEADLOCK FALSE
