CONSTANTS
    j0 = j0
    j1 = j1
    j2 = j2
    HeaderNames <- MCHeaderNames
    HeaderValues <- MCHeaderValues
    BodyFields <- MCBodyFields
    BodyValues <- MCBodyValues
    NoValue = NoValue
    ModelField <- MCModelField
    ModelHeader <- MCModelHeader
    BaseHeader <- MCBaseHeader
    Models <- MCModels
    Sprint <- MCSprint
    EmptyString <- MCEmptyString
    BaseModelOf <- MCBaseModelOf
SPECIFICATION Spec
INVARIANTS
    TypeOK
    MutationReplaysPluginView
    UnmutatedBodyIsWireBody
    ModelNamesAgree
