SPECIFICATION Spec
CONSTANTS
    None = None
    Malformed = Malformed
    DefaultPicker = DefaultPicker
    Types <- MCTypes
    Implements <- MCImplements
    Names <- MCNames
    ProfileNames <- MCProfileNames
    RawConfigs <- MCRawConfigs
    SingleProfilePickerType = "single"
    BodyFieldToHeaderPluginType = "body_field"
    BaseModelToHeaderPluginType = "base_model"
INVARIANTS
    PickerResolves
CHECK_DEADLOCK FALSE
