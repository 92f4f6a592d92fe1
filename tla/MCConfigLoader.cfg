SPECIFICATION Spec
CONSTANTS
    None = None
    Malformed = Malformed
    DefaultPicker = DefaultPicker
    Types <- MCTypes
    Implements <- MCImplements
    Names <- MCNames
    ProfileNames <- MCProfileNames
    RawConfigs <- MCRawConfigs
    SingleProfilePickerType = "single"
    BodyFieldToHeaderPluginType = "body_field"
    BaseModelToHeaderPluginType = "base_model"
INVARIANTS
    TypeOK
    ProfilesFitHandlers
    SelectorPickers
    PipelinesScoreForUsers
    UnsharedSelectorVerdict
CHECK_DEADLOCK FALSE
