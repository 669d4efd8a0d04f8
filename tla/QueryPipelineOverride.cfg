CONSTANTS
    ConfModes = {"prefer", "shadow"}
    ReqModes = {""}
    ConfPolicies = {"strict", "cost_shadow", "cost_prefer"}
    ReqPolicies = {""}
    Overrides = {FALSE}
    Shapes <- AllShapes
    Classes <- AllClasses
    CostFamilies <- OpenFamilies
    MaxSeries = 1
    Limits = {0, 1}
    MaxTime = 1
SPECIFICATION Spec
INVARIANT OverrideErrorOnlyForOverrides
