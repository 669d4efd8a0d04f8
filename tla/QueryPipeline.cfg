CONSTANTS
    ConfModes = {"off", "prefer", "explain", "shadow", "force_supported", "local_pushdown"}
    ReqModes = {"", "force_supported"}
    ConfPolicies = {"strict", "cost_shadow", "cost_prefer"}
    ReqPolicies = {"", "cost_prefer"}
    Overrides = {FALSE, TRUE}
    Shapes <- AllShapes
    Classes <- AllClasses
    CostFamilies <- OpenFamilies
    MaxSeries = 1
    Limits = {0, 1}
    MaxTime = 1
SPECIFICATION Spec
INVARIANTS TypeOK RetriesRightly FailureNotMasked LimitsHold NativeOnly
    StrictUnlessGated ShadowHarmless
PROPERTY AlwaysAnswered
