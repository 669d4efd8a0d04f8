CONSTANTS
    Labels <- MCLabels
    NaN = 99
    Lookback = 1400
    RangePadding = 1
    EvalInterval = 1000
    MaxPoints = 6
    MaxIterations = 8
    Stores <- MCStores
    Rules <- MCRules
    RuleTimes <- MCRuleTimes
    Requests <- JoinRequests
    Strategies <- MCStrategies
SPECIFICATION Spec
INVARIANT LoweringKeepsMeaning
