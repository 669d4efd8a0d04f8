\* More batches than channel and workers hold together: the channel fills up.
CONSTANTS
    MaxConcurrency = 2
    NumBatches = 6
    MaxRetargets = 2
    MaxFaults = 2
SPECIFICATION Spec
INVARIANTS SuccessMeansAll RootCauseReported
PROPERTY Terminates
