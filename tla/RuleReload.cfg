\* Every content of two files, one listed by name and one by a pattern, may come
\* and go; two reloads can follow one another.
CONSTANTS
    r1 = r1
    r2 = r2
    NoOne = NoOne
    Requests <- MCRequests
    NumFiles = 2
    Literal = {1}
    MaxContent = 4
    Missing = {0, 3}
    Unparsable = {2}
    Interval = 1
    MaxTime = 2
    MaxPlans = 1
SPECIFICATION Spec
INVARIANTS TypeOK PlansUseWholeRegistry OneLoader
PROPERTIES RegistryNeverOlder ReloadsSpaced EveryPlanBuilt ImplementsCell
