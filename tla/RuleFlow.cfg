\* Three objects in two namespaces, created, edited and deleted, and a file somebody
\* else put there; one failed call or crash.
CONSTANTS
    loader = loader
    NumFiles = 4
    Generated = {1, 2, 3}
    MaxContent = 2
    Invalid = {2}
    NumNamespaces = 2
    NsOf <- MCNsOf
    MaxEdits = 3
    MaxFaults = 1
SPECIFICATION FlowSpec
INVARIANTS StandingRulesServed RemovesAfterWrites
PROPERTIES RemovesOnlyDeleted RegistryConverges
