CONSTANTS
    a = a
    b = b
    c = c
    n1 = n1
    n2 = n2
    Keys <- MCKeys
    Namespaces <- MCNamespaces
    NsOf <- MCNsOf
    Groups <- MCGroups
    Unmarshalable <- MCUnmarshalable
    None = None
    Live = Live
    WorkCap = 1
    MaxVersion = 3
    MaxFails = 2
SPECIFICATION FairSpec
INVARIANTS NoLostUpdate FinalFlush
PROPERTIES ImplementsWriteBehind ShutdownEnds SavedInTheEnd
CHECK_DEADLOCK FALSE
