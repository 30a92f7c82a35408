CONSTANTS
    None = None
    MinOp = MinOp
    Thread <- MCThread
    Addr <- MCAddr
    Slot <- MeshSlots
    MaxNested = 2
    Atom <- Attr
    Op <- MCOp
    Sphere <- MCSphere
    Coord <- MCCoord
    Radius <- MCRadius
    Rank <- MCRank
    Updates <- MCUpdates
    InitialAttr <- MCInitialAttr
    InitialForest <- MCInitialForest
SPECIFICATION Spec
INVARIANTS
    Deduplicated
    NoDanglingPointer
    NeverExpired
    TasksFindTheirDocument
    
    MeshShowsWhatWasRead
    NoLeak
PROPERTIES
    UsesCacheCarefully
    ClosingEnds
