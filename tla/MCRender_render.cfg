CONSTANTS
    Worker <- MCWorker
    Arity = 2
    Depth = 2
    Shape <- MCShape
    MayCancel = TRUE
SPECIFICATION Spec
INVARIANTS
    TypeOK
    ChildrenInstalledOnce
    NothingUsedAfterReuse
    OneTaskPerCell
    PhasesCountUp
    TreeCountIsTreeSize
    WorkIsDisjoint
    EveryBranchWorked
PROPERTIES
    RenderEnds
