\* Every order of delivery of up to three operations on two columns of two
\* entities, retractions and repetitions included.  No symmetry: it is
\* not sound for the refinement.
SPECIFICATION Spec
CONSTANTS
    Column = {radius, name}
    Entity = {e1, e2}
    Thing = {1, 2}
    Rank <- DistinctRank
    MaxTimestamp = 2
    MaxOps = 3
INVARIANTS
    NewestUpsertWins
    CollectedIsOutdated
    NewsIsTheNewest
    ReplicasAgree
PROPERTIES
    ImplementsRegister
