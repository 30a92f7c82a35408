\* Two workers, a ball and two half lines on a line of eight units.  The walk
\* ends when no cell is left.
SPECIFICATION Spec
CONSTANTS
    a1 = a1
    a2 = a2
    a3 = a3
    a4 = a4
    a5 = a5
    a6 = a6
    Evaluator = {e1, e2}
    Addr = {a1, a2, a3, a4, a5, a6}
    None = None
    Size = 8
    Decks <- MCDecks
SYMMETRY Swap
INVARIANTS
    TapesAreExact
    NothingStaleIsRead
    BasesAreExact
    SpecialisedIsExact
    SparesAreUnused
    UniformCellsAreUniform
CHECK_DEADLOCK FALSE
