SPECIFICATION FairSpec
CONSTANT
    MaxEdges = 3
INVARIANTS AckMatchesVector BoundedInversion
PROPERTIES ImplementsIrqSpec Served
