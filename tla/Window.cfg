SPECIFICATION Spec
CONSTANTS
    Deliveries = {d1, d2, d3, d4}
    Capacity = 3
INVARIANT TypeOK
INVARIANT DedupeExact
INVARIANT ReadingCoversResidents
PROPERTY ImplementsPool
