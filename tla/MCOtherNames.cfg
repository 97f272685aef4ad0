CONSTANT MaxLength = 4
SPECIFICATION NameSpec
INVARIANTS EveryNameArrives OnlyTraversalRefused
