CONSTANT MaxLength = 5
SPECIFICATION NameSpec
INVARIANTS NameTypeOK NoTraversal NameArrives
