SPECIFICATION Spec
CONSTANTS
    Dir <- MCDir
    File <- MCFile
    Root = "root"
    Children <- MCChildren
    Worker = {w1, w2}
    Faulty <- FaultyB
INVARIANT
    FailureReachesCaller
