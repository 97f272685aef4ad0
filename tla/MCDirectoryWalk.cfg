SPECIFICATION Spec
CONSTANTS
    Dir <- MCDir
    File <- MCFile
    Root = "root"
    Children <- MCChildren
    Worker = {w1, w2, w3}
    Faulty <- FaultyB
INVARIANTS
    TypeOK
    WalkComplete
    EachFolderOnce
    CountIsOpenBranches
    NoStuckWait
    ParentFirst
    RecordedIsSaved
    RequestsApart
PROPERTIES
    WalkEnds
    WatchesAll
