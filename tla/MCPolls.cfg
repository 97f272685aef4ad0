SPECIFICATION Spec
CONSTANTS
    Path <- MCPath
    Root = "root"
    Parent <- MCParent
    Within <- MCWithin
    Content <- MCContent
    Absent = Absent
    Folder = Folder
    Alias = Alias
    FileName <- Files
    FolderName <- Folders
    UserFolder <- MovingFolders
    ReuseNames = FALSE
    QuietAt <- DuringWalk
    MaxVersion = 3
    MaxFaults = 1
INVARIANTS
    TypeOK
    RecordedIsStored
    StoredIsKnown
PROPERTIES
    ServerSurvives
    Converges
    WalkSynchronizes
    IsMirror
