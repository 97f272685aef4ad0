SPECIFICATION Spec
CONSTANTS
    Path <- DAndG
    Root = "root"
    Parent <- MCParent
    Within <- MCWithin
    Content <- MCContent
    Absent = Absent
    Folder = Folder
    Alias = Alias
    FileName <- NamesDAndG
    FolderName <- Folders
    UserFolder <- MovingFolders
    ReuseNames = FALSE
    QuietAt <- DuringWalkAndCheck
    MaxVersion = 3
    MaxFaults = 0
INVARIANTS
    RecordedIsStored
