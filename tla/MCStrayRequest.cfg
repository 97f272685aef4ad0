SPECIFICATION Spec
CONSTANTS
    Path <- NoNestedFolder
    Root = "root"
    Parent <- MCParent
    Within <- MCWithin
    Content <- MCContent
    Absent = Absent
    Folder = Folder
    Alias = Alias
    FileName <- Files
    FolderName <- Folders
    UserFolder <- MovingFolders
    ReuseNames = FALSE
    QuietAt <- DuringWalk
    MaxVersion = 3
    MaxFaults = 1
PROPERTIES
    EveryWalkSynchronizes
