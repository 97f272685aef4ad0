SPECIFICATION Spec
CONSTANTS
    Path <- NoNestedFolder
    Root = "root"
    Parent <- MCParent
    Within <- MCWithin
    Content <- MCContent
    Absent = Absent
    Folder = Folder
    Alias = Alias
    FileName <- Files
    FolderName <- Folders
    UserFolder <- MovingFolders
    ReuseNames = TRUE
    QuietAt <- DuringWalk
    MaxVersion = 3
    MaxFaults = 0
PROPERTIES
    PollOnlyForgets
