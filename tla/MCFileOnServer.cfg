SPECIFICATION Spec
CONSTANTS
    Path <- OnlyD
    Root = "root"
    Parent <- MCParent
    Within <- MCWithin
    Content <- MCContent
    Absent = Absent
    Folder = Folder
    Alias = Alias
    FileName <- NameD
    FolderName <- Folders
    UserFolder <- MovingFolders
    ReuseNames = FALSE
    QuietAt <- DuringWalkAndCheck
    MaxVersion = 3
    MaxFaults = 0
PROPERTIES
    ServerSurvives
