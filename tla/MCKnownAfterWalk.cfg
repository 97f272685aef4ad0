SPECIFICATION Spec
CONSTANTS
    Path <- NoNestedFolder
    Root = "root"
    Parent <- MCParent
    Within <- MCWithin
    Content <- MCContent
    Absent = Absent
    Folder = Folder
    Alias = Alias
    FileName <- Files
    FolderName <- Folders
    UserFolder <- MovingFolders
    ReuseNames = FALSE
    QuietAt <- Nowhere
    MaxVersion = 2
    MaxFaults = 0
INVARIANT StoredIsKnown
