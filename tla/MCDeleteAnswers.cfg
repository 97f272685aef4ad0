SPECIFICATION Spec
CONSTANTS
    Path <- MCPath
    Root = "root"
    Parent <- MCParent
    Within <- MCWithin
    Content = {1}
    Absent = Absent
    Folder = Folder
    h1 = h1
    h2 = h2
    Handler = {h1, h2}
    Nothing = Nothing
    Partial = Partial
    Together <- AnyTwo
    DiskFull = FALSE
INVARIANT
    DeleteAnswers
