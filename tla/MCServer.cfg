SPECIFICATION Spec
SYMMETRY MCSymmetry
CONSTANTS
    Path <- MCPath
    Root = "root"
    Parent <- MCParent
    Within <- MCWithin
    Content = {1}
    Absent = Absent
    Folder = Folder
    User = "user1"
    Password = "pwd1"
    Token = {NoToken, t1, t2}
    NoToken = NoToken
    NoJson = NoJson
    AnyName = {"user1", "user9"}
    AnyWord = {"pwd1", "pwd9"}
    OtherMethod = OtherMethod
    Dotted = {"a..b"}
INVARIANTS
    TypeOK
    ClientIsUnderstood
    ServedHaveFolder
PROPERTIES
    RefusedChangesNothing
    ChangesAreAuthorised
