SPECIFICATION FilesSpec
CONSTANTS
    j1 = j1
    j2 = j2
    j3 = j3
    c1 = c1
    c2 = c2
    n1 = n1
    n2 = n2
    f1 = f1
    f2 = f2
    f3 = f3
    NoConn = NoConn
    NoName = NoName
    NoFile = NoFile
    Jobs <- OneJob
    Conns <- OneConn
    Names <- TwoNames
    Files <- ThreeFiles
    MaxUpload = 1
    MaxSource = 2
SYMMETRY MCSymmetry
PROPERTY RemoveTold
