CONSTANTS
    Name = {n1, n2}
    Data = {d1, d2}
    BLANK = BLANK
    UNREAD = UNREAD
    JUNK = JUNK
    BlockCount = 3
    MaxLen = 2
    MaxFree = 4
    MaxNodes = 2
SPECIFICATION Spec
INVARIANTS FsInvariant NoBlockLost
PROPERTIES FileMapImplemented OthersKeepTheirContents
SYMMETRY FsSymmetry
VIEW FsView
CONSTRAINT FewIncidents
