SPECIFICATION FairSpec
CONSTANTS
    Sock = {s1, s2}
    Conn = {c1, c2}
    Body = {b1, b2}
    Name = {n1}
    OldName = {}
    Wizard = {}
    Admin = {}
    MaxUsers = 1
    MaxTries = 1
    MaxPw = 1
    None = None
INVARIANTS
    IInv
    UsersBounded
PROPERTIES
    LoginEnds
    StatuesLeave
