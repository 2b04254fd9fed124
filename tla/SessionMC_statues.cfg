SPECIFICATION FairSpec

CONSTANTS
    Sock = {s1, s2}
    Conn = {c1, c2, c3}
    Body = {b1, b2}
    Name = {n1}
    OldName = {n1}
    Wizard = {}
    Admin = {}
    MaxUsers = 2
    MaxTries = 1
    MaxPw = 1
    None = None
PROPERTIES
    LinkdeadRemoved
