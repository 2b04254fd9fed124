SPECIFICATION Spec
SYMMETRY Symmetry
CONSTANTS
    Sock = {s1, s2}
    Conn = {c1, c2, c3}
    Body = {b1, b2}
    Name = {n1}
    OldName = {n1}
    Wizard = {n1}
    Admin = {n1}
    MaxUsers = 2
    MaxTries = 3
    MaxPw = 1
    None = None
INVARIANT IInv
