SPECIFICATION Spec
CONSTANTS
    None = None
    Users = {a, b}
    Admins = {a}
    Ids = {m1, m2, m3}
    MaxMesgs = 1
    MaxHurt = 1
    a = a
    b = b
INVARIANTS TypeOK BoxesMatch
 
SYMMETRY Symmetry
