SPECIFICATION Spec
CONSTANTS
    b1 = b1
    b2 = b2
    b3 = b3
    n1 = n1
    n2 = n2
    Bodies = {b1, b2, b3}
    Euid <- MCEuid
    Admins = {n1}
    Files = {f1}
    FtpD = FtpD
    None = None
INVARIANTS TypeOK Aligned
PROPERTIES  StaleLocksEnd ImplementsLockTable
