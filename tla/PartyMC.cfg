SPECIFICATION Spec
CONSTANTS
    None = None
    Players = {a, b, c}
    MaxParty = 2
    Timeout = 2
    MaxTimers = 2
    a = a
    b = b
    c = c
INVARIANTS  InvitationsTimed
SYMMETRY Symmetry
