SPECIFICATION Spec
CONSTANTS
    Clients = {c1, c2}
    Conns = {k1, k2}
    Sessions = {s1}
    None = None
SYMMETRY Symmetry
INVARIANTS NoShellLeaks ServiceIsConsistent InitCmdOnce
PROPERTIES ExpiredIsTrue
