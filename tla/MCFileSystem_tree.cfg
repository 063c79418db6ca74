SPECIFICATION Spec
CONSTANTS
    Name = {a, b}
    NumIno = 4
    NumBlock = 4
    PerBlock = 4
    MAXFD = 2
    Misuse = {}
    CrashIn = {"mkdir", "touch"}
    Paths <- AllPaths
SYMMETRY Alike
VIEW Shown
INVARIANT TreeSound
INVARIANT LinkCounts
INVARIANT BlocksApart
INVARIANT NothingLeaked
INVARIANT ReferencesValid
