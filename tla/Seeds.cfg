SPECIFICATION MCSpec
CONSTANTS
    Sessions = {s1, s2}
    NoSession = NoSession
    Seeds = {d1, d2, d3, d4, d5}
    SidOf <- MCSidOf
    Sids = {d1, d2, d3, d4, d5}
    NoSid = NoSid
    Unasked = Unasked
    NotFound = NotFound
    MaxIdx = 2
    MaxNonce = 1
    Bits = {1, 2}
    Counts = {2, 3}
    Passwords = {"p", "q"}
    Presets = {1, 2}
    Salts = {1, 2}
    Labels = {"x", "y"}
    KeyId <- WalletKey
    Worlds <- WalletWorlds
    Offsets = {0, 40, 100}
    Jobs <- WalletJobs
    BoxSize = 160
    MaxCommands = 2
SYMMETRY Symmetry
INVARIANTS IdsUnique SameInEverySession NotFoundIsTrue SharesRejoin ListsRight WalletsOpen FormsRight
CHECK_DEADLOCK FALSE
