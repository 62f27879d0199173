SPECIFICATION SweepSpec
CONSTANTS
    Wallets = {w1}
    NoWallet = NoWallet
    Xtx = {x1}
    NoFile = NoFile
    MaxOut = 2
    MaxReceived = 2
    MaxFaults = 1
    Procs = {c1}
    Nobody = Nobody
    MaxKills = 1
    Jobs <- OpsJobs
    Worlds <- OpsWorlds
    Labels = {"", "x", "n", "a", "Primary account"}
    NewLabel = "n"
    MaxCommands = 2
    MaxFiles = 2
    MaxFails = 1
SYMMETRY AllSymmetric
INVARIANTS SweepsAsAsked
