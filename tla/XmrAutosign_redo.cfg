SPECIFICATION FairSpec
CONSTANTS
    Wallets = {w1}
    NoWallet = NoWallet
    Xtx = {x1}
    NoFile = NoFile
    MaxOut = 1
    MaxReceived = 1
    MaxFaults = 1
PROPERTIES FailedRedone
