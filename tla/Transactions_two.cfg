SPECIFICATION MCSpec
CONSTANTS
    Tx = {t1}
    NoTx = NoTx
    Procs = {p1, p2}
    NoKeys = {}
    OneAtATime = FALSE
    MaxStamp = 2
    MaxFaults = 1
    CreateJobs <- MCCreateJobs
    Coins = {o1, o2}
    Value <- MCValue
    Ether = 5
    Own = {ka}
    Data = Data
    NoAmt = NoAmt
    Fees = {0, 1, 2, 3, 4, 5, 6, 7}
    MaxFee = 6
    SignJobs <- MCSignJobs
    Subseeds <- MCSubseeds
    NoSeed = NoSeed
    Types = {1, 2}
    Preferred <- MCPreferred
    Lists <- WalletLists
    AnyType = AnyType
    NoAddr = NoAddr
    Option <- CommandOption
    CoinOption <- OwnOption
    Sets <- MCSets
    Groups <- MCGroups
    Good <- MCGood
    Begins <- MCBegins
    Starts <- MCStarts
    MaxKills = 2
    SendJobs <- MCSendJobs
    MaxMoves = 4
    Devices = {1}
    MaxKeys = 2
    MsgJobs <- MCMsgJobs
    MsgSubseeds <- MCMsgSubseeds
    SwapJobs <- MCSwapJobs
    Assets <- SwapAssets
    Unsupported = {"DOGE"}
    Prec = 2
    Outs = {1000, 98765}
    Funds = 7
    SwapFees = {1, 2}
    MaxTime = 2
    PromptJobs <- MCPromptJobs
    Timeout = 3
    Delay = 2
    Repeat = 1
    MaxPresses = 4
    MaxBuf = 2
    MaxSize = 2
    ka = ka
    aa = aa
    bb = bb
    o1 = o1
    o2 = o2
SYMMETRY Symmetry
INVARIANTS SentIsTrue MadeRight SignedRight SentAsFiled OptionsRight
PROPERTIES SentStaysSent BumpReplaces
