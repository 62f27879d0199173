SPECIFICATION MCSpec
CONSTANTS
  Procs = {p, q}
  Addrs = {a, b}
  Ids = {i}
  NoFile = NoFile
  Empty = Empty
  Garbage = Garbage
  None = None
  Plain = Plain
  NoWallet = NoWallet
  ListAddrs = {1, 2, 3, 4}
  Wallets <- ListWallets
  Height = 2
  MaxKeys = 2
  Entries <- DumpEntries
  Networks = {1, 2}
  Commands = {"setup", "setup on", "start", "stop", "send", "balances", "generate", "client", "client any version"}
  Chains <- DaemonChains
  MaxFaults = 1
  MaxRuns = 2
  MaxOps = 2
CHECK_DEADLOCK FALSE
INVARIANTS TypeOK CheckedBase Readable ListAsTold DumpRestores
PROPERTIES NoLostUpdate IdsKept EachSavesItsOwn
SYMMETRY Symmetric
