--------------------------- MODULE MCTrackingWallet ---------------------------
(* The tracking wallet: the file shared by several commands (TwStore), the *)
(* interactive list of its addresses (TwView), what its lists say         *)
(* (Listings), its export and import (TwDump), and the daemon that keeps   *)
(* the wallets of Bitcoin (CoinDaemons).  A behaviour is about one of      *)
(* them; those but the first share the variables that have one name.       *)
EXTENDS TwStore, TLC, Integers, Sequences

CONSTANTS
    ListAddrs, Wallets, Height, MaxKeys,    \* of TwView
    Entries, Networks, NoWallet,            \* of TwDump
    Commands, Chains, MaxFaults             \* of CoinDaemons

VARIABLES subject,
    wallet, todo, pc, chain, view, disp, keys,
    prune, data, pos, top, tag, sel, nth, auto, dfl, told,
    coin, net, orig, dump, bad, copy, ignore,
    cmd, daemon, disk, faults, clean,
    job, tip, labels, blockcount, got, rows, picked, outside

viewVars == <<prune, data, pos, top, tag, sel, nth, auto, dfl, told>>
dumpVars == <<coin, net, orig, dump, bad, copy, ignore>>
daemonVars == <<cmd, daemon, disk, faults, clean>>
listVars == <<job, tip, labels, blockcount, got, rows, picked, outside>>
others == <<wallet, todo, pc, chain, view, disp, keys, viewVars, dumpVars, daemonVars, listVars>>

Idle(x, y, z) == x = 0 /\ y = 0 /\ z = 0

NoView == Idle(prune, data, pos) /\ Idle(top, tag, sel) /\ Idle(nth, auto, dfl) /\ told = 0
NoDump == Idle(coin, net, orig) /\ Idle(dump, bad, copy) /\ ignore = 0
NoDaemon == Idle(cmd, daemon, disk) /\ faults = 0 /\ clean = 0
NoLists == Idle(job, tip, labels) /\ Idle(blockcount, got, rows) /\ picked = 0 /\ outside = 0

View == INSTANCE TwView WITH Addrs <- ListAddrs, n <- nth

ASSUME ViewConstants == View!ViewAssumption

Dump == INSTANCE TwDump

ASSUME DumpConstants == Dump!DumpAssumption

Daemons == INSTANCE CoinDaemons WITH d <- daemon

ASSUME DaemonConstants == Daemons!DaemonsAssumption

-------------------------------------------------------------------------------
(* Four addresses: with a balance; used and empty; labelled; never used.   *)
Listed(amt, used, label) == [amt |-> amt, used |-> used, label |-> label, there |-> TRUE]

ListWallets ==
    {<<Listed(1, TRUE, FALSE), Listed(0, TRUE, TRUE), Listed(2, TRUE, FALSE), Listed(0, FALSE, TRUE)>>,
     <<Listed(1, TRUE, FALSE), Listed(0, TRUE, TRUE), Listed(0, TRUE, FALSE), Listed(0, FALSE, FALSE)>>}

(* Two IDs and two addresses, with and without a label.                    *)
DumpEntry(id, addr, comment) == [id |-> id, addr |-> addr, comment |-> comment, amt |-> id]

DumpEntries == {DumpEntry(x[1], x[2], x[3]) : x \in {1, 2} \X {1, 2} \X {0, 1}}

(* Clients with credentials from every source, chains of the coin and of   *)
(* another one, and a daemon of a later version.                           *)
Credentials(user, passwd) == [user |-> user, passwd |-> passwd]
CredentialSets == LET pairs == {Credentials(x, y) : x \in {"", "u"}, y \in {"", "x", "y"}} IN {<<x, y, z>> : x, y, z \in pairs}
NoCredentials == LET none == Credentials("", "") IN <<none, none, none>>
DaemonChain(for, block0, fork, height, version, creds) ==
    [net |-> for, block0 |-> block0, fork |-> fork, height |-> height, version |-> version, creds |-> creds]

DaemonChains ==
    {DaemonChain("regtest", TRUE, TRUE, 0, 1, NoCredentials)}
    \union {DaemonChain("mainnet", x, y, h, v, NoCredentials) : x, y \in BOOLEAN, h, v \in {1, 2}}
    \union {DaemonChain("mainnet", TRUE, TRUE, 1, 1, c) : c \in CredentialSets}

(* A chain with payments to the wallet, from it, within it and unconfirmed, *)
(* a coinbase, a wallet with an address that is not MMGen's; accounts of   *)
(* two Monero wallets; and tables for terminals of every width.            *)
NoMMGen == [id |-> 0, sid |-> "Non-wallet", comment |-> ""]
Label(n, sid, comment) == [id |-> n, sid |-> sid, comment |-> comment]
Paid(addr, val) == [addr |-> addr, val |-> val]
Mined(ins, outs, ht) == [ins |-> ins, outs |-> outs, ht |-> ht, coinbase |-> FALSE]
Coinbase(addr, val, ht) == [Mined({}, <<Paid(addr, val)>>, ht) EXCEPT !.coinbase = TRUE]
Chain1 == <<
    Coinbase(7, 10, 1), Mined({<<1, 1>>}, <<Paid(1, 5), Paid(9, 4)>>, 1), Mined({<<2, 2>>}, <<Paid(2, 1), Paid(1, 1), Paid(2, 1)>>, 2),
    Mined({<<2, 1>>, <<3, 1>>}, <<Paid(8, 2), Paid(1, 3)>>, 3), Mined({<<4, 2>>}, <<Paid(1, 1), Paid(4, 1)>>, 0)>>
Chain2 == [Chain1 EXCEPT ![3] = Coinbase(2, 1, 2)]
Fees1 == <<0 - 10, 1, 1, 1, 1>>
Labels1 == (1 :> Label(1, "A", "")) @@ (2 :> Label(2, "B", "x"))
Labels2 == Labels1 @@ (4 :> NoMMGen)
ListOf(kind, ch, ls, m, s) ==
    [kind |-> kind, chain |-> ch, labels |-> ls, minconf |-> m, since |-> s, fees |-> Fees1, new |-> {3}]
Subaddr(wal, ac, n, bal, open, used) ==
    [wallet |-> wal, acct |-> ac, idx |-> n, bal |-> bal, unlocked |-> open, locked |-> 0, used |-> used]
Dumped == {Subaddr(1, 0, 0, 3, 3, TRUE), Subaddr(1, 0, 1, 0, 0, FALSE), Subaddr(1, 1, 0, 2, 1, TRUE), Subaddr(1, 1, 2, 4, 4, TRUE),
           Subaddr(2, 0, 0, 1, 1, TRUE), [Subaddr(2, 0, 3, 5, 0, TRUE) EXCEPT !.locked = 3]}
AccountList(empty) == [kind |-> "accounts", chain |-> <<>>, labels |-> <<>>, dump |-> Dumped, empty |-> empty, new |-> {}]
TableOf(table, main, comment, fixed, term, wd, txid) ==
    [kind |-> "widths", table |-> table, main |-> main, comment |-> comment, fixed |-> fixed, term |-> term, wide |-> wd,
     txid |-> txid, chain |-> <<>>, labels |-> <<>>]
ListJobs ==
    {ListOf(kind, ch, ls, m, s) : kind \in {"history"}, ch \in {Chain1, Chain2}, ls \in {Labels1, Labels2}, m \in {1}, s \in {0, 2, 0 - 1}}
    \union {ListOf(kind, Chain1, ls, m, 0) : kind \in {"unspent", "addresses", "balance"}, ls \in {Labels1, Labels2}, m \in {0, 1, 2}}
    \union {AccountList(empty) : empty \in BOOLEAN}
    \union {TableOf(t[1], t[2], comment, 30, term, wd, t[3]) :
                t \in {<<"unspent", 42, FALSE>>, <<"addresses", 34, FALSE>>, <<"addresses", 62, FALSE>>, <<"history", 15, FALSE>>,
                       <<"history", 33, TRUE>>, <<"accounts", 95, FALSE>>},
                comment \in {0, 8, 40}, term \in 40 .. 160, wd \in BOOLEAN}

Lists == INSTANCE Listings WITH Jobs <- ListJobs, NoLabel <- NoMMGen, MaxOutside <- 2, MaxKeys <- 3

-------------------------------------------------------------------------------
OthersInit ==
    \/ /\ subject = "list" /\ View!Init /\ todo = 0 /\ chain = 0
       /\ NoDump /\ NoDaemon /\ NoLists
    \/ /\ subject = "listings" /\ Lists!Init /\ wallet = 0 /\ todo = 0
       /\ NoView /\ NoDump /\ NoDaemon
    \/ /\ subject = "dump" /\ Dump!Init /\ chain = 0 /\ Idle(view, disp, keys)
       /\ NoView /\ NoDaemon /\ NoLists
    \/ /\ subject = "daemon" /\ Daemons!Init /\ wallet = 0 /\ Idle(view, disp, keys)
       /\ NoView /\ NoDump /\ NoLists

MCInit == Init /\
    \/ /\ subject = "file" /\ Idle(wallet, todo, pc) /\ chain = 0 /\ Idle(view, disp, keys)
       /\ NoView /\ NoDump /\ NoDaemon /\ NoLists
    \/ OthersInit /\ file = NoFile

OthersNext ==
    \/ subject = "list" /\ View!Next /\ UNCHANGED <<todo, chain, dumpVars, daemonVars, listVars>>
    \/ subject = "listings" /\ Lists!Next /\ UNCHANGED <<wallet, todo, viewVars, dumpVars, daemonVars>>
    \/ subject = "dump" /\ Dump!Next /\ UNCHANGED <<chain, view, disp, keys, viewVars, daemonVars, listVars>>
    \/ subject = "daemon" /\ Daemons!Next /\ UNCHANGED <<wallet, view, disp, keys, viewVars, dumpVars, listVars>>

MCNext ==
    \/ subject = "file" /\ Next /\ UNCHANGED <<subject, others>>
    \/ OthersNext /\ UNCHANGED <<subject, vars>>

allVars == <<subject, vars, others>>

MCSpec == MCInit /\ [][MCNext]_allVars

(* Entries are pruned as the user's answers, taken together, say, and the  *)
(* screen shows the list (TwView); what the lists say is true (Listings).  *)
ListAsTold ==
    /\ subject = "list" => View!PrunedAsTold /\ View!NumbersRight /\ View!OnList
    /\ subject = "listings" => Lists!ListingsTrue

(* An import gives the wallet that was dumped (TwDump), and a command that *)
(* is alone has its daemon, with the wallets it needs (CoinDaemons).       *)
DumpRestores ==
    /\ subject = "dump" => Dump!DumpRestores
    /\ subject = "daemon" => Daemons!DaemonsRight

(* Processes, addresses and IDs are interchangeable.                      *)
Symmetric == Permutations(Procs) \union Permutations(Addrs) \union Permutations(Ids)
===============================================================================
