----------------------------- MODULE CoinDaemons -----------------------------
(* The coin daemon as several commands use it at a time.  On the regtest   *)
(* network mmgen-regtest and the commands of Bob and Alice start it, load  *)
(* its wallets and stop it (mmgen/daemon.py, proto/btc/daemon.py,          *)
(* proto/btc/regtest.py); elsewhere the user does, and a command checks    *)
(* that it is the right one, and loads or creates its tracking wallet      *)
(* (mmgen/rpc, proto/btc/rpc/local.py).  A command is the list of the      *)
(* steps it has left; what it has read is in that list.                    *)
EXTENDS Integers, Sequences, FiniteSets

CONSTANTS Procs, Commands, Chains, MaxFaults

VARIABLES
    cmd, todo, pc,
    d,              \* [state, loaded]: the daemon, and the wallets it has loaded
    disk,           \* [made, wallets, height, locked]: its data directory
    chain,          \* [net, block0, fork, height, version, creds]: of the daemon
    faults,
    clean           \* history: commands beside which nothing else happened

daemonVars == <<cmd, todo, pc, d, disk, chain, faults, clean>>

users == <<"miner", "bob", "alice">>
Users == {users[n] : n \in 1 .. 3}

CommandNames == {"setup", "setup on", "start", "stop", "send", "balances", "generate", "client", "client any version"}
ClientNames == {"client", "client any version"}
DaemonsAssumption == Commands \subseteq CommandNames /\ \A c \in Chains : c.net \in {"mainnet", "regtest"}

-------------------------------------------------------------------------------
(* The daemons of the test suite and of regtest, their ports and their     *)
(* directories.  A daemon is [coin, id, net, suite].                       *)
network_offset(net) == IF net = "mainnet" THEN 0 ELSE IF net = "testnet" THEN 10 ELSE 20
On(net, mainnet, testnet, regtest) == IF net = "mainnet" THEN mainnet ELSE IF net = "testnet" THEN testnet ELSE regtest
rpc_ports(b) ==
    IF b.id = "bitcoin_core" THEN On(b.net, 8332, 18332, 18443)
    ELSE IF b.id = "bitcoin_cash_node" THEN On(b.net, 8432, 18432, 18543)
    ELSE IF b.id = "litecoin_core" THEN On(b.net, 9332, 19332, 19443)
    ELSE IF b.id = "monero" THEN On(b.net, 18081, 38081, 18081)
    ELSE 8545
all_daemons == <<"openethereum", "parity", "geth", "reth", "erigon">>
IsEthereum(b) == \E n \in 1 .. 5 : all_daemons[n] = b.id
port_offset(b) ==
    IF ~IsEthereum(b) THEN 0
    ELSE (IF b.suite THEN 100 * ((CHOOSE n \in 1 .. 5 : all_daemons[n] = b.id) - 1) ELSE 0) + network_offset(b.net)
ps_adj(b) == IF b.suite THEN 1237 ELSE 0
rpc_port(b) == rpc_ports(b) + port_offset(b) + ps_adj(b)
p2p_ports(b) ==
    IF b.net = "regtest" \/ ~b.suite THEN {}
    ELSE IF b.id = "monero" THEN {rpc_port(b) - 1 + ps_adj(b)}
    ELSE IF IsEthereum(b) THEN {30303 + port_offset(b) + ps_adj(b)} ELSE {}
authrpc_ports(b) == IF b.id \in {"geth", "reth"} THEN {8551 + port_offset(b)} ELSE {}
Ports(b) == {rpc_port(b)} \union p2p_ports(b) \union authrpc_ports(b)
datadir(b) ==
    IF b.suite THEN <<"test/daemons", b.coin, b.net, IF IsEthereum(b) THEN b.id ELSE "">>
    ELSE <<"regtest", b.coin>>

KnownDaemons ==
    {[coin |-> x[1], id |-> x[2], net |-> net, suite |-> TRUE] : net \in {"mainnet", "testnet"},
        x \in {<<"BTC", "bitcoin_core">>, <<"BCH", "bitcoin_cash_node">>, <<"LTC", "litecoin_core">>, <<"XMR", "monero">>,
               <<"ETH", "geth">>, <<"ETH", "reth">>, <<"ETC", "parity">>}}
    \union {[coin |-> x[1], id |-> x[2], net |-> "regtest", suite |-> s] : s \in BOOLEAN,
        x \in {<<"BTC", "bitcoin_core">>, <<"BCH", "bitcoin_cash_node">>, <<"LTC", "litecoin_core">>}}

-------------------------------------------------------------------------------
(* What the daemon's command-line client says of it: while it has not yet, *)
(* or no longer, opened its port it is `stopped', and while it loads its   *)
(* blocks `busy'.                                                          *)
state ==
    IF d.state \in {"down", "launching", "stopping"} THEN "stopped"
    ELSE IF d.state = "warmup" THEN "busy" ELSE "ready"

Running == {p \in Procs : pc[p] = "runs"}
Is(p, step) == pc[p] = "runs" /\ todo[p] # <<>> /\ Head(todo[p])[1] = step
Then(p, steps) == todo' = [todo EXCEPT ![p] = steps \o Tail(@)] /\ UNCHANGED pc
Fail(p) == pc' = [pc EXCEPT ![p] = "failed"] /\ UNCHANGED todo
Arg(p, n) == Head(todo[p])[n]

ForEach(call) == <<<<"call", call, users[1]>>, <<"call", call, users[2]>>, <<"call", call, users[3]>>>>
start_unloaded == <<<<"start">>>>       \* a mutant of the next
start_daemon == <<<<"start">>>> \o ForEach("loadwallet")
generate(n) == <<<<"up?">>, <<"wait", "ready">>, <<"rpc", n, "miner">>>>
miner_addr == <<<<"up?">>, <<"wait", "ready">>, <<"rpc", "getnewaddress", "miner">>, <<"rpc", "block", "miner">>>>
create_wallet == ForEach("createwallet")
setup(stop_daemon) ==
    <<<<"stop?">>, <<"data dir">>, <<"start">>>> \o create_wallet \o miner_addr \o generate("more blocks") \o stop_daemon
Steps(name) ==
    IF name = "setup" THEN setup(<<<<"rpc", "stop", "">>>>)
    ELSE IF name = "setup on" THEN setup(<<>>)
    ELSE IF name = "start" THEN <<<<"start?">>>>
    ELSE IF name = "stop" THEN <<<<"stop">>>>
    ELSE IF name = "send" THEN <<<<"rpc", "send", "miner">>>> \o miner_addr
    ELSE IF name = "balances" THEN <<<<"rpc", "listunspent", "bob">>, <<"rpc", "listunspent", "alice">>>>
    ELSE IF name = "generate" THEN miner_addr
    ELSE <<<<"connect">>, <<"chain">>, <<"listwallets">>, <<"version">>>>

(* The chain of the coin has its blocks at the heights of its forks.       *)
ForkHeight == 2
tested_version == 1
OwnChain(c) == c.block0 /\ (c.height < ForkHeight \/ c.fork)

(* The user and password are taken from the options and configuration of   *)
(* the coin, of the program, and of the daemon, each from the first that   *)
(* has it; without both, from the daemon's cookie.  They are good if they  *)
(* are the daemon's own, which without both makes a cookie (external).     *)
FirstOf(field) ==
    IF chain.creds[1][field] # "" THEN chain.creds[1][field]
    ELSE IF chain.creds[2][field] # "" THEN chain.creds[2][field] ELSE chain.creds[3][field]
set_auth ==
    IF FirstOf("user") # "" /\ FirstOf("passwd") # "" THEN [user |-> FirstOf("user"), passwd |-> FirstOf("passwd")]
    ELSE [user |-> "cookie", passwd |-> "cookie"]
Accepted ==
    LET conf == chain.creds[3]
    IN IF conf.user # "" /\ conf.passwd # "" THEN [user |-> conf.user, passwd |-> conf.passwd]
       ELSE [user |-> "cookie", passwd |-> "cookie"]
Matching == \A n \in 1 .. 2 : \A field \in {"user", "passwd"} : chain.creds[n][field] \in {"", chain.creds[3][field]}

(* It has what the command needs, and nothing is under way (history).      *)
Settled == d.state = "down" \/ (d.state = "ready" /\ (chain.net = "mainnet" \/ d.loaded = disk.wallets))
Ripe(name) ==
    /\ Settled
    /\ name \in {"setup", "setup on"} => d.state = "down" /\ ~disk.made
    /\ name \in ClientNames =>
          OwnChain(chain) /\ Matching /\ d.state = "ready" /\ (chain.version <= tested_version \/ name = "client any version")
    /\ name \in {"start", "stop", "send", "balances", "generate"} => disk.wallets = Users
    /\ name = "generate" => d.state = "ready"

Begin(p) ==
    /\ pc[p] = "idle" /\ UNCHANGED <<d, disk, chain, faults>>
    /\ \E name \in Commands :
        /\ name \in ClientNames <=> chain.net = "mainnet"
        /\ cmd' = [cmd EXCEPT ![p] = name] /\ todo' = [todo EXCEPT ![p] = Steps(name)]
    /\ pc' = [pc EXCEPT ![p] = "runs"]
    /\ clean' = IF Running # {} THEN clean \ Running
                ELSE IF \E name \in Commands : cmd'[p] = name /\ Ripe(name) THEN clean \union {p} ELSE clean

End(p) ==
    /\ pc[p] = "runs" /\ todo[p] = <<>> /\ pc' = [pc EXCEPT ![p] = "done"]
    /\ UNCHANGED <<cmd, todo, d, disk, chain, faults, clean>>

-------------------------------------------------------------------------------
stable == <<cmd, chain, faults, clean>>

(* Daemon.start(), stop() and wait_for_state().  A daemon that finds its   *)
(* directory locked ends at once.                                          *)
start(p) ==
    /\ Is(p, "start") /\ UNCHANGED <<stable, d, disk>>
    /\ Then(p, IF state = "ready" THEN <<>> ELSE <<<<"wait", "stopped">>, <<"run">>, <<"wait", "ready">>>>)
run_cmd(p) ==
    /\ Is(p, "run") /\ UNCHANGED stable
    /\ IF disk.locked THEN Fail(p) /\ UNCHANGED <<d, disk>>
       ELSE d' = [state |-> "launching", loaded |-> {}] /\ disk' = [disk EXCEPT !.locked = TRUE, !.made = TRUE] /\ Then(p, <<>>)
wait_for_state(p) ==
    /\ Is(p, "wait") /\ UNCHANGED <<stable, d, disk>>
    /\ \/ state = Arg(p, 2) /\ Then(p, <<>>)
       \/ d.state = (IF Arg(p, 2) = "ready" THEN "down" ELSE "ready") /\ Fail(p)
stop(p) ==
    /\ Is(p, "stop") /\ UNCHANGED <<stable, disk>>
    /\ IF state = "ready" THEN d' = [d EXCEPT !.state = "stopping"] /\ Then(p, <<<<"wait", "stopped">>, <<"sleep">>>>)
       ELSE Then(p, <<>>) /\ UNCHANGED d
sleep(p) == Is(p, "sleep") /\ d.state # "stopping" /\ Then(p, <<>>) /\ UNCHANGED <<stable, d, disk>>

(* What a command does depending on the state it finds.                    *)
Decide(p) ==
    /\ UNCHANGED <<stable, d, disk>>
    /\ \/ Is(p, "start?") /\ Then(p, IF state = "stopped" THEN start_daemon ELSE <<>>)
       \/ Is(p, "stop?") /\ Then(p, IF state # "stopped" THEN <<<<"rpc", "stop", "">>>> ELSE <<>>)
       \/ Is(p, "up?") /\ (IF state = "stopped" THEN Fail(p) ELSE Then(p, <<>>))
       \/ /\ Is(p, "rpc")
          /\ LET call == <<"call", Arg(p, 2), Arg(p, 3)>> IN
             Then(p, IF state = "stopped" THEN Append(start_daemon, call) ELSE <<call>>)

(* The user is asked before the data of an earlier setup are deleted.      *)
create_data_dir(p) ==
    /\ Is(p, "data dir") /\ UNCHANGED <<stable, d>>
    /\ IF ~disk.made THEN Then(p, <<>>) /\ UNCHANGED disk
       ELSE \/ Fail(p) /\ UNCHANGED disk
            \/ /\ disk' = [made |-> FALSE, wallets |-> {}, height |-> 0, locked |-> FALSE]
               /\ IF d.state = "stopping" THEN Then(p, <<>>) \/ Fail(p) ELSE Then(p, <<>>)

(* A call of the daemon, for which a new client is made each time.  A     *)
(* wallet is created even in a directory that was deleted meanwhile.       *)
Blocks(what) == IF what = "block" THEN 1 ELSE IF what = "more blocks" THEN 4 ELSE 0
Call(p) ==
    /\ Is(p, "call") /\ UNCHANGED stable
    /\ LET what == Arg(p, 2)
           wallet == Arg(p, 3)
           Loads == d' = [d EXCEPT !.loaded = @ \union {wallet}] /\ Then(p, <<>>)
           Refused == Fail(p) /\ UNCHANGED <<d, disk>>
       IN \/ d.state # "ready" /\ Refused
          \/ /\ d.state = "ready"
             /\ \/ what = "stop" /\ d' = [d EXCEPT !.state = "stopping"] /\ Then(p, <<>>) /\ UNCHANGED disk
                \/ /\ what = "loadwallet"
                   /\ IF wallet \in disk.wallets \ d.loaded THEN Loads /\ UNCHANGED disk ELSE Refused
                \/ /\ what = "createwallet"
                   /\ IF wallet \in disk.wallets THEN Refused
                      ELSE Loads /\ disk' = [disk EXCEPT !.wallets = @ \union {wallet}, !.made = TRUE]
                \/ /\ what \notin {"stop", "loadwallet", "createwallet"}
                   /\ IF wallet \in d.loaded THEN disk' = [disk EXCEPT !.height = @ + Blocks(what)] /\ Then(p, <<>>) /\ UNCHANGED d
                      ELSE Refused

-------------------------------------------------------------------------------
(* A client's own checks, where the user runs the daemon.                  *)
client(p) ==
    /\ UNCHANGED <<stable, disk>>
    /\ LET If(c) == IF c THEN Then(p, <<>>) ELSE Fail(p) IN
       \/ Is(p, "connect") /\ If(d.state = "ready" /\ set_auth = Accepted) /\ UNCHANGED d
       \/ Is(p, "chain") /\ If(d.state = "ready" /\ OwnChain(chain)) /\ UNCHANGED d
       \/ Is(p, "version") /\ If(chain.version <= tested_version \/ cmd[p] = "client any version") /\ UNCHANGED d
check_or_create_daemon_wallet(p) ==
    /\ UNCHANGED <<stable, disk, d>>
    /\ \/ Is(p, "listwallets") /\ (IF d.state # "ready" THEN Fail(p)
                                   ELSE Then(p, IF "own" \in d.loaded THEN <<>> ELSE <<<<"listwalletdir">>>>))
       \/ Is(p, "listwalletdir") /\ (IF d.state # "ready" THEN Fail(p)
            ELSE Then(p, <<<<"call", IF "own" \in disk.wallets THEN "loadwallet" ELSE "createwallet", "own">>>>))

-------------------------------------------------------------------------------
(* The daemon's own steps, its dying, and a command being killed.          *)
DaemonGoesOn ==
    /\ UNCHANGED <<cmd, todo, pc, chain, faults, clean>>
    /\ \/ d.state = "launching" /\ d' = [d EXCEPT !.state = "warmup"] /\ disk' = disk
       \/ d.state = "warmup" /\ d' = [d EXCEPT !.state = "ready"] /\ disk' = disk
       \/ d.state = "stopping" /\ d' = [state |-> "down", loaded |-> {}] /\ disk' = [disk EXCEPT !.locked = FALSE]
Fault ==
    /\ faults < MaxFaults /\ faults' = faults + 1 /\ clean' = {} /\ UNCHANGED <<cmd, todo, chain>>
    /\ \/ \E p \in Running : pc' = [pc EXCEPT ![p] = "killed"] /\ UNCHANGED <<d, disk>>
       \/ /\ d.state # "down" /\ d' = [state |-> "down", loaded |-> {}] /\ disk' = [disk EXCEPT !.locked = FALSE]
          /\ UNCHANGED pc

Init ==
    /\ cmd = [p \in Procs |-> ""] /\ todo = [p \in Procs |-> <<>>] /\ pc = [p \in Procs |-> "idle"]
    /\ chain \in Chains /\ faults = 0 /\ clean = {}
    /\ \E old \in BOOLEAN :
        /\ d = [state |-> IF chain.net = "mainnet" THEN "ready" ELSE "down", loaded |-> {}]
        /\ disk = [made |-> old \/ chain.net = "mainnet", height |-> IF old THEN 5 ELSE 0, locked |-> chain.net = "mainnet",
                   wallets |-> IF ~old THEN {} ELSE IF chain.net = "mainnet" THEN {"own"} ELSE Users]

Next ==
    \/ \E p \in Procs : \/ Begin(p) \/ End(p) \/ start(p) \/ run_cmd(p) \/ wait_for_state(p) \/ stop(p) \/ sleep(p)
                        \/ Decide(p) \/ create_data_dir(p) \/ Call(p) \/ client(p) \/ check_or_create_daemon_wallet(p)
    \/ DaemonGoesOn \/ Fault

Spec == Init /\ [][Next]_daemonVars

-------------------------------------------------------------------------------
(* The daemons that may be started at once have each its own ports and its *)
(* own directory.                                                          *)
PortsApart == \A x, y \in KnownDaemons : x # y => Ports(x) \intersect Ports(y) = {} /\ datadir(x) # datadir(y)

(* A command beside which nothing else happens does not fail, if it finds  *)
(* the daemon down or with its wallets loaded and all it needs is there: a *)
(* setup, or none; a daemon for blocks; the right daemon for a client.     *)
OnlyCrowdedFail == \A p \in clean : pc[p] # "failed"

(* When all commands have ended well the daemon that runs has every wallet *)
(* loaded, and a client is ready only with its own wallet and on its own   *)
(* chain.                                                                  *)
AllLoaded ==
    faults = 0 /\ Running = {} /\ d.state = "ready" /\ (\A p \in Procs : pc[p] \in {"idle", "done"}) =>
        IF chain.net = "regtest" THEN d.loaded = disk.wallets /\ d.loaded = Users /\ disk.height >= 5
        ELSE \A p \in Procs : pc[p] = "done" => "own" \in d.loaded /\ OwnChain(chain)

DaemonsRight == ((\A p \in Procs : pc[p] = "idle") => PortsApart) /\ OnlyCrowdedFail /\ AllLoaded
===============================================================================
