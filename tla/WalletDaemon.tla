---------------------------- MODULE WalletDaemon ----------------------------
(* The Monero wallet daemon as the commands of mmgen-xmrwallet use it.     *)
(* Every command restarts it on the port they all share, with its own      *)
(* wallet directory, calls it, and stops it when it exits.  Whether it     *)
(* runs is found out by connecting to the port; whom to kill is read from  *)
(* a file the daemon writes.  A killed command leaves its daemon behind.   *)
EXTENDS Naturals, FiniteSets

CONSTANTS
    Procs,      \* commands
    Nobody,     \* no daemon, no process ID
    MaxKills    \* bound: commands killed

VARIABLES
    pc,
    port,       \* the command whose daemon listens, or Nobody
    pidfile,    \* the daemon whose process ID is in the file, or Nobody
    open,       \* the daemon has a wallet open
    served,     \* the daemon that served the command's last call
    keep,       \* --no-stop-wallet-daemon
    kills,
    alone       \* history: commands no other one has run beside

vars == <<pc, port, pidfile, open, served, keep, kills, alone>>

Running == {p \in Procs : pc[p] \notin {"idle", "exited", "killed"}}

Goto(p, l) == pc' = [pc EXCEPT ![p] = l]

daemonVars == <<port, pidfile, open>>
envVars == <<served, keep, kills, alone>>

Ready == port # Nobody

StartCommand(p) ==
    /\ pc[p] = "idle"
    /\ Goto(p, "restart")
    /\ alone' = IF Running = {} THEN alone ELSE alone \ (Running \union {p})
    /\ UNCHANGED <<daemonVars, served, keep, kills>>

(* stop_daemon(), for a restart or at exit.  The daemon is asked to stop;  *)
(* without an open wallet it refuses and is killed.                        *)
AfterStop(p) == IF pc[p] = "restart" THEN "stopped?" ELSE "gone?"

StopDaemon(p) ==
    /\ pc[p] \in {"restart", "stop"}
    /\ Goto(p, IF Ready /\ ~open /\ pidfile = Nobody
               THEN IF pc[p] = "restart" THEN "stop" ELSE "exited"    \* no file: the command fails
               ELSE AfterStop(p))
    /\ IF ~Ready THEN UNCHANGED daemonVars
       ELSE IF open THEN port' = Nobody /\ open' = FALSE /\ UNCHANGED pidfile
       ELSE /\ port' = IF pidfile = port THEN Nobody ELSE port
            /\ UNCHANGED <<open, pidfile>>
    /\ UNCHANGED envVars

(* wait_for_state(): polled until a timeout, which ends the command.       *)
WaitStopped(p) ==
    /\ pc[p] \in {"stopped?", "gone?"}
    /\ Goto(p, CASE pc[p] = "gone?" -> "exited"
                 [] pc[p] = "stopped?" /\ Ready -> "stop"
                 [] OTHER -> "start")
    /\ UNCHANGED <<daemonVars, envVars>>

(* start(): the file of the last daemon is removed before the port is      *)
(* looked at.                                                              *)
RemovePidfile(p) ==
    /\ pc[p] = "start"
    /\ pidfile' = Nobody
    /\ Goto(p, "ready?")
    /\ UNCHANGED <<port, open, envVars>>

Start(p) ==
    /\ pc[p] = "ready?"
    /\ Goto(p, IF Ready THEN "use" ELSE "spawn")
    /\ UNCHANGED <<daemonVars, envVars>>

(* Of two daemons started at a time one gets the port and the other ends.  *)
Spawn(p) ==
    /\ pc[p] = "spawn"
    /\ IF Ready THEN UNCHANGED daemonVars
                ELSE port' = p /\ pidfile' = p /\ open' = FALSE
    /\ Goto(p, "use")
    /\ UNCHANGED envVars

Call(p) ==
    /\ pc[p] = "use"
    /\ IF Ready THEN served' = [served EXCEPT ![p] = port] /\ open' \in BOOLEAN /\ UNCHANGED pc
                ELSE served' = served /\ open' = open /\ Goto(p, "stop")
    /\ UNCHANGED <<port, pidfile, keep, kills, alone>>

FinishAndLeave(p) ==
    /\ pc[p] = "use"
    /\ Goto(p, "exited")
    /\ UNCHANGED <<daemonVars, envVars>>

(* atexit, for every way the command may end but a kill.                   *)
Finish(p) ==
    /\ pc[p] = "use"
    /\ Goto(p, IF p \in keep THEN "exited" ELSE "stop")
    /\ UNCHANGED <<daemonVars, envVars>>

Kill(p) ==
    /\ p \in Running /\ kills < MaxKills
    /\ kills' = kills + 1
    /\ Goto(p, "killed")
    /\ UNCHANGED <<daemonVars, served, keep, alone>>

Init ==
    /\ pc = [p \in Procs |-> "idle"]
    /\ port = Nobody /\ pidfile = Nobody /\ open = FALSE
    /\ served = [p \in Procs |-> Nobody]
    /\ keep \in SUBSET Procs
    /\ kills = 0
    /\ alone = Procs

Next == \E p \in Procs :
    \/ StartCommand(p) \/ StopDaemon(p) \/ WaitStopped(p) \/ RemovePidfile(p) \/ Start(p)
    \/ Spawn(p) \/ Call(p) \/ Finish(p) \/ Kill(p)

Spec == Init /\ [][Next]_vars

-------------------------------------------------------------------------------
(* A command beside which no other one runs is served by the daemon it     *)
(* started, with its wallet directory, even if a command before it was     *)
(* killed or left its daemon running; and no daemon of its own outlives    *)
(* it, if it was to be stopped.                                            *)
OwnDaemon == \A p \in alone :
    /\ served[p] \in {p, Nobody}
    /\ pc[p] = "use" => port = p
    /\ pc[p] = "exited" /\ p \notin keep => port = Nobody \/ port # p
===============================================================================
