------------------------------- MODULE MCMonero -------------------------------
(* Monero wallets: signing with a removable device (XmrAutosign), the      *)
(* wallet daemon the commands share (WalletDaemon), and what the commands  *)
(* do with the wallets (XmrOps).  A behaviour is about one of them.        *)
EXTENDS XmrAutosign, TLC, Integers

CONSTANTS Procs, Nobody, MaxKills,                                    \* of WalletDaemon
    Jobs, Worlds, Labels, NewLabel, MaxCommands, MaxFiles, MaxFails    \* of XmrOps

VARIABLES subject,
    at, port, pidfile, open, served, keep, kills, alone,
    wallets, dumps, current, job, pc, todo, shown, dest, chk, tx, files, before, count

commandVars == <<at, port, pidfile, open, served, keep, kills, alone>>
hosted == <<wallets, dumps, current, job, pc, todo, shown, dest, chk, tx, files, before, count>>

Daemon == INSTANCE WalletDaemon WITH pc <- at

Ops == INSTANCE XmrOps WITH seen <- shown, opened <- current

ASSUME DaemonConstants == Nobody \notin Procs

ASSUME OpsConstants == Ops!OpsAssumption

NoOps ==
    /\ wallets = 0 /\ dumps = 0 /\ current = 0 /\ job = 0 /\ pc = 0 /\ todo = 0 /\ shown = 0 /\ dest = 0
    /\ chk = 0 /\ tx = 0 /\ files = 0 /\ before = 0 /\ count = 0

-------------------------------------------------------------------------------
(* Two wallets of one key list, of which one may be missing and one have   *)
(* more accounts than the other.                                           *)
Acct(n) == [i \in 1 .. n |-> IF i = 1 THEN "a" ELSE ""]
OpsWorlds ==
    {[v \in {1, 2} \X BOOLEAN |-> IF v = <<1, FALSE>> THEN a ELSE IF v = <<2, FALSE>> THEN b ELSE c] :
        a \in {<<>>, <<Acct(1), Acct(2)>>}, b \in {<<Acct(1)>>, <<Acct(2), Acct(1)>>, <<Acct(1), Acct(2)>>},
        c \in {<<>>, <<Acct(2)>>}}
NoJob == [op |-> "", src |-> 1, acct |-> -1, dest |-> 0, dacct |-> -1, idx |-> -1, label |-> "x", addr |-> <<9, 0, 0>>,
          watch |-> FALSE, norelay |-> FALSE, walls |-> <<>>]
OpsJobs ==
    {[NoJob EXCEPT !.op = o, !.acct = a, !.dest = d[1], !.dacct = d[2]] :
        o \in {"sweep", "sweep_all"}, a \in {0, 1}, d \in {<<0, -1>>, <<1, 0>>, <<2, -1>>, <<2, 0>>, <<2, 1>>}}
    \union {[NoJob EXCEPT !.op = o, !.acct = 0, !.watch = TRUE, !.norelay = TRUE] : o \in {"sweep", "transfer"}}
    \union {[NoJob EXCEPT !.op = "new", !.acct = a] : a \in {-1, 1}}
    \union {[NoJob EXCEPT !.op = "label", !.acct = 1, !.idx = i] : i \in {0, 1}}
    \union {[NoJob EXCEPT !.op = o, !.walls = <<1, 2>>, !.watch = v] : o \in {"create", "dump", "restore"}, v \in BOOLEAN}
    \union {[NoJob EXCEPT !.op = "restore", !.walls = <<2>>, !.watch = v] : v \in BOOLEAN}

-------------------------------------------------------------------------------
MCInit == Init /\ Daemon!Init /\
    \/ subject = "autosign" /\ keep = {} /\ NoOps
    \/ subject = "daemon" /\ NoOps
    \/ subject = "ops" /\ keep = {} /\ Ops!Init

MCNext ==
    \/ subject = "autosign" /\ Next /\ UNCHANGED <<subject, commandVars, hosted>>
    \/ subject = "daemon" /\ Daemon!Next /\ UNCHANGED <<subject, vars, hosted>>
    \/ subject = "daemon" /\ UNCHANGED <<subject, vars, commandVars, hosted>>    \* all commands have ended
    \/ subject = "ops" /\ Ops!Next /\ UNCHANGED <<subject, vars, commandVars>>
    \/ subject = "ops" /\ UNCHANGED <<subject, vars, commandVars, hosted>>

MCSpec == MCInit /\ [][MCNext]_<<subject, vars, commandVars, hosted>>

(* A command alone is served by its own daemon (WalletDaemon); it spends   *)
(* from, and to, where it was told, loses no address, and restores what    *)
(* was dumped (XmrOps).                                                    *)
CommandsRight ==
    /\ Daemon!OwnDaemon
    /\ subject = "ops" => Ops!OpsRight

(* A behaviour of the operations only.                                     *)
SweepSpec == (MCInit /\ subject = "ops") /\ [][MCNext]_<<subject, vars, commandVars, hosted>>

(* A sweep to an account there is, is not refused (XmrOps).                *)
SweepsAsAsked == subject = "ops" => Ops!SweepsAsAsked

AllSymmetric == Permutations(Wallets) \union Permutations(Xtx) \union Permutations(Procs)
===============================================================================
