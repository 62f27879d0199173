------------------------------ MODULE OnlineTx ------------------------------
(***************************************************************************)
(* The online commands that work on the removable device: mmgen-txcreate,  *)
(* mmgen-txbump and mmgen-txsend (send, --mark-sent, --abort, --status)    *)
(* with the --autosign option.  Each run of a command is a process that    *)
(* mounts the device, lists it once, keeps what it saw while the user and  *)
(* the network answer, then writes or shreds files, and unmounts at exit.  *)
(***************************************************************************)
EXTENDS AutosignDevice

CONSTANTS
    Procs,      \* terminals in which the user runs online commands
    MaxStamp    \* bound on the number of transactions ever composed

ASSUME OnlineAssumption == MaxStamp \in Nat

VARIABLES
    pc,         \* where each process is
    tgt,        \* the transaction it works on
    base,       \* txbump: the transaction being replaced
    todo,       \* --abort: extensions of the files still to be shredded
    reply,      \* what the last --abort, --status or txbump answered
    stamp,      \* creation timestamp stored in the transaction's files
    clock,      \* the last timestamp given out
    net,        \* the network's view of each transaction
    fam,        \* the transaction whose inputs it spends
    claimed     \* transactions the user declared sent

procVars == <<pc, tgt, base, todo, reply>>
txVars == <<stamp, clock, fam>>
netVars == <<net, claimed>>
onlineVars == <<procVars, txVars, netVars>>

Step == {"idle", "create", "wraw", "send", "mark", "wsub", "confirm", "abort", "erase", "exit"}

Reply == {"none", "abort_refused", "status_refused", "bump_refused"}

OnlineTypeOK ==
    /\ pc \in [Procs -> Step]
    /\ tgt \in [Procs -> Tx \union {NoTx}]
    /\ base \in [Procs -> Tx \union {NoTx}]
    /\ todo \in [Procs -> SUBSET {"raw", "sig"}]
    /\ reply \in [Procs -> Reply]
    /\ stamp \in [Tx -> Nat]
    /\ clock \in Nat
    /\ net \in [Tx -> {"unseen", "mempool", "replaced", "confirmed"}]
    /\ fam \in [Tx -> Tx]
    /\ claimed \subseteq Tx

OnlineInit ==
    /\ pc = [p \in Procs |-> "idle"]
    /\ tgt = [p \in Procs |-> NoTx]
    /\ base = [p \in Procs |-> NoTx]
    /\ todo = [p \in Procs |-> {}]
    /\ reply = [p \in Procs |-> "none"]
    /\ stamp = [t \in Tx |-> 0]
    /\ clock = 0
    /\ net = [t \in Tx |-> "unseen"]
    /\ fam = [t \in Tx |-> t]
    /\ claimed = {}

Goto(p, step) == pc' = [pc EXCEPT ![p] = step]

Answer(p, r) == reply' = [reply EXCEPT ![p] = r]

(* A file on the device is open: umount would fail.                        *)
OnlineBusy(except) ==
    \E q \in Procs \ {except} : pc[q] \in {"wraw", "wsub", "erase"}

(* mount_removable_device(): the check for the device and do_mount().      *)
Start(p) == pc[p] = "idle" /\ Mount("online") /\ UNCHANGED <<fileVars, dev>>

----------------------------------------------------------------------------
(* mmgen-txcreate --autosign and mmgen-txbump --autosign                   *)

StartCreate(p) ==
    /\ Start(p)
    /\ Goto(p, IF CreateOk THEN "create" ELSE "exit")
    /\ tgt' = [tgt EXCEPT ![p] = NoTx]
    /\ base' = [base EXCEPT ![p] = NoTx]
    /\ Answer(p, "none")
    /\ UNCHANGED <<todo, txVars, netVars>>

(* get_last_created(): every sent file is opened, the newest one is taken. *)
LastCreated(t) ==
    /\ t \in Submitted
    /\ \A u \in Submitted : sub[u] = "full" /\ stamp[u] <= stamp[t]

StartBump(p) ==
    /\ Start(p)
    /\ IF CreateOk /\ \E t \in Tx : LastCreated(t)
       THEN \E t \in Tx :
                /\ LastCreated(t)
                /\ Goto(p, "create")
                /\ base' = [base EXCEPT ![p] = t]
                /\ Answer(p, "none")
       ELSE /\ Goto(p, "exit")
            /\ base' = [base EXCEPT ![p] = NoTx]
            /\ Answer(p, "bump_refused")
    /\ tgt' = [tgt EXCEPT ![p] = NoTx]
    /\ UNCHANGED <<todo, txVars, netVars>>

(* Mutant: the replacement keeps the timestamp of what it replaces.        *)
NewStampOfBase(p) == IF base[p] = NoTx THEN clock + 1 ELSE stamp[base[p]]

(* add_timestamp()                                                         *)
NewStamp(p) == clock + 1

(* The interactive part of create() ends in a serialized transaction t,    *)
(* never one whose inputs are known to be spent; file.write() then opens   *)
(* the raw file, which fails if the device has been unmounted meanwhile.   *)
Compose(p, t) ==
    /\ pc[p] = "create"
    /\ clock < MaxStamp
    /\ sub[t] = "absent" /\ net[t] = "unseen"
    /\ IF Mounted("online")
       THEN /\ Goto(p, "wraw")
            /\ raw' = Open(raw, t)
            /\ stamp' = [stamp EXCEPT ![t] = NewStamp(p)]
            /\ clock' = clock + 1
            /\ fam' = [fam EXCEPT ![t] = IF base[p] = NoTx THEN t ELSE fam[base[p]]]
            /\ tgt' = [tgt EXCEPT ![p] = t]
       ELSE Goto(p, "exit") /\ UNCHANGED <<raw, txVars, tgt>>
    /\ UNCHANGED <<sig, sub, unsynced, dev, mnt, base, todo, reply, netVars>>

WroteRaw(p) ==
    /\ pc[p] = "wraw"
    /\ raw' = Complete(raw, tgt[p])
    /\ unsynced' = unsynced \union {<<"raw", tgt[p]>>}
    /\ Goto(p, "exit")
    /\ UNCHANGED <<sig, sub, dev, mnt, tgt, base, todo, reply, txVars, netVars>>

----------------------------------------------------------------------------
(* mmgen-txsend --autosign                                                 *)

(* get_unsent(): exactly one; OnlineSignedTX(): its data must parse.       *)
StartSend(p) ==
    /\ Start(p)
    /\ \/ \E t \in Tx :
            /\ Unsent = {t} /\ sig[t] = "full"
            /\ Goto(p, "send")
            /\ tgt' = [tgt EXCEPT ![p] = t]
       \/ /\ ~ \E t \in Tx : Unsent = {t} /\ sig[t] = "full"
          /\ Goto(p, "exit")
          /\ tgt' = [tgt EXCEPT ![p] = NoTx]
    /\ Answer(p, "none")
    /\ UNCHANGED <<base, todo, txVars, netVars>>

Rivals(t) == {u \in Tx \ {t} : fam[u] = fam[t]}

(* A node takes a transaction, or takes it again, while nothing that       *)
(* spends its inputs is confirmed; a replacement evicts what it replaces.  *)
Accepted(t) ==
    /\ net[t] \in {"unseen", "mempool"}
    /\ \A u \in Rivals(t) : net[u] # "confirmed"
    /\ net' = [u \in Tx |-> IF u = t THEN "mempool"
                            ELSE IF u \in Rivals(t) /\ net[u] = "mempool" THEN "replaced"
                            ELSE net[u]]

(* send_with_node() or send_tx() returned the transaction id.              *)
Send(p) ==
    /\ pc[p] = "send"
    /\ Accepted(tgt[p])
    /\ Goto(p, "mark")
    /\ UNCHANGED <<fileVars, dev, mnt, tgt, base, todo, reply, txVars, claimed>>

(* The network took the transaction but the command ends unmarked: the     *)
(* answer was lost (an RPC error, a proxy page that does not parse), or    *)
(* the user answers no to "Mark transaction as sent on removable device?". *)
SendUnmarked(p) ==
    /\ pc[p] = "send"
    /\ Accepted(tgt[p])
    /\ Goto(p, "exit")
    /\ UNCHANGED <<fileVars, dev, mnt, tgt, base, todo, reply, txVars, claimed>>

(* --mark-sent: "successfully sent out-of-band", says the user.            *)
MarkSent(p) ==
    /\ pc[p] = "send"
    /\ Goto(p, "mark")
    /\ claimed' = claimed \union {tgt[p]}
    /\ UNCHANGED <<fileVars, dev, mnt, tgt, base, todo, reply, txVars, net>>

(* post_send()                                                             *)
OpenSub(p) ==
    /\ pc[p] = "mark"
    /\ IF Mounted("online")
       THEN sub' = Open(sub, tgt[p]) /\ Goto(p, "wsub")
       ELSE Goto(p, "exit") /\ UNCHANGED sub
    /\ UNCHANGED <<raw, sig, unsynced, dev, mnt, tgt, base, todo, reply, txVars, netVars>>

WroteSub(p) ==
    /\ pc[p] = "wsub"
    /\ sub' = Complete(sub, tgt[p])
    /\ unsynced' = unsynced \union {<<"sub", tgt[p]>>}
    /\ Goto(p, "exit")
    /\ UNCHANGED <<raw, sig, dev, mnt, tgt, base, todo, reply, txVars, netVars>>

(* --status: dies on an unsent or unsigned transaction, then reads the     *)
(* sent ones.                                                              *)
Status(p) ==
    /\ Start(p)
    /\ Goto(p, "exit")
    /\ Answer(p, IF CreateOk /\ \E t \in Tx : LastCreated(t) THEN "none" ELSE "status_refused")
    /\ UNCHANGED <<tgt, base, todo, txVars, netVars>>

----------------------------------------------------------------------------
(* mmgen-txsend --abort: shred_abortable()                                 *)

StartAbort(p) ==
    /\ Start(p)
    /\ \/ \E t \in Tx :
            /\ Abortable(t)
            /\ tgt' = [tgt EXCEPT ![p] = t]
            /\ todo' = [todo EXCEPT ![p] = IF t \in Unsent THEN {"raw", "sig"} ELSE {"raw"}]
            /\ Goto(p, "confirm")
            /\ Answer(p, "none")
       \/ /\ ~ \E t \in Tx : Abortable(t)
          /\ Goto(p, "exit")
          /\ Answer(p, "abort_refused")
          /\ UNCHANGED <<tgt, todo>>
    /\ UNCHANGED <<base, txVars, netVars>>

Confirm(p) ==
    /\ pc[p] = "confirm"
    /\ Goto(p, "abort")
    /\ UNCHANGED <<deviceVars, tgt, base, todo, reply, txVars, netVars>>

(* The raw file goes first; shred fails if the file is not there.          *)
ShredRaw(p) ==
    /\ pc[p] = "abort" /\ "raw" \in todo[p]
    /\ IF Mounted("online") /\ raw[tgt[p]] # "absent"
       THEN raw' = Overwrite(raw, tgt[p]) /\ Goto(p, "erase")
       ELSE Goto(p, "exit") /\ UNCHANGED raw
    /\ UNCHANGED <<sig, sub, unsynced, dev, mnt, tgt, base, todo, reply, txVars, netVars>>

ShredSig(p) ==
    /\ pc[p] = "abort" /\ todo[p] = {"sig"}
    /\ IF Mounted("online") /\ sig[tgt[p]] # "absent"
       THEN sig' = Overwrite(sig, tgt[p]) /\ Goto(p, "erase")
       ELSE Goto(p, "exit") /\ UNCHANGED sig
    /\ UNCHANGED <<raw, sub, unsynced, dev, mnt, tgt, base, todo, reply, txVars, netVars>>

Erased(p) ==
    /\ pc[p] = "erase"
    /\ IF "raw" \in todo[p]
       THEN /\ raw' = Remove(raw, tgt[p]) /\ UNCHANGED sig
            /\ todo' = [todo EXCEPT ![p] = @ \ {"raw"}]
       ELSE /\ sig' = Remove(sig, tgt[p]) /\ UNCHANGED raw
            /\ todo' = [todo EXCEPT ![p] = {}]
    /\ Goto(p, IF todo[p] = {"raw", "sig"} THEN "abort" ELSE "exit")
    /\ UNCHANGED <<sub, unsynced, dev, mnt, tgt, base, reply, txVars, netVars>>

----------------------------------------------------------------------------
(* Mutant: a rejected broadcast is marked sent all the same.               *)
AfterGivingUpMarked(p) == IF pc[p] = "send" THEN "mark" ELSE "exit"

AfterGivingUp(p) == "exit"

(* The user declines a prompt, or something dies before any file is        *)
(* touched: bad input, an expired swap quote, a rejected broadcast.        *)
GiveUp(p) ==
    /\ pc[p] \in {"create", "send", "confirm"}
    /\ Goto(p, AfterGivingUp(p))
    /\ UNCHANGED <<deviceVars, tgt, base, todo, reply, txVars, netVars>>

(* Mutant: no handler, the device stays mounted.                           *)
ExitMounted(p) ==
    /\ pc[p] = "exit"
    /\ Goto(p, "idle")
    /\ tgt' = [tgt EXCEPT ![p] = NoTx]
    /\ base' = [base EXCEPT ![p] = NoTx]
    /\ todo' = [todo EXCEPT ![p] = {}]
    /\ Answer(p, "none")
    /\ UNCHANGED <<deviceVars, txVars, netVars>>

(* The atexit handler of mount_removable_device().                         *)
Exit(p) ==
    /\ pc[p] = "exit"
    /\ Umount("online", OnlineBusy(p))
    /\ Goto(p, "idle")
    /\ tgt' = [tgt EXCEPT ![p] = NoTx]
    /\ base' = [base EXCEPT ![p] = NoTx]
    /\ todo' = [todo EXCEPT ![p] = {}]
    /\ Answer(p, "none")
    /\ UNCHANGED <<raw, sig, sub, dev, txVars, netVars>>

(* The process is killed: no handler runs, the device stays mounted.       *)
Kill(p) ==
    /\ pc[p] # "idle"
    /\ Goto(p, "idle")
    /\ tgt' = [tgt EXCEPT ![p] = NoTx]
    /\ base' = [base EXCEPT ![p] = NoTx]
    /\ todo' = [todo EXCEPT ![p] = {}]
    /\ Answer(p, "none")
    /\ UNCHANGED <<deviceVars, txVars, netVars>>

OnlinePowerLoss ==
    /\ PowerLoss("online")
    /\ pc' = [p \in Procs |-> "idle"]
    /\ tgt' = [p \in Procs |-> NoTx]
    /\ base' = [p \in Procs |-> NoTx]
    /\ todo' = [p \in Procs |-> {}]
    /\ reply' = [p \in Procs |-> "none"]
    /\ UNCHANGED <<txVars, netVars>>

(* A block confirms a transaction.                                         *)
Confirmed(t) ==
    /\ net[t] = "mempool"
    /\ net' = [net EXCEPT ![t] = "confirmed"]
    /\ UNCHANGED <<deviceVars, procVars, txVars, claimed>>

Command(p) ==
    \/ StartCreate(p) \/ StartBump(p) \/ StartSend(p) \/ StartAbort(p) \/ Status(p)

Progress(p) ==
    \/ \E t \in Tx : Compose(p, t)
    \/ WroteRaw(p) \/ Send(p) \/ SendUnmarked(p) \/ MarkSent(p) \/ OpenSub(p) \/ WroteSub(p)
    \/ Confirm(p) \/ ShredRaw(p) \/ ShredSig(p) \/ Erased(p) \/ GiveUp(p) \/ Exit(p)
=============================================================================
