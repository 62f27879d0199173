---------------------------- MODULE XmrAutosign ----------------------------
(***************************************************************************)
(* Monero autosigning.  The online machine has watch-only wallets, which   *)
(* see outputs but not whether they are spent; the offline machine has the *)
(* signing wallets, recreated empty by every setup.  mmgen-xmrwallet and   *)
(* mmgen-autosign carry three things between them on the device: exported  *)
(* outputs, signed key images, and transactions.                           *)
(***************************************************************************)
EXTENDS FiniteSets, Naturals

CONSTANTS
    Wallets, NoWallet,  \* wallet indexes
    Xtx, NoFile,        \* transaction file names
    MaxOut,             \* bound on the outputs one wallet receives
    MaxReceived,        \* bound on the outputs received in all
    MaxFaults           \* bound on kills, power failures and failed calls

(* Outputs are numbered as a wallet receives them.  The file that exports  *)
(* all outputs up to the nth is named by a checksum of that data: <<w, n>>.*)
Outs == Wallets \X (1..MaxOut)

Files == Xtx \union Outs

ASSUME XmrAssumption ==
    /\ NoWallet \notin Wallets /\ NoFile \notin Files
    /\ Xtx \intersect Outs = {}
    /\ MaxOut \in Nat /\ MaxReceived \in Nat /\ MaxFaults \in Nat

VARIABLES
    raw, sig, sub, unsynced, dev, mnt,  \* the device (AutosignDevice)
    wantki,     \* outputs files whose 'sign' field is set
    imported,   \* outputs files whose 'imported' field is set
    kimg,       \* number of key images in a signed outputs file
    src,        \* the output a transaction spends
    recv,       \* number of outputs each wallet has received
    spent,      \* outputs spent on the chain
    net,        \* transactions the network has taken
    seen,       \* outputs known to the watch-only wallet
    kis,        \* key images imported into it
    exported,   \* the last export from it
    last,       \* the transaction with the latest submit_time
    on,         \* where the online command is
    cmd,        \* which command it is
    w,          \* the wallet it works on
    wTodo,      \* wallets it has still to process
    x,          \* the transaction it works on
    relay,      \* whether --tx-relay-daemon was given
    eTodo,      \* files still to be shredded by 'abort'
    wd,         \* the process listening on the wallet daemon's port
    imp,        \* outputs known to each signing wallet
    sg,         \* where the signer is
    st,         \* the kind of file it has come to
    file,       \* the file it works on
    fTodo,      \* files it has still to process
    failed,     \* files that failed in this run
    cur,        \* xmr_cur_wallet_idx
    sd,         \* the signer's wallet daemon
    opened,     \* the wallet that daemon has open
    unopened,   \* whether open_wallet failed since the daemon was started
    faults

INSTANCE AutosignDevice WITH Tx <- Files, NoTx <- NoFile

allFiles == <<raw, sig, sub, unsynced>>
device == <<allFiles, dev, mnt>>

contentVars == <<wantki, imported, kimg, src>>
chainVars == <<recv, spent, net>>
walletVars == <<seen, kis, exported, last>>
onlineVars == <<on, cmd, w, wTodo, x, relay, eTodo, wd>>
daemonVars == <<cur, sd, opened, unopened>>
signerVars == <<imp, sg, st, file, fTodo, failed, daemonVars>>
vars == <<device, contentVars, chainVars, walletVars, onlineVars, signerVars, faults>>

Commands == {"transfer", "export", "export_sign", "import", "submit", "resubmit", "abort"}

TypeOK ==
    /\ DeviceTypeOK
    /\ wantki \subseteq Outs /\ imported \subseteq Outs
    /\ kimg \in [Outs -> 0..MaxOut]
    /\ src \in [Xtx -> Outs \union {NoFile}]
    /\ recv \in [Wallets -> 0..MaxOut] /\ spent \subseteq Outs /\ net \subseteq Xtx
    /\ seen \in [Wallets -> 0..MaxOut] /\ kis \in [Wallets -> 0..MaxOut]
    /\ exported \in [Wallets -> 0..MaxOut]
    /\ last \in Xtx \union {NoFile}
    /\ on \in {"idle", "daemon", "open", "unlink", "write", "wrote", "keys", "swap",
               "rpc", "record", "recorded", "abort", "erase", "exit"}
    /\ cmd \in Commands \union {"none"}
    /\ w \in Wallets \union {NoWallet} /\ wTodo \subseteq Wallets
    /\ x \in Xtx \union {NoFile} /\ relay \in BOOLEAN
    /\ eTodo \subseteq {"raw", "sig"}
    /\ wd \in {"stopped", "plain", "relay"}
    /\ imp \in [Wallets -> 0..MaxOut]
    /\ sg \in {"idle", "list", "pick", "open", "rpc", "write", "crashed", "off"} /\ st \in 1..3
    /\ file \in Files \union {NoFile} /\ fTodo \subseteq Files /\ failed \subseteq Files
    /\ cur \in Wallets \union {NoWallet} /\ opened \in Wallets \union {NoWallet}
    /\ sd \in {"stopped", "up"} /\ unopened \in BOOLEAN
    /\ faults \in Nat

Init ==
    /\ DeviceInit
    /\ wantki = {} /\ imported = {} /\ kimg = [o \in Outs |-> 0]
    /\ src = [t \in Xtx |-> NoFile]
    /\ recv = [v \in Wallets |-> 0] /\ spent = {} /\ net = {}
    /\ seen = recv /\ kis = recv /\ exported = recv /\ last = NoFile
    /\ on = "idle" /\ cmd = "none" /\ w = NoWallet /\ wTodo = {} /\ x = NoFile
    /\ relay = FALSE /\ eTodo = {} /\ wd = "stopped"
    /\ imp = recv /\ sg = "idle" /\ st = 1 /\ file = NoFile /\ fTodo = {} /\ failed = {}
    /\ cur = NoWallet /\ sd = "stopped" /\ opened = NoWallet /\ unopened = FALSE
    /\ faults = 0

----------------------------------------------------------------------------
(* Daemon.start() and stop(): what listens on the port afterwards.  start()*)
(* takes whatever is 'ready' on the port for its own.                      *)
Started(state, kind) == IF state = "stopped" THEN kind ELSE state

(* Mutant: the old process is not waited for.                              *)
StopUnawaited(state) == state

Stop(state) == "stopped"

(* The listings of Signable.xmr_transaction                                *)
XmrUnsigned == Unsigned \intersect Xtx
XmrUnsent == Unsent \intersect Xtx
XmrUnsentRaw == UnsentRaw \intersect Xtx
XmrSubmitted == Submitted \intersect Xtx

(* Outputs the watch-only wallet takes for unspent: it knows of a spending *)
(* only by the output's key image.                                         *)
TakenForUnspent(v) ==
    {o \in {v} \X (1..seen[v]) : ~ (o[2] <= kis[v] /\ o \in spent)}

(* find_fn_from_wallet_fn(): the wallet's files with one extension         *)
FilesOf(v, f) == {o \in Outs : o[1] = v /\ f[o] # "absent"}

Delete(f, os) == [g \in Files |-> IF g \in os THEN "absent" ELSE f[g]]

----------------------------------------------------------------------------
(* Online: mmgen-xmrwallet --autosign                                      *)

(* OpBase and OpWallet.__init__(): the device is mounted first.  'submit'  *)
(* and 'resubmit' then look for their transaction and give up without it;  *)
(* one unreadable sent record is enough for 'resubmit' to give up.         *)
SubmitTarget == IF Cardinality(XmrUnsent) = 1 THEN XmrUnsent ELSE {}

ResubmitTarget == IF \A t \in XmrSubmitted : sub[t] = "full" THEN XmrSubmitted \intersect {last} ELSE {}

Start(c) ==
    /\ on = "idle" /\ Mount("online")
    /\ cmd' = c
    /\ UNCHANGED <<allFiles, dev, contentVars, chainVars, walletVars, wd, signerVars, faults>>

StartWallets(c) ==
    /\ Start(c) /\ c \in {"transfer", "export", "export_sign", "import"}
    /\ \E vs \in SUBSET Wallets :
        /\ IF c = "transfer" THEN Cardinality(vs) = 1 ELSE vs # {}
        /\ wTodo' = vs
    /\ c = "transfer" => \E t \in Xtx : src[t] = NoFile     \* bound: the names in Xtx
    /\ on' = "daemon" /\ w' = NoWallet /\ x' = NoFile /\ relay' = FALSE
    /\ eTodo' = {}

StartSubmit(c) ==
    /\ Start(c) /\ c \in {"submit", "resubmit"}
    /\ LET found == IF c = "submit" THEN SubmitTarget ELSE ResubmitTarget
           ok == \E t \in found : IF c = "submit" THEN sig[t] = "full" ELSE TRUE
       IN  /\ on' = IF ok THEN "daemon" ELSE "exit"
           /\ x' = IF ok THEN CHOOSE t \in found : TRUE ELSE NoFile
           /\ wTodo' = IF ok THEN {src[CHOOSE t \in found : TRUE][1]} ELSE {}
    /\ relay' \in BOOLEAN /\ w' = NoWallet
    /\ eTodo' = {}

(* restart_wallet_daemon()                                                 *)
RestartDaemon ==
    /\ on = "daemon"
    /\ wd' = Started(Stop(wd), "plain")
    /\ on' = "open"
    /\ UNCHANGED <<device, contentVars, chainVars, walletVars, cmd, w, wTodo, x, relay, eTodo,
                   signerVars, faults>>

(* open_wallet(), which also refreshes.  'import' opens only a wallet it   *)
(* has a file for; more than one file and it gives up.                     *)
OpenWallet ==
    /\ on = "open"
    /\ IF wTodo = {}
       THEN on' = "exit" /\ UNCHANGED <<w, wTodo, seen>>
       ELSE \E v \in wTodo :
            /\ wTodo' = wTodo \ {v} /\ w' = v
            /\ IF cmd = "import" /\ Cardinality(FilesOf(v, sig)) # 1
               THEN /\ on' = IF FilesOf(v, sig) = {} THEN "open" ELSE "exit"
                    /\ UNCHANGED seen
               ELSE /\ seen' = [seen EXCEPT ![v] = recv[v]]
                    /\ on' = CASE cmd \in {"export", "export_sign"} -> "unlink"
                               [] cmd = "transfer" -> "write"
                               [] cmd = "import" -> "keys"
                               [] OTHER -> IF relay THEN "swap" ELSE "rpc"
    /\ UNCHANGED <<device, contentVars, chainVars, kis, exported, last, cmd, x, relay, eTodo,
                   wd, signerVars, faults>>

(* OpTransfer, OpSweep: an unsigned transaction for an output believed     *)
(* unspent is written.  What else is on the device is not looked at.       *)
WriteTx ==
    /\ on = "write" /\ cmd = "transfer"
    /\ IF TakenForUnspent(w) = {}
       THEN on' = "exit" /\ UNCHANGED <<x, src, raw>>
       ELSE \E o \in TakenForUnspent(w), t \in Xtx :
            /\ src[t] = NoFile
            /\ src' = [src EXCEPT ![t] = o]
            /\ raw' = Open(raw, t) /\ x' = t /\ on' = "wrote"
    /\ UNCHANGED <<sig, sub, unsynced, dev, mnt, wantki, imported, kimg, chainVars, walletVars, cmd,
                   w, wTodo, relay, eTodo, wd, signerVars, faults>>

WroteTx ==
    /\ on = "wrote" /\ cmd = "transfer"
    /\ raw' = Complete(raw, x)
    /\ unsynced' = unsynced \union {<<"raw", x>>}
    /\ on' = "exit"
    /\ UNCHANGED <<sig, sub, dev, mnt, contentVars, chainVars, walletVars, cmd, w, wTodo, x, relay,
                   eTodo, wd, signerVars, faults>>

----------------------------------------------------------------------------
(* OpExportOutputs: the wallet's old files go one by one, the unsigned one *)
(* first; then the new one is written.  More than one, and the command     *)
(* gives up.                                                               *)

(* Mutant: the signed key images are left in place.                        *)
StaleUnsignedOnly == IF FilesOf(w, raw) # {} THEN "raw" ELSE "none"

Stale ==
    IF FilesOf(w, raw) # {} THEN "raw" ELSE IF FilesOf(w, sig) # {} THEN "sig" ELSE "none"

UnlinkStale ==
    /\ on = "unlink" /\ Stale # "none"
    /\ LET old == FilesOf(w, IF Stale = "raw" THEN raw ELSE sig) IN
       IF Cardinality(old) > 1
       THEN on' = "exit" /\ UNCHANGED <<raw, sig>>
       ELSE /\ raw' = IF Stale = "raw" THEN Delete(raw, old) ELSE raw
            /\ sig' = IF Stale = "sig" THEN Delete(sig, old) ELSE sig
            /\ UNCHANGED on
    /\ UNCHANGED <<sub, unsynced, dev, mnt, contentVars, chainVars, walletVars, cmd, w, wTodo, x,
                   relay, eTodo, wd, signerVars, faults>>

(* A wallet without outputs has nothing to name a file by in this model.   *)
WriteOutputs ==
    /\ on = "unlink" /\ Stale = "none"
    /\ LET o == <<w, seen[w]>> IN
       IF seen[w] = 0
       THEN on' = "open" /\ UNCHANGED <<raw, wantki, imported>>
       ELSE /\ raw' = Open(raw, o)
            /\ wantki' = IF cmd = "export_sign" THEN wantki \union {o} ELSE wantki \ {o}
            /\ imported' = imported \ {o}
            /\ on' = "wrote"
    /\ UNCHANGED <<sig, sub, unsynced, dev, mnt, kimg, src, chainVars, walletVars, cmd, w, wTodo, x,
                   relay, eTodo, wd, signerVars, faults>>

WroteOutputs ==
    /\ on = "wrote" /\ cmd \in {"export", "export_sign"}
    /\ LET o == <<w, seen[w]>> IN
        /\ raw' = Complete(raw, o)
        /\ unsynced' = unsynced \union {<<"raw", o>>}
    /\ exported' = [exported EXCEPT ![w] = seen[w]]
    /\ on' = "open"
    /\ UNCHANGED <<sig, sub, dev, mnt, contentVars, chainVars, seen, kis, last, cmd, w, wTodo, x,
                   relay, eTodo, wd, signerVars, faults>>

(* OpImportKeyImages                                                       *)
ImportKeyImages ==
    /\ on = "keys"
    /\ \E o \in FilesOf(w, sig) :
        IF sig[o] = "full"
        THEN kis' = [kis EXCEPT ![w] = IF kimg[o] > @ THEN kimg[o] ELSE @] /\ on' = "open"
        ELSE on' = "exit" /\ UNCHANGED kis
    /\ UNCHANGED <<device, contentVars, chainVars, seen, exported, last, cmd, w, wTodo, x, relay,
                   eTodo, wd, signerVars, faults>>

----------------------------------------------------------------------------
(* OpSubmit, OpResubmit.  With --tx-relay-daemon another wallet daemon,    *)
(* connected to the relaying node, takes the place of the first.           *)
RelayDaemon ==
    /\ on = "swap"
    /\ wd' = Started(Stop(wd), "relay")
    /\ on' = "rpc"
    /\ UNCHANGED <<device, contentVars, chainVars, walletVars, cmd, w, wTodo, x, relay, eTodo,
                   signerVars, faults>>

Accepted(t) == t \in net \/ src[t] \notin spent

(* Mutant: the answer is not looked at.                                    *)
RecordAlways(taken) == "record"

AfterSubmit(taken) == IF taken THEN "record" ELSE "exit"

(* The user may say no, or the network may find the output spent.          *)
SubmitTransfer ==
    /\ on = "rpc"
    /\ \E taken \in BOOLEAN :
        /\ taken => Accepted(x)
        /\ net' = IF taken THEN net \union {x} ELSE net
        /\ spent' = IF taken THEN spent \union {src[x]} ELSE spent
        /\ on' = AfterSubmit(taken)
    /\ UNCHANGED <<device, contentVars, recv, walletVars, cmd, w, wTodo, x, relay, eTodo, wd,
                   signerVars, faults>>

(* NewSubmitted.write(): with --autosign nothing is asked first            *)
WriteSub ==
    /\ on = "record"
    /\ sub' = Open(sub, x)
    /\ on' = "recorded"
    /\ UNCHANGED <<raw, sig, unsynced, dev, mnt, contentVars, chainVars, walletVars, cmd, w, wTodo, x,
                   relay, eTodo, wd, signerVars, faults>>

WroteSub ==
    /\ on = "recorded"
    /\ sub' = Complete(sub, x) /\ last' = x
    /\ unsynced' = unsynced \union {<<"sub", x>>}
    /\ on' = "exit"
    /\ UNCHANGED <<raw, sig, dev, mnt, contentVars, chainVars, seen, kis, exported, cmd, w, wTodo, x,
                   relay, eTodo, wd, signerVars, faults>>

----------------------------------------------------------------------------
(* OpAbort: shred_abortable() on xmr/tx, the unsigned file first           *)
CanAbort(t) == XmrUnsentRaw = {t} /\ XmrUnsent \subseteq {t}

StartAbort ==
    /\ Start("abort")
    /\ \/ \E t \in Xtx :
            /\ CanAbort(t)
            /\ x' = t /\ on' = "abort"
            /\ eTodo' = IF t \in XmrUnsent THEN {"raw", "sig"} ELSE {"raw"}
       \/ /\ ~ \E t \in Xtx : CanAbort(t)
          /\ x' = NoFile /\ on' = "exit" /\ eTodo' = {}
    /\ UNCHANGED <<w, wTodo, relay>>

ShredOverwrite ==
    /\ on = "abort" /\ eTodo # {}
    /\ raw' = IF "raw" \in eTodo THEN Overwrite(raw, x) ELSE raw
    /\ sig' = IF "raw" \in eTodo THEN sig ELSE Overwrite(sig, x)
    /\ on' = "erase"
    /\ UNCHANGED <<sub, unsynced, dev, mnt, contentVars, chainVars, walletVars, cmd, w, wTodo, x, relay,
                   eTodo, wd, signerVars, faults>>

ShredRemove ==
    /\ on = "erase"
    /\ raw' = IF "raw" \in eTodo THEN Remove(raw, x) ELSE raw
    /\ sig' = IF "raw" \in eTodo THEN sig ELSE Remove(sig, x)
    /\ eTodo' = eTodo \ {IF "raw" \in eTodo THEN "raw" ELSE "sig"}
    /\ on' = IF eTodo' = {} THEN "exit" ELSE "abort"
    /\ UNCHANGED <<sub, unsynced, dev, mnt, contentVars, chainVars, walletVars, cmd, w, wTodo, x, relay,
                   wd, signerVars, faults>>

(* The atexit handlers, last registered first: stop_wallet_daemon(), which *)
(* 'abort' does not register, then do_umount().                            *)
Exit ==
    /\ on = "exit"
    /\ wd' = IF cmd = "abort" THEN wd ELSE Stop(wd)
    /\ Umount("online", FALSE)
    /\ on' = "idle" /\ cmd' = "none" /\ w' = NoWallet /\ wTodo' = {} /\ x' = NoFile /\ relay' = FALSE
    /\ UNCHANGED <<raw, sig, sub, dev, contentVars, chainVars, walletVars, eTodo, signerVars, faults>>

(* SIGKILL leaves the detached wallet daemon running and the device        *)
(* mounted; a power failure does not.                                      *)
OnlineDies ==
    /\ on' = "idle" /\ cmd' = "none" /\ w' = NoWallet /\ wTodo' = {} /\ x' = NoFile
    /\ relay' = FALSE /\ eTodo' = {}
    /\ UNCHANGED <<contentVars, chainVars, walletVars, signerVars>>

Kill == on # "idle" /\ OnlineDies /\ UNCHANGED <<device, wd>>

OnlinePowerLoss == PowerLoss("online") /\ OnlineDies /\ wd' = "stopped"

(* The answer of submit_transfer is lost after the network took it.        *)
AnswerLost ==
    /\ on = "rpc" /\ Accepted(x)
    /\ net' = net \union {x} /\ spent' = spent \union {src[x]}
    /\ on' = "exit"
    /\ UNCHANGED <<device, contentVars, recv, walletVars, cmd, w, wTodo, x, relay, eTodo, wd,
                   signerVars>>

Command ==
    \/ \E c \in Commands : StartWallets(c) \/ StartSubmit(c)
    \/ StartAbort

Progress ==
    \/ RestartDaemon \/ OpenWallet \/ WriteTx \/ WroteTx
    \/ UnlinkStale \/ WriteOutputs \/ WroteOutputs \/ ImportKeyImages
    \/ RelayDaemon \/ SubmitTransfer \/ WriteSub \/ WroteSub
    \/ ShredOverwrite \/ ShredRemove \/ Exit

(* Somebody pays a wallet.                                                 *)
Receive(v) ==
    /\ recv[v] < MaxOut /\ Cardinality({o \in Outs : o[2] <= recv[o[1]]}) < MaxReceived
    /\ recv' = [recv EXCEPT ![v] = @ + 1]
    /\ UNCHANGED <<device, contentVars, spent, net, walletVars, onlineVars, signerVars, faults>>

----------------------------------------------------------------------------
(* Offline: mmgen-autosign with XMR among its coins                        *)

(* xmr_wallet_outputs_file.unsigned: unsigned by name, and not 'imported'. *)
(* The field is read from every such file, and one that cannot be parsed   *)
(* ends the program: the error is raised outside the try of sign_all().    *)
OutsUnsigned == {o \in Unsigned \intersect Outs : o \notin imported}

Unparsable == \E o \in Unsigned \intersect Outs : raw[o] = "partial"

(* Mutant: transactions before outputs.                                    *)
SignablesSwapped == <<"transactions", "outputs">>

(* xmr_signables: "order is important! import XMR wallet outputs BEFORE    *)
(* signing transactions"                                                   *)
Signables == <<"outputs", "transactions">>

Insert ==
    /\ sg = "idle" /\ Mount("offline")
    /\ sg' = "list" /\ st' = 1 /\ failed' = {}
    /\ UNCHANGED <<allFiles, dev, contentVars, chainVars, walletVars, onlineVars, imp, file, fTodo,
                   daemonVars, faults>>

(* sign_all() for one kind of file.  More than one unsigned transaction is *)
(* refused: multiple_ok is False for them.                                 *)
List ==
    /\ sg = "list" /\ st <= 2
    /\ IF Signables[st] = "outputs" /\ Unparsable
       THEN /\ sg' = "crashed" /\ fTodo' = {}
            /\ sd' = Stop(sd) /\ opened' = NoWallet /\ cur' = NoWallet /\ unopened' = FALSE
       ELSE /\ sg' = "pick"
            /\ fTodo' = IF Signables[st] = "outputs" THEN OutsUnsigned
                        ELSE IF Cardinality(XmrUnsigned) = 1 THEN XmrUnsigned ELSE {}
            /\ UNCHANGED daemonVars
    /\ UNCHANGED <<device, contentVars, chainVars, walletVars, onlineVars, imp, st, file, failed,
                   faults>>

WalletOf(f) == IF f \in Outs THEN f[1] ELSE src[f][1]

(* Mutants: one of the two tests dropped.                                  *)
RestartIfStopped(v) == sd # "up"
RestartIfOther(v) == cur # v

NeedDaemonRestart(v) == cur # v \/ sd # "up"

(* target.sign(f): xmr_cur_wallet_idx is set and the daemon restarted, if  *)
(* need be; only then is the wallet opened.  An unreadable transaction     *)
(* fails before that.                                                      *)
Pick ==
    /\ sg = "pick" /\ fTodo # {}
    /\ \E f \in fTodo :
        /\ file' = f /\ fTodo' = fTodo \ {f}
        /\ IF raw[f] # "full"
           THEN failed' = failed \union {f} /\ UNCHANGED <<sg, daemonVars>>
           ELSE /\ cur' = WalletOf(f) /\ UNCHANGED failed
                /\ IF NeedDaemonRestart(WalletOf(f))
                   THEN /\ sd' = Started(Stop(sd), "up") /\ opened' = NoWallet
                        /\ unopened' = FALSE /\ sg' = "open"
                   ELSE UNCHANGED <<sd, opened, unopened>> /\ sg' = "rpc"
    /\ UNCHANGED <<device, contentVars, chainVars, walletVars, onlineVars, imp, st, faults>>

NextSignable ==
    /\ sg = "pick" /\ fTodo = {}
    /\ st' = st + 1 /\ sg' = "list" /\ file' = NoFile
    /\ UNCHANGED <<device, contentVars, chainVars, walletVars, onlineVars, imp, fTodo, failed,
                   daemonVars, faults>>

OpenSigning ==
    /\ sg = "open"
    /\ opened' = WalletOf(file) /\ sg' = "rpc"
    /\ UNCHANGED <<device, contentVars, chainVars, walletVars, onlineVars, imp, st, file, fTodo,
                   failed, cur, sd, unopened, faults>>

(* open_wallet fails: an error with this file, the next one is taken.      *)
OpenFails ==
    /\ sg = "open"
    /\ sg' = "pick" /\ failed' = failed \union {file} /\ unopened' = TRUE
    /\ UNCHANGED <<device, contentVars, chainVars, walletVars, onlineVars, imp, st, file, fTodo,
                   cur, sd, opened>>

Larger(m, n) == IF m > n THEN m ELSE n

(* OpImportOutputs: import_outputs into the wallet the daemon has open,    *)
(* then export_key_images if asked for, or else the file is written again  *)
(* as imported.  Without an open wallet the call is an error.              *)
ImportOutputs ==
    /\ sg = "rpc" /\ file \in Outs
    /\ IF opened = NoWallet
       THEN /\ sg' = "pick" /\ failed' = failed \union {file}
            /\ UNCHANGED <<raw, sig, imported, kimg, imp>>
       ELSE LET n == Larger(imp[opened], file[2]) IN
            /\ imp' = [imp EXCEPT ![opened] = n]
            /\ IF file \in wantki
               THEN /\ sig' = Open(sig, file) /\ kimg' = [kimg EXCEPT ![file] = n]
                    /\ UNCHANGED <<raw, imported>>
               ELSE /\ raw' = Open(raw, file) /\ imported' = imported \union {file}
                    /\ UNCHANGED <<sig, kimg>>
            /\ sg' = "write" /\ UNCHANGED failed
    /\ UNCHANGED <<sub, unsynced, dev, mnt, wantki, src, chainVars, walletVars, onlineVars, st, file,
                   fTodo, daemonVars, faults>>

(* OpSign: sign_transfer needs the output spent in the signing wallet.     *)
SignTransfer ==
    /\ sg = "rpc" /\ file \in Xtx
    /\ IF opened = WalletOf(file) /\ src[file][2] <= imp[opened]
       THEN sig' = Open(sig, file) /\ sg' = "write" /\ UNCHANGED failed
       ELSE sg' = "pick" /\ failed' = failed \union {file} /\ UNCHANGED sig
    /\ UNCHANGED <<raw, sub, unsynced, dev, mnt, contentVars, chainVars, walletVars, onlineVars, imp,
                   st, file, fTodo, daemonVars, faults>>

Wrote ==
    /\ sg = "write"
    /\ IF file \in imported
       THEN /\ raw' = Complete(raw, file) /\ unsynced' = unsynced \union {<<"raw", file>>}
            /\ UNCHANGED sig
       ELSE /\ sig' = Complete(sig, file) /\ unsynced' = unsynced \union {<<"sig", file>>}
            /\ UNCHANGED raw
    /\ sg' = "pick"
    /\ UNCHANGED <<sub, dev, mnt, contentVars, chainVars, walletVars, onlineVars, imp, st, file, fTodo,
                   failed, daemonVars, faults>>

SignDone ==
    /\ sg = "list" /\ st = 3
    /\ Umount("offline", FALSE)
    /\ sg' = "idle"
    /\ UNCHANGED <<raw, sig, sub, dev, contentVars, chainVars, walletVars, onlineVars, imp, st, file,
                   fTodo, failed, daemonVars, faults>>

(* The program has ended on an unreadable file.  The user unmounts the     *)
(* device and starts it again; the signing wallets are still there.        *)
StartAgain ==
    /\ sg = "crashed"
    /\ Umount("offline", FALSE)
    /\ sg' = "idle" /\ st' = 1
    /\ UNCHANGED <<raw, sig, sub, dev, contentVars, chainVars, walletVars, onlineVars, imp, file, fTodo,
                   failed, daemonVars, faults>>

(* Power fails: the signing wallets are in RAM, and lost.                  *)
OfflinePowerLoss ==
    /\ PowerLoss("offline")
    /\ sg' = "off" /\ st' = 1 /\ file' = NoFile /\ fTodo' = {} /\ failed' = {}
    /\ imp' = [v \in Wallets |-> 0]
    /\ cur' = NoWallet /\ sd' = "stopped" /\ opened' = NoWallet /\ unopened' = FALSE
    /\ UNCHANGED <<contentVars, chainVars, walletVars, onlineVars>>

(* The signer's wallet daemon dies.                                        *)
SigningDaemonDies ==
    /\ sg # "off" /\ sd = "up" /\ sg \notin {"open", "rpc"}
    /\ sd' = "stopped" /\ opened' = NoWallet /\ unopened' = FALSE
    /\ UNCHANGED <<device, contentVars, chainVars, walletVars, onlineVars, imp, sg, st, file, fTodo,
                   failed, cur>>

(* Mutant: outputs files are cleaned like transactions: the unsigned one   *)
(* of a signed pair.                                                       *)
CleanedIfSigned == Unsigned \intersect {}

(* xmr_setup(): clean_old_files() shreds all outputs files (clean_all),    *)
(* then the signing wallets are created, empty.  It is one action here.    *)
Cleaned == Outs

Setup ==
    /\ sg = "off" /\ dev = "offline" /\ ~mnt
    /\ LET txRaw == {t \in Xtx : sig[t] # "absent" \/ sub[t] # "absent"}
           txSig == XmrSubmitted
       IN  /\ raw' = Delete(raw, Cleaned \union txRaw)
           /\ sig' = Delete(sig, Cleaned \union txSig)
    /\ sg' = "idle"
    /\ UNCHANGED <<sub, unsynced, dev, mnt, contentVars, chainVars, walletVars, onlineVars, imp, st, file,
                   fTodo, failed, daemonVars, faults>>

Signing ==
    \/ List \/ Pick \/ NextSignable \/ OpenSigning \/ ImportOutputs \/ SignTransfer \/ Wrote
    \/ SignDone \/ StartAgain

CarryDevice == \E to \in Host : Carry(to) /\ UNCHANGED <<contentVars, chainVars, walletVars, onlineVars, signerVars, faults>>

Fault ==
    /\ faults < MaxFaults
    /\ faults' = faults + 1
    /\ Kill \/ OnlinePowerLoss \/ AnswerLost \/ OpenFails \/ OfflinePowerLoss \/ SigningDaemonDies

Next ==
    \/ Command \/ Progress
    \/ \E v \in Wallets : Receive(v)
    \/ Insert \/ Signing \/ Setup
    \/ CarryDevice \/ Fault

Spec == Init /\ [][Next]_vars

----------------------------------------------------------------------------
(* The signing daemon is only ever called with the wallet open that the    *)
(* file in hand belongs to, unless that wallet could not be opened: whole  *)
(* runs go by without a restart, and the wallet open is known only by      *)
(* xmr_cur_wallet_idx.                                                     *)
RightWallet == sg = "rpc" => opened = WalletOf(file) \/ (opened = NoWallet /\ unopened)

(* No transaction is signed while outputs of its wallet wait on the device,*)
(* other than those that failed to be imported in the same run.            *)
OutputsFirst ==
    sg = "rpc" /\ file \in Xtx =>
        \A o \in OutsUnsigned : WalletOf(o) = WalletOf(file) => o \in failed

(* A wallet never has two outputs files with one extension, on which       *)
(* find_fn_from_wallet_fn() would give up, and a signed one never goes     *)
(* with an unsigned one of other outputs, whatever is interrupted.         *)
OneExport ==
    \A v \in Wallets : LET os == FilesOf(v, raw) \union FilesOf(v, sig)
                       IN  \A o, p \in os : o = p

(* The key images imported answer the last export from the wallet.         *)
KeyImagesCurrent ==
    [][\A v \in Wallets : kis'[v] # kis[v] => kis'[v] >= exported[v]]_vars

(* What the device says has been imported, by the field 'imported' or by a *)
(* file of key images, is known to the signing wallet: after a power       *)
(* failure setup must make sure of it, as the wallets it creates are empty.*)
ImportedIsKnown ==
    sg # "off" =>
        \A o \in Outs : /\ raw[o] = "full" /\ o \in imported => o[2] <= imp[o[1]]
                       /\ sig[o] # "absent" => o[2] <= imp[o[1]]

(* A transaction goes out through the relaying daemon if that was asked    *)
(* for, and only then, whatever was left running on the port before.       *)
RelayOnly == on = "rpc" => wd = (IF relay THEN "relay" ELSE "plain")

(* A sent record stands for a transaction the network has taken, and,      *)
(* without crashes, every transaction the network has taken has one by the *)
(* end of the command.                                                     *)
RecordsMatch ==
    /\ XmrSubmitted \subseteq net
    /\ on = "idle" /\ faults = 0 => net \subseteq XmrSubmitted

(* What is on the device is true of the wallets and of the network.        *)
FilesMatch == OneExport /\ ImportedIsKnown /\ RecordsMatch

----------------------------------------------------------------------------
(* Fairness: both programs run on, the operator keeps giving commands and  *)
(* carrying the device to the offline machine, and the wait loop notices   *)
(* it.                                                                     *)
FairSpec ==
    /\ Spec
    /\ WF_vars(Signing) /\ WF_vars(Progress) /\ WF_vars(Command)
    /\ SF_vars(Insert)
    /\ SF_vars(Carry("offline") /\ UNCHANGED <<contentVars, chainVars, walletVars, onlineVars, signerVars, faults>>)

(* "This will import the outputs into the corresponding signing wallet(s)  *)
(* (and optionally redo any failed transaction signing operation)": while  *)
(* the machine stays up, outputs waiting on the device are imported at one *)
(* of its next insertions, even if an attempt has failed before.           *)
FailedRedone ==
    \A o \in Outs :
        (raw[o] = "full" /\ o \in OutsUnsigned) ~> (o \notin OutsUnsigned \/ raw[o] # "full" \/ sg = "off")
=============================================================================
