------------------------- MODULE XmrAutosign_proofs -------------------------
(***************************************************************************)
(* Theorems of XmrAutosign, for any wallets, outputs, transactions and     *)
(* faults.  The device is the key to most of them: it is mounted on one    *)
(* machine at a time, so that what a program has read from it stays true   *)
(* for as long as that program works.  The last parts are about the wallet *)
(* daemon that commands share (WalletDaemon) and what the commands do with *)
(* wallets, their addresses and the files of transactions (XmrOps).        *)
(***************************************************************************)
EXTENDS MCMonero, Sequences, TLAPS

USE DEF deviceVars, allFiles, device, contentVars, chainVars, walletVars, onlineVars, daemonVars,
        signerVars, vars

----------------------------------------------------------------------------
(* Types, and where the two programs are.                                  *)

(* Each program has the device for itself.                                 *)
Held ==
    /\ on # "idle" => Mounted("online")
    /\ sg \notin {"idle", "off"} => Mounted("offline")

(* What the online command works on.                                       *)
OnlineAt ==
    /\ on \in {"daemon", "open"} =>
        /\ cmd \in Commands \ {"abort"}
        /\ cmd \in {"submit", "resubmit"} => x \in Xtx /\ src[x] \in Outs
    /\ on \in {"unlink", "write", "wrote", "keys"} => w \in Wallets
    /\ on = "unlink" => cmd \in {"export", "export_sign"}
    /\ on = "keys" => cmd = "import"
    /\ on \in {"swap", "rpc", "record", "recorded", "abort", "erase"} => x \in Xtx /\ src[x] \in Outs
    /\ on = "wrote" => IF cmd = "transfer" THEN x \in Xtx ELSE seen[w] # 0

(* A transaction that has a file spends an output.                         *)
Sourced ==
    \A t \in Xtx : raw[t] # "absent" \/ sig[t] # "absent" \/ sub[t] # "absent" => src[t] \in Outs

(* What the signer works on, and the wallet its daemon has open.           *)
SignerAt ==
    /\ sg \in {"pick", "open", "rpc", "write"} => st <= 2
    /\ sg \in {"open", "rpc"} =>
        file \in Files /\ raw[file] = "full" /\ cur = WalletOf(file) /\ sd = "up"
    /\ sg = "write" => file \in Files /\ raw[file] # "absent"
    /\ sg = "open" => opened = NoWallet
    /\ sd = "up" /\ sg # "open" => opened = cur \/ (opened = NoWallet /\ unopened)
    /\ sd = "stopped" => opened = NoWallet

TypeInv == TypeOK /\ Held /\ OnlineAt /\ Sourced /\ SignerAt

LEMMA FileTypes ==
    ASSUME NEW f \in [Files -> Content], NEW t
    PROVE  /\ Open(f, t) \in [Files -> Content]
           /\ Complete(f, t) \in [Files -> Content]
           /\ Overwrite(f, t) \in [Files -> Content]
           /\ Remove(f, t) \in [Files -> Content]
           /\ Delete(f, t) \in [Files -> Content]
BY DEF Open, Complete, Overwrite, Remove, Delete, Content

(* What the operations on files do to the presence of each.                *)
LEMMA FileSteps ==
    ASSUME NEW f \in [Files -> Content], NEW t, NEW g \in Files
    PROVE  /\ Open(f, t)[g] = IF g = t THEN "partial" ELSE f[g]
           /\ Complete(f, t)[g] = IF g = t /\ f[g] # "absent" THEN "full" ELSE f[g]
           /\ Overwrite(f, t)[g] = IF g = t THEN "partial" ELSE f[g]
           /\ Remove(f, t)[g] = IF g = t THEN "absent" ELSE f[g]
           /\ Delete(f, t)[g] = IF g \in t THEN "absent" ELSE f[g]
BY DEF Open, Complete, Overwrite, Remove, Delete, Content

LEMMA TypeInit == Init => TypeInv
<1> SUFFICES ASSUME Init PROVE TypeInv
  OBVIOUS
<1>1. DeviceTypeOK
  BY DEF Init, DeviceInit, DeviceTypeOK, Blank, Content, Host
<1>2. /\ recv \in [Wallets -> 0..MaxOut] /\ seen = recv /\ kis = recv /\ exported = recv /\ imp = recv
      /\ kimg \in [Outs -> 0..MaxOut] /\ src \in [Xtx -> Outs \union {NoFile}]
  BY XmrAssumption DEF Init
<1>3. TypeOK
  <2> HIDE DEF Outs
  <2>1. 0 \in Nat /\ 1 \in 1..3
    OBVIOUS
  <2> QED
    BY <1>1, <1>2, <2>1 DEF Init, TypeOK, Commands
<1>4. Sourced
  BY DEF Init, DeviceInit, Sourced, Blank, Files
<1> QED
  BY <1>3, <1>4 DEF Init, TypeInv, Held, OnlineAt, SignerAt

(* The signer waits while an online command runs, and keeps what it has.   *)
LEMMA SignerWaits ==
    ASSUME TypeInv, on # "idle" \/ dev = "online", UNCHANGED signerVars
    PROVE  sg \in {"idle", "off"} /\ SignerAt'
BY DEF TypeInv, Held, Mounted, SignerAt

(* A step that makes no file of a transaction.                             *)
LEMMA StillSourced ==
    ASSUME TypeInv, UNCHANGED src,
           \A t \in Xtx :
               /\ raw'[t] # "absent" => raw[t] # "absent"
               /\ sig'[t] # "absent" => sig[t] # "absent"
               /\ sub'[t] # "absent" => sub[t] # "absent"
    PROVE  Sourced'
BY DEF TypeInv, Sourced

(* The commands, as they start.                                            *)
LEMMA TypeCommand ==
    ASSUME TypeInv, Command PROVE TypeInv'
<1> USE DEF TypeInv
<1>1. /\ UNCHANGED <<allFiles, dev, contentVars, chainVars, walletVars, wd, signerVars, faults>>
      /\ mnt' = TRUE /\ dev = "online" /\ cmd' \in Commands
  BY DEF Command, StartWallets, StartSubmit, StartAbort, Start, Mount, Commands
<1>2. SignerAt' /\ Sourced' /\ sg \in {"idle", "off"}
  BY <1>1, SignerWaits, StillSourced
<1>3. Held' /\ DeviceTypeOK'
  BY <1>1, <1>2 DEF Held, Mounted, TypeOK, DeviceTypeOK
<1>4. ASSUME NEW c \in Commands, StartWallets(c)
      PROVE  TypeInv'
  <2>1. TypeOK'
    <3>1. /\ on' = "daemon" /\ w' = NoWallet /\ x' = NoFile /\ relay' = FALSE /\ eTodo' = {}
          /\ wTodo' \subseteq Wallets
      BY <1>4 DEF StartWallets
    <3> QED
      BY <1>1, <1>3, <3>1, ZenonT(30) DEF TypeOK
  <2>2. OnlineAt'
    BY <1>4 DEF StartWallets, Start, OnlineAt, Commands
  <2> QED
    BY <1>2, <1>3, <2>1, <2>2
<1>5. ASSUME NEW c \in Commands, StartSubmit(c)
      PROVE  TypeInv'
  <2> DEFINE found == IF c = "submit" THEN SubmitTarget ELSE ResubmitTarget
             ok == \E t \in found : IF c = "submit" THEN sig[t] = "full" ELSE TRUE
             target == CHOOSE t \in found : TRUE
  <2>1. \A t \in found : t \in Xtx /\ src[t] \in Outs
    BY DEF SubmitTarget, ResubmitTarget, XmrUnsent, XmrSubmitted, Unsent, Submitted, Present, Sourced
  <2>2. ok => target \in Xtx /\ src[target] \in Outs
    BY <2>1
  <2>3. ok => src[target][1] \in Wallets
    BY <2>2 DEF Outs
  <2>4. /\ on' = IF ok THEN "daemon" ELSE "exit"
        /\ x' = IF ok THEN target ELSE NoFile
        /\ wTodo' = IF ok THEN {src[target][1]} ELSE {}
        /\ relay' \in BOOLEAN /\ w' = NoWallet /\ eTodo' = {}
    BY <1>5 DEF StartSubmit
  <2> HIDE DEF ok, target
  <2>5. x' \in Xtx \union {NoFile} /\ wTodo' \subseteq Wallets /\ on' \in {"daemon", "exit"}
    BY <2>2, <2>3, <2>4
  <2>6. TypeOK'
    BY <1>1, <1>3, <2>4, <2>5 DEF TypeOK
  <2>7. OnlineAt'
    BY <1>1, <1>5, <2>2, <2>4 DEF OnlineAt, StartSubmit, Start
  <2> QED
    BY <1>2, <1>3, <2>6, <2>7
<1>6. CASE StartAbort
  <2>1. TypeOK'
    BY <1>1, <1>3, <1>6 DEF StartAbort, TypeOK
  <2>2. OnlineAt'
    BY <1>1, <1>6 DEF StartAbort, OnlineAt, CanAbort, XmrUnsentRaw, UnsentRaw, Present, Sourced
  <2> QED
    BY <1>2, <1>3, <2>1, <2>2
<1> QED
  BY <1>4, <1>5, <1>6 DEF Command

(* A step of an online command: what it leaves alone.                      *)
LEMMA ProgressFrame ==
    ASSUME TypeInv, Progress
    PROVE  /\ UNCHANGED <<dev, signerVars, recv, faults, kimg>> /\ on # "idle"
           /\ on' # "idle" => UNCHANGED mnt
           /\ sg \in {"idle", "off"} /\ SignerAt' /\ Held'
<1>1. /\ UNCHANGED <<dev, signerVars, recv, faults, kimg>> /\ on # "idle"
      /\ on' # "idle" => UNCHANGED mnt
  BY DEF Progress, RestartDaemon, OpenWallet, WriteTx, WroteTx, UnlinkStale, WriteOutputs,
         WroteOutputs, ImportKeyImages, RelayDaemon, SubmitTransfer, WriteSub, WroteSub,
         ShredOverwrite, ShredRemove, Exit
<1>2. sg \in {"idle", "off"} /\ SignerAt'
  BY <1>1, SignerWaits
<1>3. Held'
  <2>1. sg' = sg /\ dev' = dev /\ mnt /\ dev = "online"
    BY <1>1 DEF TypeInv, Held, Mounted
  <2> QED
    BY <1>1, <1>2, <2>1 DEF Held, Mounted
<1> QED
  BY <1>1, <1>2, <1>3

LEMMA TakenOuts ==
    ASSUME NEW v \in Wallets, seen[v] \in 0..MaxOut
    PROVE  TakenForUnspent(v) \subseteq Outs
<1>1. 1..seen[v] \subseteq 1..MaxOut
  BY XmrAssumption
<1> QED
  BY <1>1 DEF TakenForUnspent, Outs

LEMMA SourcedProgress ==
    ASSUME TypeInv, Progress PROVE Sourced'
<1>0. /\ Xtx \subseteq Files /\ raw \in [Files -> Content] /\ sig \in [Files -> Content]
      /\ sub \in [Files -> Content] /\ src \in [Xtx -> Outs \union {NoFile}]
  BY DEF TypeInv, TypeOK, DeviceTypeOK, Files
<1>1. CASE \/ RestartDaemon \/ OpenWallet \/ ImportKeyImages \/ RelayDaemon \/ SubmitTransfer \/ Exit
  BY <1>1, StillSourced
     DEF RestartDaemon, OpenWallet, ImportKeyImages, RelayDaemon, SubmitTransfer, Exit
<1>2. CASE WroteTx \/ WroteOutputs \/ WroteSub \/ ShredRemove \/ UnlinkStale
  BY <1>0, <1>2, FileSteps, StillSourced DEF WroteTx, UnlinkStale, WroteOutputs, WroteSub, ShredRemove
<1>3. CASE WriteTx
  <2>1. TakenForUnspent(w) \subseteq Outs
    BY <1>3, TakenOuts DEF WriteTx, TypeInv, OnlineAt, TypeOK
  <2> QED
    BY <1>0, <1>3, <2>1, FileSteps DEF WriteTx, TypeInv, Sourced
<1>4. CASE WriteOutputs
  <2>1. CASE seen[w] = 0
    BY <1>4, <2>1, StillSourced DEF WriteOutputs
  <2>2. CASE seen[w] # 0
    <3>1. <<w, seen[w]>> \in Outs
      BY <1>4, <2>2 DEF WriteOutputs, TypeInv, OnlineAt, TypeOK, Outs
    <3> QED
      BY <1>0, <1>4, <2>2, <3>1, XmrAssumption, FileSteps, StillSourced DEF WriteOutputs
  <2> QED
    BY <2>1, <2>2
<1>5. CASE WriteSub
  BY <1>0, <1>5, FileSteps DEF WriteSub, TypeInv, Sourced, OnlineAt
<1>6. CASE ShredOverwrite
  BY <1>0, <1>6, FileSteps DEF ShredOverwrite, TypeInv, Sourced, OnlineAt
<1> QED
  BY <1>1, <1>2, <1>3, <1>4, <1>5, <1>6 DEF Progress

LEMMA TypeProgress ==
    ASSUME TypeInv, Progress PROVE TypeInv'
<1>0. /\ UNCHANGED <<dev, signerVars, recv, faults, kimg>>
      /\ Held' /\ SignerAt' /\ Sourced'
  BY ProgressFrame, SourcedProgress
<1> SUFFICES TypeOK' /\ OnlineAt'
  BY <1>0 DEF TypeInv
<1> USE DEF TypeInv, TypeOK, DeviceTypeOK, OnlineAt
<1>1. CASE RestartDaemon
  BY <1>0, <1>1 DEF RestartDaemon, Started, Stop
<1>2. CASE OpenWallet
  <2>1. seen' \in [Wallets -> 0..MaxOut] /\ wTodo' \subseteq Wallets /\ w' \in Wallets \union {NoWallet}
    BY <1>2 DEF OpenWallet
  <2>2. TypeOK'
    BY <1>0, <1>2, <2>1 DEF OpenWallet
  <2>3. OnlineAt'
    BY <1>2 DEF OpenWallet, Commands
  <2> QED
    BY <2>2, <2>3
<1>3. CASE WriteTx
  <2>1. TakenForUnspent(w) \subseteq Outs
    BY <1>3, TakenOuts DEF WriteTx
  <2>2. TypeOK'
    BY <1>0, <1>3, <2>1, FileTypes DEF WriteTx
  <2> QED
    BY <1>3, <2>1, <2>2 DEF WriteTx
<1>4. CASE WroteTx
  <2>1. <<"raw", x>> \in Ext \X Files
    BY <1>4 DEF WroteTx, Ext, Files
  <2> QED
    BY <1>0, <1>4, <2>1, FileTypes DEF WroteTx
<1>5. CASE UnlinkStale
  BY <1>0, <1>5, FileTypes DEF UnlinkStale
<1>6. CASE WriteOutputs
  <2>1. seen[w] # 0 => <<w, seen[w]>> \in Outs
    BY <1>6 DEF WriteOutputs, Outs
  <2> QED
    BY <1>0, <1>6, <2>1, FileTypes DEF WriteOutputs, Commands
<1>7. CASE WroteOutputs
  <2>1. <<"raw", <<w, seen[w]>>>> \in Ext \X Files
    BY <1>7 DEF WroteOutputs, Ext, Files, Outs
  <2> QED
    BY <1>0, <1>7, <2>1, FileTypes DEF WroteOutputs, Commands
<1>8. CASE ImportKeyImages
  BY <1>0, <1>8 DEF ImportKeyImages, FilesOf, Commands
<1>9. CASE RelayDaemon
  BY <1>0, <1>9 DEF RelayDaemon, Started, Stop
<1>10. CASE SubmitTransfer
  BY <1>0, <1>10 DEF SubmitTransfer, AfterSubmit
<1>11. CASE WriteSub
  BY <1>0, <1>11, FileTypes DEF WriteSub
<1>12. CASE WroteSub
  <2>1. <<"sub", x>> \in Ext \X Files
    BY <1>12 DEF WroteSub, Ext, Files
  <2> QED
    BY <1>0, <1>12, <2>1, FileTypes DEF WroteSub
<1>13. CASE ShredOverwrite
  BY <1>0, <1>13, FileTypes DEF ShredOverwrite
<1>14. CASE ShredRemove
  BY <1>0, <1>14, FileTypes DEF ShredRemove
<1>15. CASE Exit
  BY <1>0, <1>15 DEF Exit, Umount, Stop
<1> QED
  BY <1>1, <1>2, <1>3, <1>4, <1>5, <1>6, <1>7, <1>8, <1>9, <1>10, <1>11, <1>12, <1>13, <1>14, <1>15
     DEF Progress

(* A step of the signer at work: the online machine is idle.               *)
SignerWorks == Insert \/ Signing

LEMMA SignerFrame ==
    ASSUME TypeInv, SignerWorks
    PROVE  /\ UNCHANGED <<sub, dev, wantki, src, chainVars, walletVars, onlineVars, faults>>
           /\ on = "idle" /\ dev = "offline"
           /\ OnlineAt' /\ Held'
<1>1. /\ UNCHANGED <<sub, dev, wantki, src, chainVars, walletVars, onlineVars, faults>>
      /\ sg \notin {"idle", "off"} \/ (dev = "offline" /\ mnt')
      /\ sg' \notin {"idle", "off"} => mnt' = mnt \/ mnt'
      /\ sg' # "off"
  BY DEF SignerWorks, Signing, Insert, List, Pick, NextSignable, OpenSigning, ImportOutputs,
         SignTransfer, Wrote, SignDone, StartAgain, Mount
<1>2. on = "idle" /\ dev = "offline"
  BY <1>1 DEF TypeInv, Held, Mounted
<1>3. OnlineAt'
  BY <1>1, <1>2 DEF OnlineAt
<1>4. Held'
  <2>1. on' = "idle" /\ dev' = "offline"
    BY <1>1, <1>2
  <2>2. sg' \notin {"idle", "off"} => mnt'
    BY DEF TypeInv, Held, Mounted, SignerWorks, Signing, Insert, List, Pick, NextSignable,
           OpenSigning, ImportOutputs, SignTransfer, Wrote, SignDone, StartAgain, Mount
  <2> QED
    BY <2>1, <2>2 DEF Held, Mounted
<1> QED
  BY <1>1, <1>2, <1>3, <1>4

LEMMA WalletOfTyped ==
    ASSUME TypeInv, NEW f \in Files, raw[f] # "absent" PROVE WalletOf(f) \in Wallets
BY DEF TypeInv, Sourced, WalletOf, Files, Outs

LEMMA TypeSigner ==
    ASSUME TypeInv, SignerWorks PROVE TypeInv'
<1>0. /\ UNCHANGED <<sub, dev, wantki, src, chainVars, walletVars, onlineVars, faults>>
      /\ OnlineAt' /\ Held'
  BY SignerFrame
<1>1. /\ raw \in [Files -> Content] /\ sig \in [Files -> Content] /\ Xtx \subseteq Files
      /\ Outs \subseteq Files
  BY DEF TypeInv, TypeOK, DeviceTypeOK, Files
<1> SUFFICES TypeOK' /\ Sourced' /\ SignerAt'
  BY <1>0 DEF TypeInv
<1> USE DEF TypeInv, TypeOK, DeviceTypeOK, SignerAt
<1>2. CASE Insert
  BY <1>0, <1>2, StillSourced DEF Insert, Mount
<1>3. CASE List
  <2>1. fTodo' \subseteq Files
    BY <1>1, <1>3 DEF List, OutsUnsigned, Unsigned, Present, XmrUnsigned
  <2>2. Sourced'
    BY <1>0, <1>3, StillSourced DEF List
  <2>3. SignerAt'
    BY <1>3 DEF List, Stop
  <2>4. TypeOK'
    <3>1. /\ sg' \in {"crashed", "pick"} /\ sd' \in {"stopped", "up"} /\ unopened' \in BOOLEAN
          /\ cur' \in Wallets \union {NoWallet} /\ opened' \in Wallets \union {NoWallet}
      BY <1>3 DEF List, Stop
    <3> QED
      BY <1>0, <1>3, <2>1, <3>1 DEF List
  <2> QED
    BY <2>2, <2>3, <2>4
<1>4. CASE Pick
  <2> PICK f \in fTodo :
        /\ file' = f /\ fTodo' = fTodo \ {f}
        /\ IF raw[f] # "full"
           THEN failed' = failed \union {f} /\ UNCHANGED <<sg, daemonVars>>
           ELSE /\ cur' = WalletOf(f) /\ UNCHANGED failed
                /\ IF NeedDaemonRestart(WalletOf(f))
                   THEN /\ sd' = Started(Stop(sd), "up") /\ opened' = NoWallet
                        /\ unopened' = FALSE /\ sg' = "open"
                   ELSE UNCHANGED <<sd, opened, unopened>> /\ sg' = "rpc"
    BY <1>4 DEF Pick
  <2>1. f \in Files /\ (raw[f] = "full" => WalletOf(f) \in Wallets) /\ UNCHANGED <<raw, src>>
    BY <1>4, WalletOfTyped DEF Pick
  <2>2. Sourced'
    BY <1>0, <1>4, StillSourced DEF Pick
  <2>3. CASE raw[f] # "full"
    BY <1>0, <1>4, <2>1, <2>2, <2>3 DEF Pick
  <2>4. CASE raw[f] = "full" /\ NeedDaemonRestart(WalletOf(f))
    <3>1. /\ sd' = "up" /\ sg' = "open" /\ opened' = NoWallet /\ unopened' = FALSE
          /\ failed' = failed /\ cur' = WalletOf(f)
      BY <2>4 DEF Started, Stop
    <3>2. SignerAt'
      BY <1>0, <1>4, <2>1, <2>4, <3>1 DEF Pick, WalletOf, SignerAt
    <3>3. TypeOK'
      <4>1. /\ sd' \in {"stopped", "up"} /\ unopened' \in BOOLEAN /\ cur' \in Wallets \union {NoWallet}
            /\ opened' \in Wallets \union {NoWallet} /\ fTodo' \subseteq Files /\ file' \in Files /\ failed' = failed
        BY <2>1, <2>4, <3>1
      <4>2. UNCHANGED <<device, contentVars, chainVars, walletVars, onlineVars, imp, st, faults>>
        BY <1>4 DEF Pick
      <4> QED
        BY <1>0, <3>1, <4>1, <4>2
    <3> QED
      BY <1>0, <1>4, <2>2, <3>1, <3>2, <3>3 DEF Pick
  <2>5. CASE raw[f] = "full" /\ ~NeedDaemonRestart(WalletOf(f))
    BY <1>0, <1>4, <2>1, <2>2, <2>5 DEF Pick, NeedDaemonRestart, WalletOf
  <2> QED
    BY <2>3, <2>4, <2>5 DEF TypeInv, TypeOK, DeviceTypeOK, Content
<1>5. CASE NextSignable
  BY <1>0, <1>5, StillSourced DEF NextSignable
<1>6. CASE OpenSigning
  BY <1>0, <1>6, StillSourced, WalletOfTyped DEF OpenSigning, WalletOf
<1>7. CASE ImportOutputs
  <2>1. CASE opened = NoWallet
    BY <1>0, <1>7, <2>1, StillSourced DEF ImportOutputs
  <2>2. CASE opened # NoWallet
    <3> DEFINE n == Larger(imp[opened], file[2])
    <3>1. n \in 0..MaxOut /\ opened \in Wallets
      BY <1>7, <2>2 DEF ImportOutputs, Larger, Outs
    <3>2. imp' = [imp EXCEPT ![opened] = n] /\ sg' = "write" /\ UNCHANGED <<failed, file, st>>
      BY <1>7, <2>2 DEF ImportOutputs
    <3>3. imp' \in [Wallets -> 0..MaxOut]
      BY <3>1, <3>2
    <3>4. /\ kimg' \in [Outs -> 0..MaxOut] /\ imported' \subseteq Outs
          /\ raw' \in [Files -> Content] /\ sig' \in [Files -> Content]
      BY <1>1, <1>7, <2>2, <3>1, FileTypes DEF ImportOutputs
    <3>5. TypeOK'
      BY <1>0, <1>7, <3>2, <3>3, <3>4 DEF ImportOutputs
    <3>6. raw' \in {raw, Open(raw, file)} /\ sig' \in {sig, Open(sig, file)}
      BY <1>7, <2>2 DEF ImportOutputs
    <3>7. \A t \in Xtx : raw'[t] = raw[t] /\ sig'[t] = sig[t]
      BY <1>1, <1>7, <3>6, FileSteps, XmrAssumption DEF ImportOutputs
    <3>8. raw'[file] # "absent"
      BY <1>1, <1>7, <3>6, FileSteps DEF ImportOutputs
    <3> QED
      BY <1>0, <1>7, <3>2, <3>5, <3>7, <3>8, StillSourced DEF ImportOutputs
  <2> QED
    BY <2>1, <2>2
<1>8. CASE SignTransfer
  <2>1. TypeOK'
    BY <1>0, <1>1, <1>8, FileTypes DEF SignTransfer
  <2>2. Sourced'
    BY <1>0, <1>1, <1>8, FileSteps DEF SignTransfer, Sourced
  <2> QED
    BY <1>0, <1>8, <2>1, <2>2 DEF SignTransfer
<1>9. CASE Wrote
  <2>1. TypeOK'
    BY <1>0, <1>1, <1>9, FileTypes DEF Wrote, Ext
  <2>2. Sourced'
    BY <1>0, <1>1, <1>9, FileSteps, StillSourced DEF Wrote
  <2> QED
    BY <1>0, <1>9, <2>1, <2>2 DEF Wrote
<1>10. CASE SignDone
  <2>1. mnt' \in BOOLEAN /\ unsynced' \subseteq Ext \X Files
    BY <1>10 DEF SignDone, Umount
  <2>2. TypeOK'
    BY <1>0, <1>10, <2>1 DEF SignDone
  <2>3. Sourced' /\ SignerAt'
    BY <1>0, <1>10, StillSourced DEF SignDone
  <2> QED
    BY <2>2, <2>3
<1>11. CASE StartAgain
  <2>1. mnt' \in BOOLEAN /\ unsynced' \subseteq Ext \X Files
    BY <1>11 DEF StartAgain, Umount
  <2>2. TypeOK'
    BY <1>0, <1>11, <2>1 DEF StartAgain
  <2>3. Sourced' /\ SignerAt'
    BY <1>0, <1>11, StillSourced DEF StartAgain
  <2> QED
    BY <2>2, <2>3
<1> QED
  BY <1>2, <1>3, <1>4, <1>5, <1>6, <1>7, <1>8, <1>9, <1>10, <1>11 DEF SignerWorks, Signing

(* The steps outside both programs, and the faults.                        *)
LEMMA AfterPowerLoss ==
    ASSUME TypeInv, NEW host, PowerLoss(host)
    PROVE  /\ dev = host /\ dev' = dev /\ ~mnt' /\ unsynced' = {} /\ DeviceTypeOK'
           /\ \A f \in Files : /\ raw'[f] \in {raw[f], "partial"} /\ (raw'[f] = "absent" <=> raw[f] = "absent")
                               /\ sig'[f] \in {sig[f], "partial"} /\ (sig'[f] = "absent" <=> sig[f] = "absent")
                               /\ sub'[f] \in {sub[f], "partial"} /\ (sub'[f] = "absent" <=> sub[f] = "absent")
BY DEF PowerLoss, TypeInv, TypeOK, DeviceTypeOK, Content

LEMMA TypeFault ==
    ASSUME TypeInv, Fault PROVE TypeInv'
<1>0. /\ faults' \in Nat /\ Xtx \subseteq Files
      /\ Kill \/ OnlinePowerLoss \/ AnswerLost \/ OpenFails \/ OfflinePowerLoss \/ SigningDaemonDies
  BY DEF Fault, TypeInv, TypeOK, Files
<1> USE DEF TypeInv
<1>1. CASE Kill
  <2>1. SignerAt' /\ Sourced' /\ sg \in {"idle", "off"}
    BY <1>1, SignerWaits, StillSourced DEF Kill, OnlineDies
  <2>2. TypeOK'
    <3>1. DeviceTypeOK' /\ wd' = wd
      BY <1>1 DEF Kill, TypeOK, DeviceTypeOK
    <3>2. /\ on' = "idle" /\ cmd' = "none" /\ w' = NoWallet /\ wTodo' = {} /\ x' = NoFile
          /\ relay' = FALSE /\ eTodo' = {}
          /\ UNCHANGED <<contentVars, chainVars, walletVars, signerVars>>
      BY <1>1 DEF Kill, OnlineDies
    <3> QED
      BY <1>0, <3>1, <3>2, ZenonT(30) DEF TypeOK
  <2> QED
    BY <1>1, <2>1, <2>2 DEF Kill, OnlineDies, Held, OnlineAt
<1>2. CASE OnlinePowerLoss
  <2>1. /\ dev = "online" /\ DeviceTypeOK' /\ on' = "idle"
        /\ \A f \in Xtx : /\ raw'[f] # "absent" => raw[f] # "absent"
                          /\ sig'[f] # "absent" => sig[f] # "absent"
                          /\ sub'[f] # "absent" => sub[f] # "absent"
    BY <1>0, <1>2, AfterPowerLoss DEF OnlinePowerLoss, OnlineDies
  <2>2. SignerAt' /\ Sourced' /\ sg \in {"idle", "off"}
    BY <1>2, <2>1, SignerWaits, StillSourced DEF OnlinePowerLoss, OnlineDies
  <2>3. TypeOK'
    BY <1>0, <1>2, <2>1 DEF OnlinePowerLoss, OnlineDies, TypeOK
  <2> QED
    BY <1>2, <2>1, <2>2, <2>3 DEF OnlinePowerLoss, OnlineDies, Held, OnlineAt
<1>3. CASE AnswerLost
  <2>1. SignerAt' /\ Sourced' /\ sg \in {"idle", "off"}
    BY <1>3, SignerWaits, StillSourced DEF AnswerLost
  <2>2. TypeOK'
    BY <1>0, <1>3 DEF AnswerLost, TypeOK, DeviceTypeOK, OnlineAt
  <2> QED
    BY <1>3, <2>1, <2>2 DEF AnswerLost, Held, Mounted, OnlineAt
<1>4. CASE OpenFails
  <2>1. Sourced'
    BY <1>4, StillSourced DEF OpenFails
  <2>2. TypeOK'
    <3>1. DeviceTypeOK' /\ failed' \subseteq Files
      BY <1>4 DEF OpenFails, TypeOK, DeviceTypeOK, SignerAt
    <3> QED
      BY <1>0, <1>4, <3>1 DEF OpenFails, TypeOK
  <2> QED
    BY <1>4, <2>1, <2>2 DEF OpenFails, Held, Mounted, OnlineAt, SignerAt
<1>5. CASE OfflinePowerLoss
  <2>1. /\ dev = "offline" /\ DeviceTypeOK' /\ sg' = "off"
        /\ \A f \in Xtx : /\ raw'[f] # "absent" => raw[f] # "absent"
                          /\ sig'[f] # "absent" => sig[f] # "absent"
                          /\ sub'[f] # "absent" => sub[f] # "absent"
    BY <1>0, <1>5, AfterPowerLoss DEF OfflinePowerLoss
  <2>2. Sourced'
    BY <1>5, <2>1, StillSourced DEF OfflinePowerLoss
  <2>3. imp' \in [Wallets -> 0..MaxOut]
    BY <1>5, XmrAssumption DEF OfflinePowerLoss
  <2>4. TypeOK'
    <3>0. fTodo' = {} /\ failed' = {} /\ st' = 1 /\ unopened' = FALSE
      BY <1>5 DEF OfflinePowerLoss
    <3>1. st' \in 1..3
      BY <3>0
    <3>2. UNCHANGED <<contentVars, chainVars, walletVars, onlineVars>>
      BY <1>5 DEF OfflinePowerLoss
    <3> QED
      BY <1>0, <1>5, <2>1, <2>3, <3>0, <3>1, <3>2 DEF OfflinePowerLoss, TypeOK
  <2>5. on = "idle"
    BY <2>1 DEF Held, Mounted
  <2> QED
    BY <1>5, <2>1, <2>2, <2>4, <2>5 DEF OfflinePowerLoss, Held, OnlineAt, SignerAt
<1>6. CASE SigningDaemonDies
  <2>1. Sourced'
    BY <1>6, StillSourced DEF SigningDaemonDies
  <2>2. TypeOK'
    <3>1. DeviceTypeOK' /\ unopened' \in BOOLEAN
      BY <1>6 DEF SigningDaemonDies, TypeOK, DeviceTypeOK
    <3> QED
      BY <1>0, <1>6, <3>1 DEF SigningDaemonDies, TypeOK
  <2> QED
    BY <1>6, <2>1, <2>2 DEF SigningDaemonDies, Held, Mounted, OnlineAt, SignerAt
<1> QED
  BY <1>0, <1>1, <1>2, <1>3, <1>4, <1>5, <1>6

LEMMA TypeWorld ==
    ASSUME TypeInv, (\E v \in Wallets : Receive(v)) \/ Setup \/ CarryDevice PROVE TypeInv'
<1> USE DEF TypeInv
<1>0. /\ Xtx \subseteq Files /\ raw \in [Files -> Content] /\ sig \in [Files -> Content]
  BY DEF TypeOK, DeviceTypeOK, Files
<1>1. ASSUME NEW v \in Wallets, Receive(v) PROVE TypeInv'
  <2>1. recv' \in [Wallets -> 0..MaxOut]
    BY <1>1, XmrAssumption DEF Receive, TypeOK
  <2>2. TypeOK'
    BY <1>1, <2>1 DEF Receive, TypeOK, DeviceTypeOK
  <2>3. Sourced' /\ Held' /\ OnlineAt' /\ SignerAt'
    BY <1>1 DEF Receive, Sourced, Held, Mounted, OnlineAt, SignerAt, WalletOf
  <2> QED
    BY <2>2, <2>3
<1>2. CASE Setup
  <2>1. \A t \in Xtx : /\ raw'[t] # "absent" => raw[t] # "absent"
                       /\ sig'[t] # "absent" => sig[t] # "absent"
    BY <1>0, <1>2, FileSteps DEF Setup
  <2>2. Sourced'
    BY <1>2, <2>1, StillSourced DEF Setup
  <2>3. TypeOK'
    BY <1>0, <1>2, FileTypes DEF Setup, TypeOK, DeviceTypeOK
  <2>4. on = "idle"
    BY <1>2 DEF Setup, Held, Mounted
  <2> QED
    BY <1>2, <2>2, <2>3, <2>4 DEF Setup, Held, OnlineAt, SignerAt
<1>3. CASE CarryDevice
  <2> PICK to \in Host : Carry(to)
    BY <1>3 DEF CarryDevice
  <2>1. UNCHANGED <<contentVars, chainVars, walletVars, onlineVars, signerVars, faults>>
    BY <1>3 DEF CarryDevice
  <2>2. on = "idle" /\ sg \in {"idle", "off"}
    BY DEF Carry, Held, Mounted
  <2>3. TypeOK'
    BY <2>1 DEF Carry, TypeOK, DeviceTypeOK
  <2>4. Sourced'
    BY <2>1, StillSourced DEF Carry
  <2> QED
    BY <2>1, <2>2, <2>3, <2>4 DEF Held, OnlineAt, SignerAt
<1> QED
  BY <1>1, <1>2, <1>3

LEMMA TypeNext == TypeInv /\ [Next]_vars => TypeInv'
<1> SUFFICES ASSUME TypeInv, [Next]_vars PROVE TypeInv'
  OBVIOUS
<1>1. CASE UNCHANGED vars
  BY <1>1 DEF TypeInv, TypeOK, DeviceTypeOK, Held, Mounted, OnlineAt, Sourced, SignerAt, WalletOf
<1> QED
  BY <1>1, TypeCommand, TypeProgress, TypeSigner, TypeWorld, TypeFault DEF Next, SignerWorks

(* Every variable keeps its type.                                          *)
THEOREM XmrTyped == Spec => []TypeOK
<1>1. TypeInv => TypeOK
  BY DEF TypeInv
<1> QED
  BY TypeInit, TypeNext, <1>1, PTL DEF Spec

(* The signing daemon is only called with the wallet open that the file in *)
(* hand belongs to: the two tests of NeedDaemonRestart are enough.         *)
THEOREM SignsWithItsWallet == Spec => []RightWallet
<1>1. TypeInv => RightWallet
  BY DEF TypeInv, SignerAt, RightWallet
<1> QED
  BY TypeInit, TypeNext, <1>1, PTL DEF Spec

----------------------------------------------------------------------------
(* The wallet daemon of the online machine.                                *)

RelayInv ==
    /\ on \in {"open", "unlink", "write", "wrote", "keys", "swap"} => wd = "plain"
    /\ on = "swap" => relay
    /\ RelayOnly

LEMMA RelayNext == TypeInv /\ RelayInv /\ [Next]_vars => RelayInv'
<1> SUFFICES ASSUME TypeInv, RelayInv, [Next]_vars PROVE RelayInv'
  OBVIOUS
<1> USE DEF RelayInv, RelayOnly
<1>1. CASE Command
  BY <1>1 DEF Command, Start, StartWallets, StartSubmit, StartAbort
<1>2. CASE Progress
  <2>1. CASE RestartDaemon \/ RelayDaemon
    BY <2>1 DEF RestartDaemon, RelayDaemon, Started, Stop
  <2>2. CASE OpenWallet
    BY <2>2 DEF OpenWallet
  <2>3. CASE \/ WriteTx \/ WroteTx \/ UnlinkStale \/ WriteOutputs \/ WroteOutputs \/ ImportKeyImages
             \/ SubmitTransfer \/ WriteSub \/ WroteSub \/ ShredOverwrite \/ ShredRemove \/ Exit
    BY <2>3 DEF WriteTx, WroteTx, UnlinkStale, WriteOutputs, WroteOutputs, ImportKeyImages,
                SubmitTransfer, AfterSubmit, WriteSub, WroteSub, ShredOverwrite, ShredRemove, Exit
  <2> QED
    BY <1>2, <2>1, <2>2, <2>3 DEF Progress
<1>3. CASE SignerWorks
  BY <1>3, SignerFrame
<1>4. CASE (\E v \in Wallets : Receive(v)) \/ Setup \/ CarryDevice
  <2>1. UNCHANGED onlineVars
    BY <1>4 DEF Receive, Setup, CarryDevice
  <2> QED
    BY <2>1
<1>5. CASE Fault
  BY <1>5 DEF Fault, Kill, OnlinePowerLoss, OnlineDies, AnswerLost, OpenFails, OfflinePowerLoss,
              SigningDaemonDies
<1>6. CASE UNCHANGED vars
  BY <1>6
<1> QED
  BY <1>1, <1>2, <1>3, <1>4, <1>5, <1>6 DEF Next, SignerWorks

(* A transaction goes out through the relaying daemon if, and only if, the *)
(* user asked for it.                                                      *)
THEOREM RelayedAsAsked == Spec => []RelayOnly
<1>1. Init => RelayInv
  BY DEF Init, RelayInv, RelayOnly
<1>2. RelayInv => RelayOnly
  BY DEF RelayInv
<1> QED
  BY TypeInit, TypeNext, RelayNext, <1>1, <1>2, PTL DEF Spec

----------------------------------------------------------------------------
(* Outputs before transactions.                                            *)

(* While outputs are dealt with, each that waits is still to be taken, in  *)
(* hand, or has failed; afterwards all that still wait have failed.        *)
FirstInv ==
    /\ sg \in {"pick", "open", "rpc", "write"} /\ st = 1 =>
        /\ fTodo \subseteq Outs /\ (sg # "pick" => file \in Outs)
        /\ \A o \in OutsUnsigned : o \in fTodo \union failed \/ (o = file /\ sg \in {"open", "rpc"})
    /\ sg \in {"list", "pick", "open", "rpc", "write"} /\ st # 1 => OutsUnsigned \subseteq failed

(* Who leaves the signer and the outputs files alone leaves this alone.    *)
LEMMA FirstKept ==
    ASSUME FirstInv, UNCHANGED <<sg, st, file, fTodo, failed, imported>>,
           \A o \in Outs : raw'[o] # "absent" => raw[o] # "absent",
           \A o \in Outs : sig[o] # "absent" => sig'[o] # "absent"
    PROVE  FirstInv'
<1>1. OutsUnsigned' \subseteq OutsUnsigned
  BY DEF OutsUnsigned, Unsigned, Present, Files
<1> QED
  BY <1>1 DEF FirstInv

LEMMA FirstSigner ==
    ASSUME TypeInv, FirstInv, SignerWorks \/ OpenFails PROVE FirstInv'
<1>0. /\ raw \in [Files -> Content] /\ sig \in [Files -> Content] /\ Outs \subseteq Files
      /\ st \in 1..3 /\ sg \in {"pick", "open", "rpc", "write"} => st <= 2
  BY DEF TypeInv, TypeOK, DeviceTypeOK, SignerAt, Files
<1> USE DEF FirstInv
<1>1. CASE Insert
  BY <1>1 DEF Insert
<1>2. CASE List
  <2>1. OutsUnsigned' = OutsUnsigned /\ UNCHANGED <<st, failed>>
    BY <1>2 DEF List, OutsUnsigned, Unsigned, Present
  <2>2. CASE sg' = "crashed"
    BY <2>2
  <2>3. CASE sg' = "pick" /\ st = 1
    <3>1. fTodo' = OutsUnsigned
      BY <1>2, <2>3 DEF List, Signables
    <3> QED
      BY <2>1, <2>3, <3>1 DEF OutsUnsigned
  <2>4. CASE sg' = "pick" /\ st # 1
    BY <1>2, <2>1, <2>4 DEF List
  <2> QED
    BY <1>2, <2>2, <2>3, <2>4 DEF List
<1>3. CASE Pick
  <2>1. OutsUnsigned' = OutsUnsigned /\ UNCHANGED st /\ sg = "pick"
    BY <1>3 DEF Pick, OutsUnsigned, Unsigned, Present
  <2>2. PICK f \in fTodo : /\ file' = f /\ fTodo' = fTodo \ {f} /\ failed \subseteq failed'
                           /\ \/ sg' = "pick" /\ failed' = failed \union {f}
                              \/ sg' \in {"open", "rpc"}
    BY <1>3 DEF Pick
  <2> QED
    BY <2>1, <2>2
<1>4. CASE NextSignable
  <2>1. OutsUnsigned' = OutsUnsigned
    BY <1>4 DEF NextSignable, OutsUnsigned, Unsigned, Present
  <2> QED
    BY <1>0, <1>4, <2>1 DEF NextSignable
<1>5. CASE OpenSigning
  <2>1. OutsUnsigned' = OutsUnsigned
    BY <1>5 DEF OpenSigning, OutsUnsigned, Unsigned, Present
  <2> QED
    BY <1>5, <2>1 DEF OpenSigning
<1>6. CASE OpenFails
  <2>1. OutsUnsigned' = OutsUnsigned
    BY <1>6 DEF OpenFails, OutsUnsigned, Unsigned, Present
  <2> QED
    BY <1>6, <2>1 DEF OpenFails
<1>7. CASE ImportOutputs
  <2>1. CASE opened = NoWallet
    <3>1. OutsUnsigned' = OutsUnsigned
      BY <1>7, <2>1 DEF ImportOutputs, OutsUnsigned, Unsigned, Present
    <3> QED
      BY <1>7, <2>1, <3>1 DEF ImportOutputs
  <2>2. CASE opened # NoWallet
    <3>1. /\ file \in Outs /\ sg' = "write" /\ UNCHANGED <<st, file, fTodo, failed>>
          /\ \/ raw' = raw /\ sig' = Open(sig, file) /\ UNCHANGED imported
             \/ raw' = Open(raw, file) /\ sig' = sig /\ imported' = imported \union {file}
      BY <1>7, <2>2 DEF ImportOutputs
    <3>2. raw[file] # "absent"
      BY <1>7 DEF ImportOutputs, TypeInv, SignerAt
    <3>3. OutsUnsigned' \subseteq OutsUnsigned \ {file}
      BY <1>0, <3>1, <3>2, FileSteps DEF OutsUnsigned, Unsigned, Present
    <3> QED
      BY <1>7, <3>1, <3>3 DEF ImportOutputs
  <2> QED
    BY <2>1, <2>2
<1>8. CASE SignTransfer
  <2>1. OutsUnsigned' = OutsUnsigned
    BY <1>0, <1>8, FileSteps, XmrAssumption DEF SignTransfer, OutsUnsigned, Unsigned, Present
  <2>2. st # 1
    BY <1>8, XmrAssumption DEF SignTransfer
  <2> QED
    BY <1>8, <2>1, <2>2 DEF SignTransfer
<1>9. CASE Wrote
  <2>1. OutsUnsigned' = OutsUnsigned
    BY <1>0, <1>9, FileSteps DEF Wrote, OutsUnsigned, Unsigned, Present
  <2> QED
    BY <1>9, <2>1 DEF Wrote
<1>10. CASE SignDone \/ StartAgain
  BY <1>10 DEF SignDone, StartAgain
<1> QED
  BY <1>1, <1>2, <1>3, <1>4, <1>5, <1>6, <1>7, <1>8, <1>9, <1>10 DEF SignerWorks, Signing

LEMMA FirstNext == TypeInv /\ FirstInv /\ [Next]_vars => FirstInv'
<1> SUFFICES ASSUME TypeInv, FirstInv, [Next]_vars PROVE FirstInv'
  OBVIOUS
<1>1. ASSUME sg \in {"idle", "off"}, sg' \in {"idle", "off"} PROVE FirstInv'
  BY <1>1 DEF FirstInv
<1>2. CASE Command
  BY <1>1, <1>2, FirstKept
     DEF Command, StartWallets, StartSubmit, StartAbort, Start
<1>3. CASE Progress
  BY <1>1, <1>3, ProgressFrame
<1>4. CASE SignerWorks \/ OpenFails
  BY <1>4, FirstSigner
<1>5. CASE (\E v \in Wallets : Receive(v)) \/ CarryDevice \/ Kill \/ AnswerLost \/ SigningDaemonDies
  BY <1>5, FirstKept DEF Receive, CarryDevice, Carry, Kill, OnlineDies, AnswerLost, SigningDaemonDies
<1>6. CASE OnlinePowerLoss
  <2>1. dev = "online" /\ UNCHANGED sg
    BY <1>6, AfterPowerLoss DEF OnlinePowerLoss, OnlineDies
  <2> QED
    BY <1>1, <2>1 DEF TypeInv, Held, Mounted
<1>7. CASE OfflinePowerLoss \/ Setup
  BY <1>7 DEF OfflinePowerLoss, Setup, FirstInv
<1>8. CASE UNCHANGED vars
  BY <1>8, FirstKept
<1> QED
  BY <1>2, <1>3, <1>4, <1>5, <1>6, <1>7, <1>8 DEF Next, SignerWorks, Fault

(* A transaction is signed only when no outputs wait but those that failed *)
(* in the same run.                                                        *)
THEOREM OutputsComeFirst == Spec => []OutputsFirst
<1>1. Init => FirstInv
  BY DEF Init, FirstInv
<1>2. TypeInv /\ FirstInv => OutputsFirst
  BY XmrAssumption DEF TypeInv, SignerAt, FirstInv, OutputsFirst
<1> QED
  BY TypeInit, TypeNext, FirstNext, <1>1, <1>2, PTL DEF Spec

----------------------------------------------------------------------------
(* The outputs files on the device.                                        *)

(* What a step does to them: none is added.                                *)
Fewer ==
    \A o \in Outs : /\ raw'[o] # "absent" => raw[o] # "absent"
                    /\ sig'[o] # "absent" => sig[o] # "absent"

LEMMA Typed ==
    ASSUME TypeInv
    PROVE  /\ raw \in [Files -> Content] /\ sig \in [Files -> Content] /\ sub \in [Files -> Content]
           /\ Outs \subseteq Files /\ Xtx \subseteq Files /\ Xtx \intersect Outs = {}
BY XmrAssumption DEF TypeInv, TypeOK, DeviceTypeOK, Files

LEMMA FewerOnline ==
    ASSUME TypeInv, Progress, ~WriteOutputs PROVE Fewer /\ UNCHANGED imported
<1>0. /\ raw \in [Files -> Content] /\ sig \in [Files -> Content]
      /\ Outs \subseteq Files /\ Xtx \intersect Outs = {}
  BY Typed
<1>1. CASE \/ RestartDaemon \/ OpenWallet \/ ImportKeyImages \/ RelayDaemon \/ SubmitTransfer
           \/ WriteSub \/ WroteSub \/ Exit
  BY <1>1 DEF RestartDaemon, OpenWallet, ImportKeyImages, RelayDaemon, SubmitTransfer, WriteSub,
              WroteSub, Exit, Fewer
<1>2. CASE WriteTx
  BY <1>0, <1>2, FileSteps DEF WriteTx, Fewer
<1>3. CASE WroteTx \/ WroteOutputs \/ UnlinkStale \/ ShredRemove
  BY <1>0, <1>3, FileSteps DEF WroteTx, WroteOutputs, UnlinkStale, ShredRemove, Fewer
<1>4. CASE ShredOverwrite
  <2>1. x \in Xtx
    BY <1>4 DEF ShredOverwrite, TypeInv, OnlineAt
  <2> QED
    BY <1>0, <1>4, <2>1, FileSteps DEF ShredOverwrite, Fewer
<1> QED
  BY <1>1, <1>2, <1>3, <1>4 DEF Progress

LEMMA FewerSigner ==
    ASSUME TypeInv, SignerWorks, ~ImportOutputs PROVE Fewer /\ UNCHANGED <<imported, kimg, imp>>
<1>0. /\ raw \in [Files -> Content] /\ sig \in [Files -> Content]
      /\ Outs \subseteq Files /\ Xtx \intersect Outs = {}
  BY Typed
<1>1. CASE Insert \/ List \/ Pick \/ NextSignable \/ OpenSigning \/ SignDone \/ StartAgain
  BY <1>1 DEF Insert, List, Pick, NextSignable, OpenSigning, SignDone, StartAgain, Fewer
<1>2. CASE SignTransfer
  BY <1>0, <1>2, FileSteps DEF SignTransfer, Fewer
<1>3. CASE Wrote
  BY <1>0, <1>3, FileSteps DEF Wrote, Fewer
<1> QED
  BY <1>1, <1>2, <1>3 DEF SignerWorks, Signing

(* An import changes the file in hand, and says what the wallet now knows. *)
LEMMA ImportEffect ==
    ASSUME TypeInv, ImportOutputs
    PROVE  \/ UNCHANGED <<raw, sig, imported, kimg, imp>>
           \/ /\ file \in Outs /\ raw[file] # "absent" /\ sg = "rpc" /\ sg' = "write"
              /\ \A o \in Outs \ {file} :
                    /\ raw'[o] = raw[o] /\ sig'[o] = sig[o] /\ kimg'[o] = kimg[o]
                    /\ o \in imported' => o \in imported
              /\ sig'[file] = sig[file] \/ kimg'[file] >= file[2]
              /\ kimg'[file] = kimg[file] \/ kimg'[file] >= file[2]
              /\ \A v \in Wallets : imp'[v] >= imp[v]
              /\ imp'[file[1]] >= file[2]
<1>0. /\ raw \in [Files -> Content] /\ sig \in [Files -> Content] /\ Outs \subseteq Files
      /\ imp \in [Wallets -> 0..MaxOut] /\ kimg \in [Outs -> 0..MaxOut]
  BY Typed DEF TypeInv, TypeOK
<1> SUFFICES ASSUME opened # NoWallet
             PROVE  /\ file \in Outs /\ raw[file] # "absent" /\ sg = "rpc" /\ sg' = "write"
                    /\ \A o \in Outs \ {file} :
                          /\ raw'[o] = raw[o] /\ sig'[o] = sig[o] /\ kimg'[o] = kimg[o]
                          /\ o \in imported' => o \in imported
                    /\ sig'[file] = sig[file] \/ kimg'[file] >= file[2]
                    /\ kimg'[file] = kimg[file] \/ kimg'[file] >= file[2]
                    /\ \A v \in Wallets : imp'[v] >= imp[v]
                    /\ imp'[file[1]] >= file[2]
  BY DEF ImportOutputs
<1> DEFINE n == Larger(imp[opened], file[2])
<1>1. file \in Outs /\ raw[file] # "absent" /\ sg = "rpc" /\ opened = WalletOf(file)
  BY DEF ImportOutputs, TypeInv, SignerAt
<1>2. opened = file[1] /\ opened \in Wallets /\ file[2] \in 1..MaxOut
  BY <1>1 DEF WalletOf, Outs
<1>3. n \in Nat /\ n >= file[2] /\ n >= imp[opened]
  BY <1>0, <1>2, XmrAssumption DEF Larger
<1>4. /\ imp' = [imp EXCEPT ![opened] = n] /\ sg' = "write"
      /\ \/ /\ sig' = Open(sig, file) /\ kimg' = [kimg EXCEPT ![file] = n]
            /\ UNCHANGED <<raw, imported>>
         \/ raw' = Open(raw, file) /\ imported' = imported \union {file} /\ UNCHANGED <<sig, kimg>>
  BY DEF ImportOutputs
<1> HIDE DEF n
<1>5. imp'[file[1]] >= file[2] /\ \A v \in Wallets : imp'[v] >= imp[v]
  <2>1. \A v \in Wallets : imp[v] \in Nat
    BY <1>0, XmrAssumption
  <2> QED
    BY <1>0, <1>2, <1>3, <1>4, <2>1
<1>6. /\ sig'[file] = sig[file] \/ kimg'[file] >= file[2]
      /\ kimg'[file] = kimg[file] \/ kimg'[file] >= file[2]
  BY <1>0, <1>1, <1>3, <1>4
<1>7. ASSUME NEW o \in Outs \ {file}
      PROVE  /\ raw'[o] = raw[o] /\ sig'[o] = sig[o] /\ kimg'[o] = kimg[o]
             /\ o \in imported' => o \in imported
  BY <1>0, <1>4, FileSteps
<1> QED
  BY <1>1, <1>4, <1>5, <1>6, <1>7

(* What the device says was imported is known to the signing wallet.       *)
KnownInv ==
    sg # "off" =>
        \A o \in Outs : (raw[o] # "absent" /\ o \in imported) \/ sig[o] # "absent" => o[2] <= imp[o[1]]

LEMMA KnownKept ==
    ASSUME KnownInv, Fewer, UNCHANGED <<imported, imp>>, sg' # "off" => sg # "off"
    PROVE  KnownInv'
BY DEF KnownInv, Fewer

LEMMA FewerFault ==
    ASSUME TypeInv, Fault PROVE Fewer /\ UNCHANGED imported
<1>1. Outs \subseteq Files
  BY Typed
<1>2. CASE OnlinePowerLoss
  BY <1>1, <1>2, AfterPowerLoss DEF OnlinePowerLoss, OnlineDies, Fewer
<1>3. CASE OfflinePowerLoss
  BY <1>1, <1>3, AfterPowerLoss DEF OfflinePowerLoss, Fewer
<1> QED
  BY <1>2, <1>3 DEF Fault, Kill, OnlineDies, AnswerLost, OpenFails, SigningDaemonDies, Fewer

LEMMA KnownNext == TypeInv /\ KnownInv /\ [Next]_vars => KnownInv'
<1> SUFFICES ASSUME TypeInv, KnownInv, [Next]_vars PROVE KnownInv'
  OBVIOUS
<1>0. /\ raw \in [Files -> Content] /\ sig \in [Files -> Content] /\ Outs \subseteq Files
      /\ imp \in [Wallets -> 0..MaxOut]
  BY Typed DEF TypeInv, TypeOK
<1>1. CASE Command
  BY <1>1, KnownKept DEF Command, StartWallets, StartSubmit, StartAbort, Start, Fewer
<1>2. CASE Progress /\ ~WriteOutputs
  BY <1>2, FewerOnline, ProgressFrame, KnownKept
<1>3. CASE WriteOutputs
  <2>1. CASE seen[w] = 0
    BY <1>3, <2>1, KnownKept DEF WriteOutputs, Fewer
  <2>2. CASE seen[w] # 0
    BY <1>0, <1>3, <2>2, FileSteps DEF WriteOutputs, KnownInv
  <2> QED
    BY <2>1, <2>2
<1>4. CASE SignerWorks /\ ~ImportOutputs
  <2>1. sg # "off"
    BY <1>4, SignerFrame DEF SignerWorks, Signing, Insert, List, Pick, NextSignable, OpenSigning,
       SignTransfer, Wrote, SignDone, StartAgain
  <2> QED
    BY <1>4, <2>1, FewerSigner, KnownKept
<1>5. CASE ImportOutputs
  <2>1. CASE UNCHANGED <<raw, sig, imported, kimg, imp>>
    BY <1>5, <2>1, KnownKept DEF ImportOutputs, Fewer
  <2>2. CASE ~UNCHANGED <<raw, sig, imported, kimg, imp>>
    <3>1. /\ file \in Outs /\ raw[file] # "absent" /\ sg = "rpc" /\ sg' = "write"
          /\ \A o \in Outs \ {file} :
                /\ raw'[o] = raw[o] /\ sig'[o] = sig[o] /\ kimg'[o] = kimg[o]
                /\ o \in imported' => o \in imported
          /\ \A v \in Wallets : imp'[v] >= imp[v]
          /\ imp'[file[1]] >= file[2]
      BY <1>5, <2>2, ImportEffect
    <3>2. imp' \in [Wallets -> 0..MaxOut]
      BY <1>5, TypeSigner DEF SignerWorks, Signing, TypeInv, TypeOK
    <3> SUFFICES ASSUME NEW o \in Outs, (raw'[o] # "absent" /\ o \in imported') \/ sig'[o] # "absent"
                 PROVE  o[2] <= imp'[o[1]]
      BY DEF KnownInv
    <3>3. o[1] \in Wallets /\ o[2] \in Nat
      BY DEF Outs
    <3>4. imp[o[1]] \in Nat /\ imp'[o[1]] \in Nat
      BY <1>0, <3>2, <3>3, XmrAssumption
    <3>5. CASE o = file
      BY <3>1, <3>3, <3>4, <3>5
    <3>6. CASE o # file
      <4>1. o[2] <= imp[o[1]]
        BY <3>1, <3>6 DEF KnownInv
      <4>2. imp'[o[1]] >= imp[o[1]]
        BY <3>1, <3>3
      <4> QED
        BY <3>3, <3>4, <4>1, <4>2
    <3> QED
      BY <3>5, <3>6
  <2> QED
    BY <2>1, <2>2
<1>6. CASE (\E v \in Wallets : Receive(v)) \/ CarryDevice
  <2>1. UNCHANGED <<raw, sig, imported, imp, sg>>
    BY <1>6 DEF Receive, CarryDevice, Carry
  <2> QED
    BY <2>1, KnownKept DEF Fewer
<1>7. CASE Setup
  BY <1>0, <1>7, FileSteps DEF Setup, Cleaned, KnownInv
<1>8. CASE Fault
  <2>1. CASE OfflinePowerLoss
    BY <2>1 DEF OfflinePowerLoss, KnownInv
  <2>2. CASE ~OfflinePowerLoss
    <3>1. imp' = imp /\ (sg' # "off" => sg # "off")
      BY <1>8, <2>2 DEF Fault, Kill, OnlinePowerLoss, OnlineDies, AnswerLost, OpenFails,
                        SigningDaemonDies
    <3> QED
      BY <1>8, <3>1, FewerFault, KnownKept
  <2> QED
    BY <2>1, <2>2
<1>9. CASE UNCHANGED vars
  BY <1>9, KnownKept DEF Fewer
<1> QED
  BY <1>1, <1>2, <1>3, <1>4, <1>5, <1>6, <1>7, <1>8, <1>9 DEF Next, SignerWorks, Progress

(* Sent records. Between the network's answer and the record only a crash  *)
(* can come.                                                               *)
RecordInv ==
    /\ XmrSubmitted \subseteq net
    /\ on \in {"record", "recorded"} => x \in net
    /\ on = "recorded" => sub[x] # "absent"
    /\ faults = 0 => \A t \in net : t \in XmrSubmitted \/ (on = "record" /\ t = x)

LEMMA RecordKept ==
    ASSUME RecordInv, UNCHANGED <<sub, net, faults>>,
           on' \in {"record", "recorded"} => on' = on /\ x' = x,
           on = "record" => on' = on
    PROVE  RecordInv'
BY DEF RecordInv, XmrSubmitted, Submitted, Present

LEMMA RecordNext == TypeInv /\ RecordInv /\ [Next]_vars => RecordInv'
<1> SUFFICES ASSUME TypeInv, RecordInv, [Next]_vars PROVE RecordInv'
  OBVIOUS
<1>0. sub \in [Files -> Content] /\ Xtx \subseteq Files
  BY Typed
<1>1. CASE Command
  BY <1>1, RecordKept DEF Command, StartWallets, StartSubmit, StartAbort, Start
<1>2. CASE Progress
  <2>1. CASE \/ RestartDaemon \/ OpenWallet \/ WriteTx \/ WroteTx \/ UnlinkStale \/ WriteOutputs
             \/ WroteOutputs \/ ImportKeyImages \/ RelayDaemon \/ ShredOverwrite \/ ShredRemove \/ Exit
    BY <2>1, RecordKept DEF RestartDaemon, OpenWallet, WriteTx, WroteTx, UnlinkStale, WriteOutputs,
       WroteOutputs, ImportKeyImages, RelayDaemon, ShredOverwrite, ShredRemove, Exit
  <2>2. CASE SubmitTransfer
    BY <2>2 DEF SubmitTransfer, AfterSubmit, RecordInv, XmrSubmitted, Submitted, Present
  <2>3. CASE WriteSub
    <3>1. x \in Xtx
      BY <2>3 DEF WriteSub, TypeInv, OnlineAt
    <3> QED
      BY <1>0, <2>3, <3>1, FileSteps DEF WriteSub, RecordInv, XmrSubmitted, Submitted, Present
  <2>4. CASE WroteSub
    BY <1>0, <2>4, FileSteps DEF WroteSub, RecordInv, XmrSubmitted, Submitted, Present
  <2> QED
    BY <1>2, <2>1, <2>2, <2>3, <2>4 DEF Progress
<1>3. CASE SignerWorks
  BY <1>3, SignerFrame, RecordKept
<1>4. CASE (\E v \in Wallets : Receive(v)) \/ Setup \/ CarryDevice
  <2>1. UNCHANGED <<sub, net, faults, on, x>>
    BY <1>4 DEF Receive, Setup, CarryDevice, Carry
  <2> QED
    BY <2>1, RecordKept
<1>5. CASE Fault
  <2>1. faults' # 0
    BY <1>5 DEF Fault, TypeInv, TypeOK
  <2>2. XmrSubmitted' \subseteq XmrSubmitted
    <3>1. CASE OnlinePowerLoss
      BY <1>0, <3>1, AfterPowerLoss DEF OnlinePowerLoss, OnlineDies, XmrSubmitted, Submitted, Present
    <3>2. CASE OfflinePowerLoss
      BY <1>0, <3>2, AfterPowerLoss DEF OfflinePowerLoss, XmrSubmitted, Submitted, Present
    <3> QED
      BY <1>5, <3>1, <3>2 DEF Fault, Kill, OnlineDies, AnswerLost, OpenFails, SigningDaemonDies,
         XmrSubmitted, Submitted, Present
  <2>3. net \subseteq net' /\ (on' \in {"record", "recorded"} => UNCHANGED <<on, x, sub>>)
    <3>1. CASE OfflinePowerLoss
      <4>1. dev = "offline" /\ UNCHANGED <<on, net>>
        BY <3>1, AfterPowerLoss DEF OfflinePowerLoss
      <4> QED
        BY <4>1 DEF TypeInv, Held, Mounted
    <3> QED
      BY <1>5, <3>1 DEF Fault, Kill, OnlinePowerLoss, OnlineDies, AnswerLost, OpenFails,
         SigningDaemonDies
  <2> QED
    BY <2>1, <2>2, <2>3 DEF RecordInv
<1>6. CASE UNCHANGED vars
  BY <1>6, RecordKept
<1> QED
  BY <1>1, <1>2, <1>3, <1>4, <1>5, <1>6 DEF Next, SignerWorks

----------------------------------------------------------------------------
(* Exports.  A wallet has the files of one export at most, which is not    *)
(* older than the last the wallet has made a note of.                      *)
HasFile(o) == raw[o] # "absent" \/ sig[o] # "absent"

ExportInv ==
    /\ \A o \in Outs, p \in Outs : HasFile(o) /\ HasFile(p) /\ o[1] = p[1] => o = p
    /\ \A o \in Outs : HasFile(o) => exported[o[1]] <= o[2]
    /\ \A o \in Outs : sig[o] # "absent" => o[2] <= kimg[o]
    /\ on = "wrote" /\ cmd # "transfer" =>
          \A o \in Outs : HasFile(o) /\ o[1] = w => o = <<w, seen[w]>>
    /\ \A v \in Wallets : exported[v] <= seen[v] /\ seen[v] <= recv[v]

LEMMA ExportKept ==
    ASSUME ExportInv, Fewer, UNCHANGED <<kimg, exported, seen, recv>>,
           on' = "wrote" /\ cmd' # "transfer" => on = "wrote" /\ UNCHANGED <<cmd, w>>
    PROVE  ExportInv'
<1>1. \A o \in Outs : HasFile(o)' => HasFile(o)
  BY DEF HasFile, Fewer
<1>2. \A o \in Outs : sig'[o] # "absent" => sig[o] # "absent"
  BY DEF Fewer
<1> HIDE DEF HasFile
<1> QED
  BY <1>1, <1>2 DEF ExportInv

LEMMA ExportWrite ==
    ASSUME TypeInv, ExportInv, WriteOutputs PROVE ExportInv'
<1>0. /\ raw \in [Files -> Content] /\ Outs \subseteq Files
  BY Typed
<1>1. CASE seen[w] = 0
  BY <1>1, ExportKept DEF WriteOutputs, Fewer
<1>2. CASE seen[w] # 0
  <2> DEFINE q == <<w, seen[w]>>
  <2>1. /\ w \in Wallets /\ q \in Outs /\ q[1] = w /\ q[2] = seen[w]
        /\ seen[w] \in Nat /\ exported[w] \in Nat
    BY <1>2, XmrAssumption DEF WriteOutputs, TypeInv, TypeOK, OnlineAt, Outs
  <2>2. \A o \in Outs : HasFile(o) => o[1] # w
    BY DEF WriteOutputs, Stale, FilesOf, HasFile
  <2>3. raw' = Open(raw, q) /\ UNCHANGED <<sig, kimg, exported, seen, recv, w, cmd>>
    BY <1>2 DEF WriteOutputs
  <2>4. \A o \in Outs : HasFile(o)' => HasFile(o) \/ o = q
    BY <1>0, <2>3, FileSteps DEF HasFile
  <2>5. exported[w] <= seen[w]
    BY <2>1 DEF ExportInv
  <2> HIDE DEF HasFile, q
  <2>6. \A o \in Outs, p \in Outs : (HasFile(o) /\ HasFile(p))' /\ o[1] = p[1] => o = p
    BY <2>1, <2>2, <2>4 DEF ExportInv
  <2>7. \A o \in Outs : HasFile(o)' => exported'[o[1]] <= o[2]
    BY <2>1, <2>3, <2>4, <2>5 DEF ExportInv
  <2>8. \A o \in Outs : HasFile(o)' /\ o[1] = w => o = q
    BY <2>2, <2>4
  <2>9. /\ \A o \in Outs : sig'[o] # "absent" => o[2] <= kimg'[o]
        /\ \A v \in Wallets : exported'[v] <= seen'[v] /\ seen'[v] <= recv'[v]
    BY <2>3 DEF ExportInv
  <2>10. on' = "wrote" /\ cmd' # "transfer" =>
             \A o \in Outs : HasFile(o)' /\ o[1] = w' => o = <<w, seen[w]>>'
    BY <2>3, <2>8 DEF q
  <2> QED
    BY <2>6, <2>7, <2>9, <2>10 DEF ExportInv
<1> QED
  BY <1>1, <1>2

LEMMA ExportNoted ==
    ASSUME TypeInv, ExportInv, WroteOutputs PROVE ExportInv'
<1>1. Fewer
  BY FewerOnline DEF Progress, WroteOutputs, WriteOutputs
<1>2. /\ w \in Wallets /\ exported' = [exported EXCEPT ![w] = seen[w]] /\ on' = "open"
      /\ UNCHANGED <<sig, kimg, seen, recv>> /\ on = "wrote" /\ cmd # "transfer"
  BY DEF WroteOutputs, TypeInv, OnlineAt
<1>3. exported \in [Wallets -> 0..MaxOut] /\ seen \in [Wallets -> 0..MaxOut]
  BY DEF TypeInv, TypeOK
<1>4. \A o \in Outs : HasFile(o)' => HasFile(o)
  BY <1>1 DEF HasFile, Fewer
<1>5. \A o \in Outs : HasFile(o) /\ o[1] = w => o = <<w, seen[w]>>
  BY <1>2 DEF ExportInv
<1> HIDE DEF HasFile
<1>6. ASSUME NEW o \in Outs, HasFile(o)'
      PROVE  exported'[o[1]] <= o[2]
  <2>1. o[1] \in Wallets /\ o[2] \in Nat /\ HasFile(o)
    BY <1>4, <1>6 DEF Outs
  <2>2. CASE o[1] = w
    BY <1>2, <1>3, <1>5, <2>1, <2>2
  <2>3. CASE o[1] # w
    BY <1>2, <1>3, <2>1, <2>3 DEF ExportInv
  <2> QED
    BY <2>2, <2>3
<1>7. ASSUME NEW v \in Wallets
      PROVE  exported'[v] <= seen'[v] /\ seen'[v] <= recv'[v]
  <2>1. seen[v] \in Nat
    BY <1>3, XmrAssumption
  <2> QED
    BY <1>2, <1>3, <2>1 DEF ExportInv
<1>8. /\ \A o \in Outs, p \in Outs : (HasFile(o) /\ HasFile(p))' /\ o[1] = p[1] => o = p
      /\ \A o \in Outs : sig'[o] # "absent" => o[2] <= kimg'[o]
  BY <1>2, <1>4 DEF ExportInv
<1> QED
  BY <1>2, <1>6, <1>7, <1>8 DEF ExportInv

LEMMA ExportOpen ==
    ASSUME TypeInv, ExportInv, OpenWallet PROVE ExportInv'
<1>1. /\ UNCHANGED <<raw, sig, kimg, exported, recv>> /\ on' # "wrote"
      /\ \A v \in Wallets : seen'[v] = seen[v] \/ seen'[v] = recv[v]
  BY DEF OpenWallet, TypeInv, TypeOK
<1>2. \A v \in Wallets : exported[v] \in Nat /\ seen[v] \in Nat /\ recv[v] \in Nat
  BY XmrAssumption DEF TypeInv, TypeOK
<1>3. \A v \in Wallets : exported'[v] <= seen'[v] /\ seen'[v] <= recv'[v]
  BY <1>1, <1>2 DEF ExportInv
<1> QED
  BY <1>1, <1>3 DEF ExportInv, HasFile

LEMMA ExportReceive ==
    ASSUME TypeInv, ExportInv, NEW v \in Wallets, Receive(v) PROVE ExportInv'
<1>1. /\ UNCHANGED <<raw, sig, kimg, exported, seen, on, cmd, w>>
      /\ recv' = [recv EXCEPT ![v] = @ + 1]
  BY DEF Receive
<1>2. \A u \in Wallets : seen[u] \in Nat /\ recv[u] \in Nat
  BY XmrAssumption DEF TypeInv, TypeOK
<1>3. recv \in [Wallets -> 0..MaxOut]
  BY DEF TypeInv, TypeOK
<1>4. \A u \in Wallets : exported'[u] <= seen'[u] /\ seen'[u] <= recv'[u]
  BY <1>1, <1>2, <1>3 DEF ExportInv
<1> QED
  BY <1>1, <1>4 DEF ExportInv, HasFile

LEMMA ExportImport ==
    ASSUME TypeInv, ExportInv, ImportOutputs PROVE ExportInv'
<1>1. UNCHANGED <<exported, seen, recv>> /\ on' # "wrote" /\ on # "wrote"
  BY SignerFrame DEF SignerWorks, Signing
<1>2. CASE UNCHANGED <<raw, sig, imported, kimg, imp>>
  BY <1>1, <1>2, ExportKept DEF Fewer
<1>3. CASE ~UNCHANGED <<raw, sig, imported, kimg, imp>>
  <2>1. /\ file \in Outs /\ raw[file] # "absent"
        /\ \A o \in Outs \ {file} : raw'[o] = raw[o] /\ sig'[o] = sig[o] /\ kimg'[o] = kimg[o]
        /\ sig'[file] = sig[file] \/ kimg'[file] >= file[2]
        /\ kimg'[file] = kimg[file] \/ kimg'[file] >= file[2]
    BY <1>3, ImportEffect
  <2>2. \A o \in Outs : HasFile(o)' => HasFile(o)
    BY <2>1 DEF HasFile
  <2>3. kimg' \in [Outs -> 0..MaxOut]
    BY TypeSigner DEF SignerWorks, Signing, TypeInv, TypeOK
  <2>4. ASSUME NEW o \in Outs, sig'[o] # "absent"
        PROVE  o[2] <= kimg'[o]
    <3>1. o[2] \in Nat /\ kimg'[o] \in Nat
      BY <2>3, XmrAssumption DEF Outs
    <3>2. CASE o # file
      BY <2>1, <2>4, <3>2 DEF ExportInv
    <3>3. CASE o = file
      BY <2>1, <2>4, <3>1, <3>3 DEF ExportInv
    <3> QED
      BY <3>2, <3>3
  <2> HIDE DEF HasFile
  <2> QED
    BY <1>1, <2>2, <2>4 DEF ExportInv
<1> QED
  BY <1>2, <1>3

LEMMA ExportNext == TypeInv /\ ExportInv /\ [Next]_vars => ExportInv'
<1> SUFFICES ASSUME TypeInv, ExportInv, [Next]_vars PROVE ExportInv'
  OBVIOUS
<1>1. CASE Command
  BY <1>1, ExportKept DEF Command, StartWallets, StartSubmit, StartAbort, Start, Fewer
<1>2. CASE Progress
  <2>1. CASE WriteOutputs \/ WroteOutputs \/ OpenWallet
    BY <2>1, ExportWrite, ExportNoted, ExportOpen
  <2>2. CASE ~(WriteOutputs \/ WroteOutputs \/ OpenWallet)
    <3>1. UNCHANGED <<kimg, exported, seen, recv>> /\ (on' = "wrote" => cmd' = "transfer")
      BY <1>2, <2>2, ProgressFrame
         DEF Progress, RestartDaemon, WriteTx, WroteTx, UnlinkStale, ImportKeyImages, RelayDaemon,
             SubmitTransfer, AfterSubmit, WriteSub, WroteSub, ShredOverwrite, ShredRemove, Exit
    <3> QED
      BY <1>2, <2>2, <3>1, FewerOnline, ExportKept
  <2> QED
    BY <2>1, <2>2
<1>3. CASE SignerWorks /\ ~ImportOutputs
  BY <1>3, SignerFrame, FewerSigner, ExportKept
<1>4. CASE ImportOutputs
  BY <1>4, ExportImport
<1>5. CASE \E v \in Wallets : Receive(v)
  BY <1>5, ExportReceive
<1>6. CASE CarryDevice
  BY <1>6, ExportKept DEF CarryDevice, Carry, Fewer
<1>7. CASE Setup
  <2>1. Fewer
    BY <1>7, Typed, FileSteps DEF Setup, Fewer
  <2> QED
    BY <1>7, <2>1, ExportKept DEF Setup
<1>8. CASE Fault
  <2>1. /\ UNCHANGED <<kimg, exported, seen, recv>>
        /\ on' = "wrote" /\ cmd' # "transfer" => on = "wrote" /\ UNCHANGED <<cmd, w>>
    BY <1>8 DEF Fault, Kill, OnlinePowerLoss, OfflinePowerLoss, OnlineDies, AnswerLost, OpenFails,
                SigningDaemonDies
  <2> QED
    BY <1>8, <2>1, FewerFault, ExportKept
<1>9. CASE UNCHANGED vars
  BY <1>9, ExportKept DEF Fewer
<1> QED
  BY <1>1, <1>2, <1>3, <1>4, <1>5, <1>6, <1>7, <1>8, <1>9 DEF Next, SignerWorks

LEMMA FilesInit == Init => KnownInv /\ RecordInv /\ ExportInv
<1> SUFFICES ASSUME Init PROVE KnownInv /\ RecordInv /\ ExportInv
  OBVIOUS
<1>1. /\ \A f \in Files : raw[f] = "absent" /\ sig[f] = "absent" /\ sub[f] = "absent"
      /\ Outs \subseteq Files
  BY DEF Init, DeviceInit, Blank, Files
<1>2. /\ net = {} /\ on = "idle"
      /\ \A v \in Wallets : exported[v] = 0 /\ seen[v] = 0 /\ recv[v] = 0
  BY DEF Init
<1>3. KnownInv
  BY <1>1 DEF KnownInv
<1>4. RecordInv
  BY <1>1, <1>2 DEF RecordInv, XmrSubmitted, Submitted, Present
<1>5. ExportInv
  BY <1>1, <1>2 DEF ExportInv, HasFile
<1> QED
  BY <1>3, <1>4, <1>5

(* What the files on the device say is true of the wallets and of the      *)
(* network.                                                                *)
THEOREM FilesAreTrue == Spec => []FilesMatch
<1>1. TypeInv /\ KnownInv /\ RecordInv /\ ExportInv => FilesMatch
  <2> SUFFICES ASSUME TypeInv, KnownInv, RecordInv, ExportInv PROVE FilesMatch
    OBVIOUS
  <2>1. OneExport
    BY DEF ExportInv, OneExport, FilesOf, HasFile
  <2>2. ImportedIsKnown
    BY DEF KnownInv, ImportedIsKnown
  <2>3. RecordsMatch
    BY DEF RecordInv, RecordsMatch
  <2> QED
    BY <2>1, <2>2, <2>3 DEF FilesMatch
<1> QED
  BY TypeInit, TypeNext, FilesInit, KnownNext, RecordNext, ExportNext, <1>1, PTL DEF Spec

(* A wallet only takes key images that answer its last export, or a later  *)
(* one.                                                                    *)
THEOREM KeyImagesAnswer == Spec => KeyImagesCurrent
<1>1. ASSUME TypeInv, ExportInv, [Next]_vars, NEW v \in Wallets, kis'[v] # kis[v]
      PROVE  kis'[v] >= exported[v]
  <2>1. CASE ImportKeyImages
    <3>1. PICK o \in FilesOf(w, sig) :
            kis' = [kis EXCEPT ![w] = IF kimg[o] > @ THEN kimg[o] ELSE @]
      BY <1>1, <2>1 DEF ImportKeyImages
    <3>2. v = w /\ kis'[v] = kimg[o]
      BY <1>1, <3>1 DEF TypeInv, TypeOK
    <3>3. o \in Outs /\ o[1] = w /\ sig[o] # "absent"
      BY DEF FilesOf
    <3>4. exported[v] <= o[2] /\ o[2] <= kimg[o]
      BY <1>1, <3>2, <3>3 DEF ExportInv, HasFile
    <3>5. exported[v] \in Nat /\ o[2] \in Nat /\ kimg[o] \in Nat
      BY <1>1, <3>3, XmrAssumption DEF TypeInv, TypeOK, Outs
    <3> QED
      BY <3>2, <3>4, <3>5
  <2>2. CASE ~ImportKeyImages
    <3>1. kis' = kis
      <4>1. CASE Progress
        BY <2>2, <4>1 DEF Progress, RestartDaemon, OpenWallet, WriteTx, WroteTx, UnlinkStale,
           WriteOutputs, WroteOutputs, RelayDaemon, SubmitTransfer, WriteSub, WroteSub,
           ShredOverwrite, ShredRemove, Exit
      <4>2. CASE SignerWorks
        BY <1>1, <4>2, SignerFrame
      <4> QED
        BY <1>1, <4>1, <4>2 DEF Next, Command, StartWallets, StartSubmit, StartAbort, Start, Receive,
           SignerWorks, Setup, CarryDevice, Fault, Kill, OnlinePowerLoss, OfflinePowerLoss,
           OnlineDies, AnswerLost, OpenFails, SigningDaemonDies
    <3> QED
      BY <1>1, <3>1
  <2> QED
    BY <2>1, <2>2
<1>2. TypeInv /\ ExportInv /\ [Next]_vars =>
        [\A v \in Wallets : kis'[v] # kis[v] => kis'[v] >= exported[v]]_vars
  BY <1>1
<1> QED
  BY TypeInit, TypeNext, FilesInit, ExportNext, <1>2, PTL DEF Spec, KeyImagesCurrent

----------------------------------------------------------------------------
(* The wallet daemon the commands share (WalletDaemon).                    *)
DaemonTyped ==
    /\ at \in [Procs -> {"idle", "restart", "stop", "stopped?", "gone?", "start", "ready?", "spawn",
                         "use", "exited", "killed"}]
    /\ served \in [Procs -> Procs \union {Nobody}] /\ port \in Procs \union {Nobody}
    /\ alone \subseteq Procs /\ keep \subseteq Procs

(* The daemon, as a command finds it beside which no other one runs: its   *)
(* own listens only while it is of use, and its process ID is in the file. *)
FoundAlone(p) ==
    /\ served[p] \in {p, Nobody}
    /\ at[p] \in {"start", "ready?", "spawn"} => port = Nobody
    /\ at[p] = "use" => port = p /\ pidfile = p
    /\ at[p] = "stop" /\ port = p => pidfile = p
    /\ at[p] \in {"idle", "restart", "stopped?", "gone?"} => port # p
    /\ at[p] = "exited" /\ p \notin keep => port # p

DaemonInv ==
    /\ DaemonTyped
    /\ \A p \in alone : p \in Daemon!Running => Daemon!Running = {p}
    /\ \A p \in alone : FoundAlone(p)

LEMMA DaemonTypedNext == DaemonTyped /\ [Daemon!Next]_Daemon!vars => DaemonTyped'
<1> SUFFICES ASSUME DaemonTyped, [Daemon!Next]_Daemon!vars PROVE DaemonTyped'
  OBVIOUS
<1> USE DEF DaemonTyped, Daemon!Goto, Daemon!envVars, Daemon!daemonVars
<1>1. CASE UNCHANGED Daemon!vars
  BY <1>1 DEF Daemon!vars
<1>2. ASSUME NEW p \in Procs,
             \/ Daemon!StartCommand(p) \/ Daemon!StopDaemon(p) \/ Daemon!RemovePidfile(p)
             \/ Daemon!Start(p) \/ Daemon!Spawn(p) \/ Daemon!Finish(p) \/ Daemon!Kill(p)
      PROVE  DaemonTyped'
  BY <1>2 DEF Daemon!StartCommand, Daemon!StopDaemon, Daemon!AfterStop, Daemon!RemovePidfile,
              Daemon!Start, Daemon!Spawn, Daemon!Finish, Daemon!Kill
<1>3. ASSUME NEW p \in Procs, Daemon!WaitStopped(p) PROVE DaemonTyped'
  BY <1>3 DEF Daemon!WaitStopped
<1>4. ASSUME NEW p \in Procs, Daemon!Call(p) PROVE DaemonTyped'
  BY <1>4 DEF Daemon!Call
<1> QED
  BY <1>1, <1>2, <1>3, <1>4 DEF Daemon!Next

(* A step of one command is not one of another, and leaves those alone     *)
(* that do not run.                                                        *)
LEMMA FoundBeside ==
    ASSUME Nobody \notin Procs, DaemonInv, NEW p \in Procs, NEW q \in alone, q # p, q \notin Daemon!Running,
           at' = [at EXCEPT ![p] = at'[p]], served'[q] = served[q], keep' = keep,
           port' \in {port, p, Nobody}
    PROVE  FoundAlone(q)'
<1>1. q \in Procs /\ at'[q] = at[q] /\ at[q] \in {"idle", "exited", "killed"}
  BY DEF DaemonInv, DaemonTyped, Daemon!Running
<1> QED
  BY <1>1 DEF DaemonInv, FoundAlone

LEMMA DaemonNext ==
    ASSUME Nobody \notin Procs
    PROVE  DaemonInv /\ [Daemon!Next]_Daemon!vars => DaemonInv'
<1> SUFFICES ASSUME DaemonInv, [Daemon!Next]_Daemon!vars PROVE DaemonInv'
  OBVIOUS
<1>0. DaemonTyped /\ DaemonTyped'
  BY DaemonTypedNext DEF DaemonInv
<1> USE DEF Daemon!Goto, Daemon!envVars, Daemon!daemonVars
<1>1. CASE UNCHANGED Daemon!vars
  BY <1>1 DEF Daemon!vars, DaemonInv, DaemonTyped, FoundAlone, Daemon!Running
<1>2. ASSUME NEW p \in Procs, Daemon!StartCommand(p) PROVE DaemonInv'
  <2>1. /\ at' = [at EXCEPT ![p] = "restart"] /\ at[p] = "idle"
        /\ alone' \subseteq alone /\ UNCHANGED <<port, pidfile, served, keep>>
        /\ \A q \in alone' : q \in Daemon!Running => FALSE
        /\ p \in alone' => Daemon!Running = {}
    BY <1>2 DEF Daemon!StartCommand
  <2>2. Daemon!Running' = Daemon!Running \union {p}
    BY <1>0, <2>1 DEF DaemonTyped, Daemon!Running
  <2>3. \A q \in alone' : q \in Daemon!Running' => Daemon!Running' = {q}
    BY <2>1, <2>2
  <2>4. ASSUME NEW q \in alone' PROVE FoundAlone(q)'
    BY <1>0, <2>1, <2>4 DEF DaemonInv, DaemonTyped, FoundAlone
  <2> QED
    BY <1>0, <2>3, <2>4 DEF DaemonInv
<1>3. ASSUME NEW p \in Procs, at[p] \notin {"idle", "exited", "killed"},
             at' = [at EXCEPT ![p] = at'[p]], UNCHANGED <<alone, keep>>,
             port' \in {port, p, Nobody}, \A q \in Procs \ {p} : served'[q] = served[q],
             p \in alone => FoundAlone(p)'
      PROVE  DaemonInv'
  <2>1. p \in Daemon!Running /\ Daemon!Running' \subseteq Daemon!Running
    BY <1>0, <1>3 DEF DaemonTyped, Daemon!Running
  <2>2. \A q \in alone : q \in Daemon!Running' => Daemon!Running' = {q}
    BY <2>1 DEF DaemonInv
  <2>3. ASSUME NEW q \in alone PROVE FoundAlone(q)'
    <3>1. CASE q = p
      BY <1>3, <3>1
    <3>2. CASE q # p
      <4>1. q \notin Daemon!Running /\ q \in Procs
        BY <1>0, <2>1, <3>2 DEF DaemonInv, DaemonTyped
      <4> QED
        BY <1>3, <3>2, <4>1, FoundBeside
    <3> QED
      BY <3>1, <3>2
  <2> QED
    BY <1>0, <1>3, <2>2, <2>3 DEF DaemonInv
<1>4. \A p \in alone : FoundAlone(p)
  BY DEF DaemonInv
<1> USE DEF FoundAlone
<1>5. ASSUME NEW p \in Procs, Daemon!StopDaemon(p) PROVE DaemonInv'
  <2>1. /\ at[p] \in {"restart", "stop"} /\ at' = [at EXCEPT ![p] = at'[p]]
        /\ UNCHANGED <<alone, keep, served>> /\ port' \in {port, Nobody}
    BY <1>0, <1>5 DEF Daemon!StopDaemon, DaemonTyped
  <2>2. ASSUME p \in alone PROVE FoundAlone(p)'
    <3>1. CASE at[p] = "restart"
      <4>1. at'[p] \in {"stopped?", "stop"}
        BY <1>0, <1>5, <3>1 DEF Daemon!StopDaemon, Daemon!AfterStop, DaemonTyped
      <4> QED
        BY <1>4, <2>1, <2>2, <3>1, <4>1
    <3>2. CASE at[p] = "stop"
      <4>1. at'[p] \in {"exited", "gone?"}
        BY <1>0, <1>5, <3>2 DEF Daemon!StopDaemon, Daemon!AfterStop, DaemonTyped
      <4>2. port' # p
        BY <1>4, <1>5, <2>2, <3>2 DEF Daemon!StopDaemon, Daemon!Ready
      <4> QED
        BY <1>4, <2>1, <2>2, <4>1, <4>2
    <3> QED
      BY <2>1, <3>1, <3>2
  <2> QED
    BY <1>3, <2>1, <2>2
<1>6. ASSUME NEW p \in Procs, Daemon!WaitStopped(p) PROVE DaemonInv'
  <2>1. /\ at[p] \in {"stopped?", "gone?"} /\ at' = [at EXCEPT ![p] = at'[p]]
        /\ UNCHANGED <<alone, keep, served, port, pidfile>>
        /\ \/ at[p] = "gone?" /\ at'[p] = "exited"
           \/ at[p] = "stopped?" /\ at'[p] = "stop"
           \/ at[p] = "stopped?" /\ port = Nobody /\ at'[p] = "start"
    BY <1>0, <1>6 DEF Daemon!WaitStopped, DaemonTyped, Daemon!Ready
  <2> QED
    BY <1>3, <1>4, <2>1
<1>7. ASSUME NEW p \in Procs, Daemon!RemovePidfile(p) PROVE DaemonInv'
  <2>1. /\ at[p] = "start" /\ at' = [at EXCEPT ![p] = at'[p]] /\ at'[p] = "ready?"
        /\ UNCHANGED <<alone, keep, served, port>>
    BY <1>0, <1>7 DEF Daemon!RemovePidfile, DaemonTyped
  <2> QED
    BY <1>3, <1>4, <2>1
<1>8. ASSUME NEW p \in Procs, Daemon!Start(p) PROVE DaemonInv'
  <2>1. /\ at[p] = "ready?" /\ at' = [at EXCEPT ![p] = at'[p]]
        /\ at'[p] = IF port # Nobody THEN "use" ELSE "spawn"
        /\ UNCHANGED <<alone, keep, served, port>>
    BY <1>0, <1>8 DEF Daemon!Start, Daemon!Ready, DaemonTyped
  <2> QED
    BY <1>3, <1>4, <2>1
<1>9. ASSUME NEW p \in Procs, Daemon!Spawn(p) PROVE DaemonInv'
  <2>1. /\ at[p] = "spawn" /\ at' = [at EXCEPT ![p] = at'[p]] /\ at'[p] = "use"
        /\ UNCHANGED <<alone, keep, served>>
        /\ port' = IF port # Nobody THEN port ELSE p
        /\ pidfile' = IF port # Nobody THEN pidfile ELSE p
    BY <1>0, <1>9 DEF Daemon!Spawn, Daemon!Ready, DaemonTyped
  <2> QED
    BY <1>3, <1>4, <2>1
<1>10. ASSUME NEW p \in Procs, Daemon!Call(p) PROVE DaemonInv'
  <2>1. /\ at[p] = "use" /\ UNCHANGED <<alone, keep, port, pidfile>>
        /\ IF port # Nobody THEN served' = [served EXCEPT ![p] = port] /\ at' = at
           ELSE served' = served /\ at' = [at EXCEPT ![p] = "stop"]
    BY <1>10 DEF Daemon!Call, Daemon!Ready
  <2>2. at' = [at EXCEPT ![p] = at'[p]] /\ \A q \in Procs \ {p} : served'[q] = served[q]
    BY <1>0, <2>1 DEF DaemonTyped
  <2>3. p \in alone => FoundAlone(p)'
    BY <1>0, <1>4, <2>1 DEF DaemonTyped
  <2> QED
    BY <1>3, <2>1, <2>2, <2>3
<1>11. ASSUME NEW p \in Procs, Daemon!Finish(p) PROVE DaemonInv'
  <2>1. /\ at[p] = "use" /\ at' = [at EXCEPT ![p] = at'[p]]
        /\ at'[p] = IF p \in keep THEN "exited" ELSE "stop"
        /\ UNCHANGED <<alone, keep, served, port, pidfile>>
    BY <1>0, <1>11 DEF Daemon!Finish, DaemonTyped
  <2> QED
    BY <1>3, <1>4, <2>1
<1>12. ASSUME NEW p \in Procs, Daemon!Kill(p) PROVE DaemonInv'
  <2>1. /\ at[p] \notin {"idle", "exited", "killed"}
        /\ at' = [at EXCEPT ![p] = at'[p]] /\ at'[p] = "killed"
        /\ UNCHANGED <<alone, keep, served, port, pidfile>>
    BY <1>0, <1>12 DEF Daemon!Kill, Daemon!Running, DaemonTyped
  <2> QED
    BY <1>3, <1>4, <2>1
<1> QED
  BY <1>1, <1>2, <1>5, <1>6, <1>7, <1>8, <1>9, <1>10, <1>11, <1>12 DEF Daemon!Next

(* A command beside which no other one runs is served by the daemon it     *)
(* started, whatever was left running before it, and leaves none.          *)
THEOREM ServedByItsOwn ==
    ASSUME Nobody \notin Procs
    PROVE  Daemon!Spec => []Daemon!OwnDaemon
<1>1. Daemon!Init => DaemonInv
  BY DEF Daemon!Init, DaemonInv, DaemonTyped, FoundAlone, Daemon!Running
<1>2. DaemonInv => Daemon!OwnDaemon
  BY DEF DaemonInv, FoundAlone, Daemon!OwnDaemon
<1> QED
  BY <1>1, <1>2, DaemonNext, PTL DEF Daemon!Spec
-----------------------------------------------------------------------------
(* What the commands do with wallets (XmrOps).                             *)
Early == {"open", "dest", "dest?", "new", "label"}

Making == {"process", "accounts", "subaddresses", "labels", "check"}

Ended == {"idle", "done", "died", "refused", "crashed"}

OpsTyped ==
    /\ wallets \in [Ops!Walls -> Ops!Data] /\ before \in [Ops!Walls -> Ops!Data] /\ dumps \in [Ops!Walls -> Ops!Data]
    /\ shown \in Ops!Data
    /\ pc \in Early \union Making \union Ended \union {"make", "write", "relay"} /\ (pc # "idle" => job \in Jobs)

(* Until the transaction is made nothing is, and only the one account or   *)
(* address has been added.                                                 *)
Unmade == pc \in Early \union Making \union {"make", "idle"} => tx = Ops!NoTx

Told(data) == Ops!HasAcct(data, job.acct)

OnSource ==
    /\ pc \in Early => wallets = before
    /\ pc \in Early \union {"make"} =>
        /\ job.op \in Ops!SpecOps /\ before[Ops!Source] # <<>>
        /\ job.dest # 0 => before[Ops!DestWallet] # <<>>
    /\ pc \in {"dest", "new", "label"} => current = Ops!Source /\ shown = wallets[Ops!Source]
    /\ pc \in {"dest", "dest?", "label"} => Told(shown)
    /\ pc \in {"dest", "dest?"} => job.op \in Ops!Sweeps
    /\ pc = "new" => job.op = "new" /\ (job.acct = Ops!None \/ Told(shown))
    /\ pc = "label" => job.op = "label" /\ Ops!HasAddr(shown, job.acct, job.idx)
    /\ pc = "dest?" =>
        /\ current = Ops!DestWallet /\ shown = wallets[Ops!Source] /\ job.dest # 0 /\ job.dacct # Ops!None
        /\ Ops!HasAcct(wallets[current], job.dacct)
    /\ pc \in {"write", "relay"} => job.op \in Ops!SpecOps

(* Where a sweep is to go.                                                 *)
DestRight ==
    /\ dest = <<Ops!DestWallet[1], dest[2], dest[3]>>
    /\ job.dest = 0 => dest[2] = job.acct
    /\ job.dacct # Ops!None => dest[2] = job.dacct
    /\ Ops!HasAddr(wallets[Ops!DestWallet], dest[2], dest[3])

ReadyToMake ==
    pc = "make" =>
        /\ current = Ops!Source /\ job.op \in Ops!Sweeps \union {"transfer"}
        /\ Told(before[Ops!Source]) /\ Told(shown)
        /\ Len(Ops!At(before[Ops!Source], job.acct)) <= Len(Ops!At(shown, job.acct))
        /\ job.op \in Ops!Sweeps => DestRight

InTurn ==
    /\ pc \in Making =>
        /\ job.op \in {"create", "dump", "restore"} /\ todo \in Seq(Ops!Needed(job)) /\ todo # <<>>
        /\ job.op # "dump" => \A v \in Ops!Needed(job) : before[v] = <<>>
    /\ pc \in Making \ {"process"} =>
        /\ job.op = "restore" /\ current = Head(todo) /\ shown = Ops!DumpFor(current) /\ shown # <<>>
    /\ pc = "accounts" => Len(wallets[current]) = 1
    /\ pc = "subaddresses" => DOMAIN wallets[current] = DOMAIN shown
    /\ pc \in Making /\ job.op = "restore" =>
        \A v \in Ops!Needed(job) : wallets[v] = Ops!DumpFor(v) \/ \E i \in DOMAIN todo : todo[i] = v

(* The transaction files that can come about.                              *)
FileStates ==
    \A f \in files :
        /\ DOMAIN f = {"ext", "id", "tx", "sign", "submit", "unsigned", "signed", "complete"}
        /\ \/ f.ext = "rawtx" /\ f.unsigned /\ ~f.sign /\ ~f.signed
           \/ f.ext = "sigtx" /\ f.sign /\ ~f.signed /\ ~f.unsigned
           \/ f.ext = "sigtx" /\ f.sign /\ f.signed
           \/ f.ext = "subtx" /\ f.sign /\ f.signed

OpsInv ==
    /\ OpsTyped /\ Unmade /\ OnSource /\ ReadyToMake /\ InTurn /\ FileStates
    /\ Ops!SpendsAsTold /\ Ops!KeepsAddresses /\ Ops!RestoredAsDumped

-----------------------------------------------------------------------------
LEMMA Accounts ==
    ASSUME NEW d \in Ops!Data
    PROVE  /\ Len(d) \in Nat /\ DOMAIN d = 1 .. Len(d) /\ (d # <<>> <=> Len(d) > 0)
           /\ \A a \in DOMAIN d : d[a] \in Seq(Labels) /\ Len(d[a]) \in Nat /\ Len(d[a]) > 0 /\ DOMAIN d[a] = 1 .. Len(d[a])
<1>1. Len(d) \in Nat /\ DOMAIN d = 1 .. Len(d) /\ (d # <<>> <=> Len(d) > 0)
  BY DEF Ops!Data
<1>2. ASSUME NEW a \in DOMAIN d
      PROVE  d[a] \in Seq(Labels) /\ Len(d[a]) \in Nat /\ Len(d[a]) > 0 /\ DOMAIN d[a] = 1 .. Len(d[a])
  <2>1. PICK s \in Seq(Labels) : s = d[a] /\ s # <<>>
    BY DEF Ops!Data
  <2> QED
    BY <2>1
<1> QED
  BY <1>1, <1>2

(* Nothing but one address, or an account with one, is new.                *)
Kept(d, e) ==
    \A a \in DOMAIN d : a \in DOMAIN e /\ \A i \in DOMAIN d[a] : i \in DOMAIN e[a] /\ e[a][i] = d[a][i]

New(d, a, i) == ~(a \in DOMAIN d /\ i \in DOMAIN d[a])

OneMore(d, e) ==
    \A a, b \in DOMAIN e : \A i \in DOMAIN e[a], j \in DOMAIN e[b] : New(d, a, i) /\ New(d, b, j) => a = b /\ i = j

LEMMA AccountAdded ==
    ASSUME NEW d \in Ops!Data, NEW l \in Labels, NEW e, e = Ops!create_account(d, l)
    PROVE  /\ e \in Ops!Data /\ Kept(d, e) /\ OneMore(d, e)
           /\ Len(e) = Len(d) + 1 /\ Ops!HasAddr(e, Len(d), 0)
           /\ \A a \in DOMAIN d : e[a] = d[a]
<1>1. <<l>> \in Seq(Labels) \ {<<>>} /\ Len(<<l>>) = 1
  OBVIOUS
<1>2. e = Append(d, <<l>>)
  BY DEF Ops!create_account
<1>3. e \in Ops!Data /\ Len(e) = Len(d) + 1 /\ DOMAIN e = 1 .. (Len(d) + 1)
  BY <1>1, <1>2, Accounts DEF Ops!Data
<1>4. (\A a \in 1 .. Len(d) : e[a] = d[a]) /\ e[Len(d) + 1] = <<l>>
  BY <1>1, <1>2 DEF Ops!Data
<1>5. Len(d) \in Nat /\ DOMAIN d = 1 .. Len(d)
  BY Accounts
<1>6. Kept(d, e)
  BY <1>3, <1>4, <1>5 DEF Kept
<1>7. ASSUME NEW a \in DOMAIN e, NEW i \in DOMAIN e[a], New(d, a, i)
      PROVE  a = Len(d) + 1 /\ i = 1
  <2>1. a = Len(d) + 1
    BY <1>3, <1>4, <1>5, <1>7 DEF New
  <2> QED
    BY <1>1, <1>4, <1>7, <2>1
<1>8. Ops!HasAddr(e, Len(d), 0)
  BY <1>1, <1>3, <1>4, <1>5 DEF Ops!HasAddr, Ops!HasAcct, Ops!At
<1> QED
  BY <1>3, <1>4, <1>5, <1>6, <1>7, <1>8 DEF OneMore

LEMMA AddressAdded ==
    ASSUME NEW d \in Ops!Data, NEW l \in Labels, NEW a0, Ops!HasAcct(d, a0), NEW e, e = Ops!create_address(d, a0, l)
    PROVE  /\ e \in Ops!Data /\ Kept(d, e) /\ OneMore(d, e) /\ DOMAIN e = DOMAIN d
           /\ Ops!HasAcct(e, a0) /\ Len(Ops!At(d, a0)) <= Len(Ops!At(e, a0))
<1>1. Len(d) \in Nat /\ DOMAIN d = 1 .. Len(d) /\ a0 + 1 \in DOMAIN d
  BY Accounts DEF Ops!HasAcct
<1>2. PICK s \in Seq(Labels) : s = d[a0 + 1] /\ Len(s) \in Nat /\ DOMAIN s = 1 .. Len(s)
  BY <1>1, Accounts
<1>3. PICK t \in Seq(Labels) : /\ t = Append(s, l) /\ t # <<>> /\ Len(t) = Len(s) + 1 /\ DOMAIN t = 1 .. (Len(s) + 1)
                               /\ \A i \in 1 .. Len(s) : t[i] = s[i]
  <2> DEFINE u == Append(s, l)
  <2>1. u \in Seq(Labels) /\ Len(u) = Len(s) + 1
    BY <1>2
  <2>2. \A i \in 1 .. Len(s) : u[i] = s[i]
    BY <1>2
  <2> HIDE DEF u
  <2>3. u # <<>> /\ DOMAIN u = 1 .. (Len(s) + 1)
    BY <1>2, <2>1
  <2> QED
    BY <2>1, <2>2, <2>3 DEF u
<1>4. e = [d EXCEPT ![a0 + 1] = t]
  BY <1>2, <1>3 DEF Ops!create_address
<1>5. e \in Ops!Data /\ DOMAIN e = DOMAIN d
  BY <1>1, <1>3, <1>4 DEF Ops!Data
<1>6. \A a \in DOMAIN d : e[a] = IF a = a0 + 1 THEN t ELSE d[a]
  BY <1>4
<1>7. Kept(d, e)
  BY <1>2, <1>3, <1>5, <1>6 DEF Kept
<1>8. ASSUME NEW a \in DOMAIN e, NEW i \in DOMAIN e[a], New(d, a, i)
      PROVE  a = a0 + 1 /\ i = Len(s) + 1
  <2>1. a = a0 + 1
    BY <1>5, <1>6, <1>8 DEF New
  <2>2. i \in 1 .. (Len(s) + 1) /\ i \notin 1 .. Len(s)
    BY <1>2, <1>3, <1>5, <1>6, <1>8, <2>1 DEF New
  <2> QED
    BY <1>2, <2>1, <2>2
<1>9. OneMore(d, e)
  BY <1>8 DEF OneMore
<1>10. Len(e) = Len(d)
  BY <1>1, <1>5, Accounts
<1>11. Ops!HasAcct(e, a0)
  BY <1>10 DEF Ops!HasAcct
<1>12. Len(Ops!At(d, a0)) <= Len(Ops!At(e, a0))
  <2>1. Ops!At(d, a0) = s /\ Ops!At(e, a0) = t
    BY <1>1, <1>2, <1>6 DEF Ops!At
  <2> QED
    BY <1>2, <1>3, <2>1
<1> QED
  BY <1>5, <1>7, <1>9, <1>11, <1>12

-----------------------------------------------------------------------------
LEMMA JobOf ==
    ASSUME Ops!OpsAssumption, NEW j \in Jobs
    PROVE  /\ j.op \in Ops!SpecOps \union {"create", "dump", "restore"} /\ Ops!Needed(j) \subseteq Ops!Walls
           /\ j.acct \in Int /\ j.dacct \in Int /\ j.idx \in Int /\ j.label \in Labels /\ j.watch \in BOOLEAN
           /\ j.dest = 0 => j.dacct = Ops!None
           /\ j.op \in Ops!SpecOps => <<j.src, j.watch>> \in Ops!Walls /\ (j.dest # 0 => <<j.dest, j.watch>> \in Ops!Walls)
BY DEF Ops!OpsAssumption, Ops!Needed

LEMMA SourceOf ==
    ASSUME Ops!OpsAssumption, OpsTyped, pc # "idle", job.op \in Ops!SpecOps
    PROVE  /\ Ops!Source \in Ops!Walls /\ Ops!DestWallet \in Ops!Walls
           /\ wallets[Ops!Source] \in Ops!Data /\ before[Ops!Source] \in Ops!Data
           /\ wallets[Ops!DestWallet] \in Ops!Data
           /\ job.acct \in Int /\ job.dacct \in Int /\ job.idx \in Int /\ job.label \in Labels
           /\ (job.dest = 0 => job.dacct = Ops!None /\ Ops!DestWallet = Ops!Source)
           /\ (job.dest # 0 => Ops!DestWallet[1] = job.dest)
<1>1. job \in Jobs
  BY DEF OpsTyped
<1>2. Ops!Source \in Ops!Walls /\ Ops!DestWallet \in Ops!Walls
  BY <1>1, JobOf DEF Ops!Source, Ops!DestWallet
<1> QED
  BY <1>1, <1>2, JobOf DEF OpsTyped, Ops!DestWallet

(* One wallet is added to.                                                 *)
LEMMA AddedTo ==
    ASSUME OpsTyped, wallets = before, NEW v \in Ops!Walls, NEW e \in Ops!Data,
           Kept(wallets[v], e), OneMore(wallets[v], e),
           wallets' = [wallets EXCEPT ![v] = e], before' = before, job' = job
    PROVE  wallets' \in [Ops!Walls -> Ops!Data] /\ Ops!KeepsAddresses'
<1>1. wallets' \in [Ops!Walls -> Ops!Data]
  BY DEF OpsTyped
<1>2. ASSUME NEW u \in DOMAIN before', before'[u] # <<>>
      PROVE  /\ \A a \in DOMAIN before'[u] : \A i \in DOMAIN before'[u][a] :
                  /\ a \in DOMAIN wallets'[u] /\ i \in DOMAIN wallets'[u][a]
                  /\ wallets'[u][a][i] = before'[u][a][i]
             /\ \A a, b \in DOMAIN wallets'[u] : \A i \in DOMAIN wallets'[u][a], j \in DOMAIN wallets'[u][b] :
                  ~(a \in DOMAIN before'[u] /\ i \in DOMAIN before'[u][a]) /\ ~(b \in DOMAIN before'[u] /\ j \in DOMAIN before'[u][b])
                  => a = b /\ i = j
  <2>1. u \in Ops!Walls /\ before'[u] = wallets[u]
    BY <1>2 DEF OpsTyped
  <2>2. wallets'[u] = IF u = v THEN e ELSE wallets[u]
    BY <2>1 DEF OpsTyped
  <2>3. CASE u = v
    BY <2>1, <2>2, <2>3 DEF Kept, OneMore, New
  <2>4. CASE u # v
    BY <2>1, <2>2, <2>4
  <2> QED
    BY <2>3, <2>4
<1>3. Ops!KeepsAddresses'
  BY <1>2 DEF Ops!KeepsAddresses, Ops!Added
<1> QED
  BY <1>1, <1>3

(* Wallets as they were keep their addresses.                              *)
LEMMA AsBefore ==
    ASSUME UNCHANGED <<wallets, before, job>>, Ops!KeepsAddresses PROVE Ops!KeepsAddresses'
<1>1. Ops!Source' = Ops!Source
  BY DEF Ops!Source
<1> QED
  BY <1>1 DEF Ops!KeepsAddresses, Ops!Added

LEMMA NothingMade ==
    ASSUME tx' = Ops!NoTx PROVE Ops!SpendsAsTold'
BY DEF Ops!SpendsAsTold

LEMMA NotRestored ==
    ASSUME job'.op # "restore" \/ pc' # "done" PROVE Ops!RestoredAsDumped'
BY DEF Ops!RestoredAsDumped

LEMMA OpsStart == Ops!OpsAssumption /\ Ops!Init => OpsInv
<1> SUFFICES ASSUME Ops!OpsAssumption, Ops!Init PROVE OpsInv
  OBVIOUS
<1>1. wallets \in Worlds /\ before = wallets /\ dumps = [v \in DOMAIN wallets |-> <<>>] /\ shown = <<>>
      /\ pc = "idle" /\ tx = Ops!NoTx /\ files = {}
  BY DEF Ops!Init
<1>2. wallets \in [Ops!Walls -> Ops!Data]
  BY <1>1 DEF Ops!OpsAssumption
<1>3. <<>> \in Ops!Data
  BY DEF Ops!Data
<1>4. dumps \in [Ops!Walls -> Ops!Data]
  BY <1>1, <1>2, <1>3
<1>5. OpsTyped
  BY <1>1, <1>2, <1>3, <1>4 DEF OpsTyped, Ended
<1>6. Ops!KeepsAddresses
  BY <1>1 DEF Ops!KeepsAddresses, Ops!Added
<1>7. Ops!SpendsAsTold /\ Ops!RestoredAsDumped
  BY <1>1 DEF Ops!SpendsAsTold, Ops!RestoredAsDumped
<1>8. Unmade /\ OnSource /\ ReadyToMake /\ InTurn /\ FileStates
  BY <1>1 DEF Unmade, OnSource, ReadyToMake, InTurn, FileStates, Early, Making
<1> QED
  BY <1>5, <1>6, <1>7, <1>8 DEF OpsInv

LEMMA BeginStep == ASSUME Ops!OpsAssumption, OpsInv, Ops!Begin PROVE OpsInv'
<1>1. PICK j \in Jobs :
        /\ job' = j /\ before' = wallets
        /\ todo' = IF j.op \in Ops!SpecOps THEN <<>> ELSE [i \in DOMAIN j.walls |-> <<j.walls[i], j.watch>>]
        /\ pc' = IF \E v \in Ops!Needed(j) : (wallets[v] = <<>>) # (j.op \in {"create", "restore"}) THEN "died"
                 ELSE IF j.op \in Ops!SpecOps THEN "open" ELSE "process"
        /\ shown' = <<>> /\ tx' = Ops!NoTx /\ UNCHANGED <<wallets, dumps, files>>
  BY DEF Ops!Begin
<1>2. pc' \in {"died", "open", "process"} /\ <<>> \in Ops!Data
  BY <1>1 DEF Ops!Data
<1>3. OpsTyped'
  BY <1>1, <1>2 DEF OpsInv, OpsTyped, Ended, Early, Making
<1>4. Unmade' /\ ReadyToMake' /\ Ops!SpendsAsTold' /\ Ops!RestoredAsDumped'
  BY <1>1, <1>2 DEF Unmade, ReadyToMake, Ops!SpendsAsTold, Ops!RestoredAsDumped
<1>5. Ops!KeepsAddresses'
  BY <1>1 DEF Ops!KeepsAddresses, Ops!Added
<1>6. OnSource'
  <2> SUFFICES ASSUME pc' = "open"
               PROVE  /\ wallets' = before' /\ job'.op \in Ops!SpecOps /\ before'[Ops!Source'] # <<>>
                      /\ job'.dest # 0 => before'[Ops!DestWallet'] # <<>>
    BY <1>2 DEF OnSource, Early
  <2>1. j.op \in Ops!SpecOps /\ \A v \in Ops!Needed(j) : (wallets[v] = <<>>) = (j.op \in {"create", "restore"})
    BY <1>1
  <2>2. j.op \notin {"create", "restore"}
    BY <2>1 DEF Ops!SpecOps, Ops!Sweeps
  <2>3. <<j.src, j.watch>> \in Ops!Needed(j) /\ (j.dest # 0 => <<j.dest, j.watch>> \in Ops!Needed(j))
    BY <2>1 DEF Ops!Needed
  <2>4. Ops!Source' = <<j.src, j.watch>> /\ (j.dest # 0 => Ops!DestWallet' = <<j.dest, j.watch>>)
    BY <1>1 DEF Ops!Source, Ops!DestWallet
  <2> QED
    BY <1>1, <2>1, <2>2, <2>3, <2>4
<1>7. InTurn'
  <2> SUFFICES ASSUME pc' = "process"
               PROVE  /\ job'.op \in {"create", "dump", "restore"} /\ todo' \in Seq(Ops!Needed(job')) /\ todo' # <<>>
                      /\ job'.op # "dump" => \A v \in Ops!Needed(job') : before'[v] = <<>>
                      /\ job'.op = "restore" => \A v \in Ops!Needed(job') : \E i \in DOMAIN todo' : todo'[i] = v
    BY <1>2 DEF InTurn, Making
  <2>1. /\ j.op \notin Ops!SpecOps /\ j.op \in {"create", "dump", "restore"}
        /\ \A v \in Ops!Needed(j) : (wallets[v] = <<>>) = (j.op \in {"create", "restore"})
    BY <1>1, JobOf
  <2>2. PICK S : j.walls \in Seq(S) /\ j.walls # <<>>
    BY <2>1 DEF Ops!OpsAssumption
  <2>3. PICK n \in Nat : n = Len(j.walls) /\ n > 0 /\ DOMAIN j.walls = 1 .. n
    BY <2>2
  <2>4. todo' = [i \in 1 .. n |-> <<j.walls[i], j.watch>>]
    BY <1>1, <2>1, <2>3
  <2>5. Ops!Needed(j) = {<<u, j.watch>> : u \in {j.walls[i] : i \in 1 .. n}}
    BY <2>1, <2>3 DEF Ops!Needed, Ops!Range
  <2>6. \A i \in 1 .. n : <<j.walls[i], j.watch>> \in Ops!Needed(j)
    BY <2>5
  <2>7. todo' \in Seq(Ops!Needed(j)) /\ Len(todo') = n /\ DOMAIN todo' = 1 .. n
    BY <2>4, <2>6
  <2>8. todo' # <<>>
    BY <2>3, <2>7
  <2>9. ASSUME NEW v \in Ops!Needed(j) PROVE \E i \in 1 .. n : todo'[i] = v
    BY <2>4, <2>5
  <2> QED
    BY <1>1, <2>1, <2>7, <2>8, <2>9
<1>8. FileStates'
  BY <1>1 DEF OpsInv, FileStates
<1> QED
  BY <1>3, <1>4, <1>5, <1>6, <1>7, <1>8 DEF OpsInv

(* The command ends, with what has been done.                              *)
LEMMA Ends ==
    ASSUME OpsInv, UNCHANGED <<wallets, dumps, job, before, tx, shown>>, pc # "idle", FileStates',
           pc' \in {"died", "refused", "crashed"} \/ (pc' = "done" /\ job.op # "restore")
    PROVE  OpsInv'
<1>1. pc' \in Ended \ {"idle"} /\ pc' \notin Early \union Making \union {"make", "idle", "write", "relay"}
  BY DEF Ended, Early, Making
<1>2. OpsTyped'
  BY <1>1 DEF OpsInv, OpsTyped
<1>3. Unmade' /\ OnSource' /\ ReadyToMake' /\ InTurn'
  BY <1>1 DEF Unmade, OnSource, ReadyToMake, InTurn, Early, Making
<1>4. Ops!Source' = Ops!Source /\ Ops!DestWallet' = Ops!DestWallet
  BY DEF Ops!Source, Ops!DestWallet
<1>5. Ops!SpendsAsTold'
  BY <1>4 DEF OpsInv, Ops!SpendsAsTold
<1>6. Ops!RestoredAsDumped'
  BY NotRestored
<1> QED
  BY <1>2, <1>3, <1>5, <1>6, AsBefore DEF OpsInv

(* Nothing is made yet: a step before the transaction.                     *)
LEMMA OpenStep == ASSUME Ops!OpsAssumption, OpsInv, Ops!open_wallet PROVE OpsInv'
<1>1. /\ pc = "open" /\ current' = Ops!Source /\ shown' = wallets[Ops!Source]
      /\ UNCHANGED <<wallets, dumps, job, todo, files, before, tx>>
  BY DEF Ops!open_wallet, Ops!Rest
<1>2. wallets = before /\ job.op \in Ops!SpecOps /\ before[Ops!Source] # <<>> /\ (job.dest # 0 => before[Ops!DestWallet] # <<>>)
  BY <1>1 DEF OpsInv, OnSource, Early
<1>3. wallets[Ops!Source] \in Ops!Data
  BY <1>1, <1>2, SourceOf DEF OpsInv
<1>4. Ops!Source' = Ops!Source /\ Ops!DestWallet' = Ops!DestWallet
  BY <1>1 DEF Ops!Source, Ops!DestWallet
<1>5. /\ pc' \in {"new", "crashed", "refused", "label", "make", "dest"}
      /\ pc' = "new" => job.op = "new" /\ (job.acct = Ops!None \/ Told(shown'))
      /\ pc' \in {"label", "make", "dest"} => Told(shown') /\ job.op # "new"
      /\ pc' = "label" => job.op = "label" /\ Ops!HasAddr(shown', job.acct, job.idx)
      /\ pc' = "make" => job.op = "transfer"
      /\ pc' = "dest" => job.op \notin {"label", "transfer"}
  BY <1>1 DEF Ops!open_wallet, Told
<1>6. pc' = "dest" => job.op \in Ops!Sweeps
  BY <1>2, <1>5 DEF Ops!SpecOps
<1>7. OpsTyped'
  BY <1>1, <1>3, <1>5 DEF OpsInv, OpsTyped, Ended, Early, Making
<1>8. Unmade' /\ Ops!SpendsAsTold' /\ InTurn' /\ Ops!RestoredAsDumped'
  <2>1. tx' = Ops!NoTx
    BY <1>1 DEF OpsInv, Unmade, Early
  <2> QED
    BY <1>5, <2>1, NothingMade, NotRestored DEF Unmade, InTurn, Making
<1>9. OnSource'
  BY <1>1, <1>2, <1>4, <1>5, <1>6 DEF OnSource, Early, Told
<1>10. ReadyToMake'
  <2> SUFFICES ASSUME pc' = "make"
               PROVE  /\ current' = Ops!Source' /\ job'.op \in Ops!Sweeps \union {"transfer"}
                      /\ Told(before[Ops!Source])' /\ Told(shown)'
                      /\ Len(Ops!At(before[Ops!Source], job.acct))' <= Len(Ops!At(shown, job.acct))'
                      /\ job'.op \notin Ops!Sweeps
    BY DEF ReadyToMake
  <2>1. job.op = "transfer" /\ "transfer" \notin Ops!Sweeps
    BY <1>5 DEF Ops!Sweeps
  <2>2. before'[Ops!Source'] = shown' /\ Told(shown')
    BY <1>1, <1>2, <1>4, <1>5
  <2>3. Len(Ops!At(shown', job.acct)) \in Nat
    <3>1. job.acct + 1 \in DOMAIN shown'
      BY <1>1, <1>3, <2>2, Accounts DEF Told, Ops!HasAcct
    <3> QED
      BY <1>1, <1>3, <3>1, Accounts DEF Ops!At
  <2> QED
    BY <1>1, <1>4, <2>1, <2>2, <2>3 DEF Told
<1> QED
  BY <1>1, <1>7, <1>8, <1>9, <1>10, AsBefore DEF OpsInv, FileStates

(* The wallet that is asked about is added to, or relabelled.              *)
LEMMA NewStep == ASSUME Ops!OpsAssumption, OpsInv, Ops!NewOp PROVE OpsInv'
<1>1. /\ pc = "new" /\ pc' = "done" /\ UNCHANGED <<dumps, job, todo, files, before, tx, shown>>
      /\ wallets' = [wallets EXCEPT ![current] = IF job.acct = Ops!None THEN Ops!create_account(wallets[current], job.label)
                                                ELSE Ops!create_address(wallets[current], job.acct, job.label)]
  BY DEF Ops!NewOp, Ops!Rest, Ops!End
<1>2. /\ wallets = before /\ job.op = "new" /\ job.op \in Ops!SpecOps /\ current = Ops!Source /\ shown = wallets[current]
      /\ job.acct = Ops!None \/ Ops!HasAcct(shown, job.acct)
  BY <1>1 DEF OpsInv, OnSource, Early, Told
<1>3. current \in Ops!Walls /\ shown \in Ops!Data /\ job.label \in Labels
  BY <1>1, <1>2, SourceOf DEF OpsInv
<1>4. PICK e \in Ops!Data : wallets' = [wallets EXCEPT ![current] = e] /\ Kept(shown, e) /\ OneMore(shown, e)
  <2>1. CASE job.acct = Ops!None
    BY <1>1, <1>2, <1>3, <2>1, AccountAdded
  <2>2. CASE job.acct # Ops!None
    BY <1>1, <1>2, <1>3, <2>2, AddressAdded
  <2> QED
    BY <2>1, <2>2
<1>5. wallets' \in [Ops!Walls -> Ops!Data] /\ Ops!KeepsAddresses'
  BY <1>1, <1>2, <1>3, <1>4, AddedTo DEF OpsInv
<1>6. OpsTyped'
  BY <1>1, <1>5 DEF OpsInv, OpsTyped, Ended
<1>7. tx' = Ops!NoTx
  BY <1>1 DEF OpsInv, Unmade, Early
<1>8. Unmade' /\ OnSource' /\ ReadyToMake' /\ InTurn' /\ Ops!SpendsAsTold' /\ Ops!RestoredAsDumped'
  BY <1>1, <1>2, <1>7, NothingMade, NotRestored DEF Unmade, OnSource, ReadyToMake, InTurn, Early, Making
<1> QED
  BY <1>1, <1>5, <1>6, <1>8 DEF OpsInv, FileStates

LEMMA LabelStep == ASSUME Ops!OpsAssumption, OpsInv, Ops!LabelOp PROVE OpsInv'
<1>1. /\ pc = "label" /\ pc' = "done" /\ UNCHANGED <<dumps, job, todo, files, before, tx, shown>>
      /\ wallets' = [wallets EXCEPT ![current] = Ops!label_address(wallets[current], job.acct, job.idx, job.label)]
  BY DEF Ops!LabelOp, Ops!Rest, Ops!End
<1>2. /\ wallets = before /\ job.op = "label" /\ job.op \in Ops!SpecOps /\ current = Ops!Source /\ shown = wallets[current]
      /\ Ops!HasAddr(shown, job.acct, job.idx)
  BY <1>1 DEF OpsInv, OnSource, Early
<1>3. current \in Ops!Walls /\ shown \in Ops!Data /\ job.label \in Labels
  BY <1>1, <1>2, SourceOf DEF OpsInv
<1>4. PICK a, i : a = job.acct + 1 /\ i = job.idx + 1
  OBVIOUS
<1>5. /\ Len(shown) \in Nat /\ DOMAIN shown = 1 .. Len(shown) /\ a \in DOMAIN shown
      /\ Ops!At(shown, job.acct) = shown[a]
  BY <1>2, <1>3, <1>4, Accounts DEF Ops!HasAddr, Ops!HasAcct, Ops!At
<1>6. PICK s \in Seq(Labels) : s = shown[a] /\ Len(s) \in Nat /\ Len(s) > 0 /\ DOMAIN s = 1 .. Len(s) /\ i \in DOMAIN s
  BY <1>2, <1>3, <1>4, <1>5, Accounts DEF Ops!HasAddr
<1>7. PICK t \in Seq(Labels) \ {<<>>} : t = [s EXCEPT ![i] = job.label]
  <2> DEFINE u == [s EXCEPT ![i] = job.label]
  <2>1. u \in Seq(Labels) /\ DOMAIN u = DOMAIN s
    BY <1>3, <1>6
  <2>2. u # <<>>
    BY <1>6, <2>1
  <2> QED
    BY <2>1, <2>2
<1>8. PICK e \in Ops!Data : e = [shown EXCEPT ![a] = t]
  <2> DEFINE u == [shown EXCEPT ![a] = t]
  <2>1. u \in Ops!Data
    BY <1>3, <1>5, <1>7 DEF Ops!Data
  <2> QED
    BY <2>1
<1>9. wallets' = [wallets EXCEPT ![current] = e]
  BY <1>1, <1>2, <1>4, <1>6, <1>7, <1>8 DEF Ops!label_address
<1>10. wallets' \in [Ops!Walls -> Ops!Data]
  BY <1>3, <1>9 DEF OpsInv, OpsTyped
<1>11. Ops!KeepsAddresses'
  <2>1. Ops!Source' = current
    BY <1>1, <1>2 DEF Ops!Source
  <2>2. ASSUME NEW v \in DOMAIN before'
        PROVE  /\ \A b \in DOMAIN before'[v] : \A k \in DOMAIN before'[v][b] :
                    /\ b \in DOMAIN wallets'[v] /\ k \in DOMAIN wallets'[v][b]
                    /\ wallets'[v][b][k] = before'[v][b][k] \/ (v = current /\ b = a /\ k = i)
               /\ \A b, c \in DOMAIN wallets'[v] : \A k \in DOMAIN wallets'[v][b], n \in DOMAIN wallets'[v][c] :
                    b \in DOMAIN before'[v] /\ k \in DOMAIN before'[v][b]
    <3>1. before'[v] = wallets[v] /\ v \in Ops!Walls
      BY <1>1, <1>2, <2>2 DEF OpsInv, OpsTyped
    <3>2. wallets'[v] = IF v = current THEN e ELSE wallets[v]
      BY <1>9, <3>1 DEF OpsInv, OpsTyped
    <3>3. CASE v # current
      BY <3>1, <3>2, <3>3
    <3>4. CASE v = current
      <4>1. DOMAIN e = DOMAIN shown /\ e[a] = t /\ \A b \in DOMAIN shown : b # a => e[b] = shown[b]
        BY <1>5, <1>8
      <4>2. DOMAIN t = DOMAIN s /\ \A k \in DOMAIN s : k # i => t[k] = s[k]
        BY <1>7
      <4> QED
        BY <1>2, <1>6, <3>1, <3>2, <3>4, <4>1, <4>2
    <3> QED
      BY <3>3, <3>4
  <2> QED
    BY <1>1, <1>2, <1>4, <2>1, <2>2 DEF Ops!KeepsAddresses, Ops!Added
<1>12. OpsTyped'
  BY <1>1, <1>10 DEF OpsInv, OpsTyped, Ended
<1>13. tx' = Ops!NoTx
  BY <1>1 DEF OpsInv, Unmade, Early
<1>14. Unmade' /\ OnSource' /\ ReadyToMake' /\ InTurn' /\ Ops!SpendsAsTold' /\ Ops!RestoredAsDumped'
  BY <1>1, <1>2, <1>13, NothingMade, NotRestored DEF Unmade, OnSource, ReadyToMake, InTurn, Early, Making
<1> QED
  BY <1>1, <1>11, <1>12, <1>14 DEF OpsInv, FileStates

LEMMA LastOf ==
    ASSUME NEW d \in Ops!Data, NEW a \in Int, Ops!HasAcct(d, a), NEW v
    PROVE  \E m \in Int : Ops!LastAddr(v, d, a) = <<v[1], a, m>> /\ Ops!HasAddr(d, a, m)
<1>1. a + 1 \in DOMAIN d
  BY Accounts DEF Ops!HasAcct
<1>2. PICK n \in Nat : n = Len(Ops!At(d, a)) /\ n > 0
  BY <1>1, Accounts DEF Ops!At
<1>3. n - 1 \in Int /\ n - 1 \in 0 .. n - 1
  BY <1>2
<1> QED
  BY <1>2, <1>3 DEF Ops!LastAddr, Ops!HasAddr

LEMMA SameStep == ASSUME Ops!OpsAssumption, OpsInv, Ops!SweepToSame PROVE OpsInv'
<1>1. /\ pc = "dest" /\ pc' = "make" /\ job.dest = 0 /\ UNCHANGED <<dumps, job, todo, files, before, tx, current>>
      /\ \/ wallets' = [wallets EXCEPT ![current] = Ops!create_address(wallets[current], job.acct, NewLabel)] /\ shown' = wallets'[current]
         \/ UNCHANGED <<wallets, shown>>
      /\ dest' = Ops!LastAddr(current, shown', job.acct)
  BY DEF Ops!SweepToSame, Ops!Rest, Ops!Goto
<1>2. /\ wallets = before /\ job.op \in Ops!SpecOps /\ job.op \in Ops!Sweeps /\ current = Ops!Source /\ shown = wallets[current]
      /\ Ops!HasAcct(shown, job.acct)
  BY <1>1 DEF OpsInv, OnSource, Early, Told
<1>3. /\ current \in Ops!Walls /\ shown \in Ops!Data /\ job.acct \in Int /\ job.dacct = Ops!None /\ Ops!DestWallet = current
      /\ NewLabel \in Labels
  BY <1>1, <1>2, SourceOf DEF OpsInv, Ops!OpsAssumption
<1>4. PICK e \in Ops!Data : /\ wallets' = [wallets EXCEPT ![current] = e] /\ Kept(shown, e) /\ OneMore(shown, e)
                            /\ shown' = e /\ Ops!HasAcct(e, job.acct)
                            /\ Len(Ops!At(shown, job.acct)) <= Len(Ops!At(e, job.acct))
  <2>1. CASE UNCHANGED <<wallets, shown>>
    <3>1. Kept(shown, shown) /\ OneMore(shown, shown)
      BY DEF Kept, OneMore, New
    <3>2. wallets' = [wallets EXCEPT ![current] = shown]
      BY <1>2, <1>3, <2>1 DEF OpsInv, OpsTyped
    <3>3. job.acct + 1 \in DOMAIN shown
      BY <1>2, <1>3, Accounts DEF Ops!HasAcct
    <3>4. Len(Ops!At(shown, job.acct)) \in Nat
      BY <1>3, <3>3, Accounts DEF Ops!At
    <3>5. PICK n \in Nat : n = Len(Ops!At(shown, job.acct)) /\ n <= n
      BY <3>4
    <3> QED
      BY <1>2, <1>3, <2>1, <3>1, <3>2, <3>5
  <2>2. CASE wallets' = [wallets EXCEPT ![current] = Ops!create_address(wallets[current], job.acct, NewLabel)] /\ shown' = wallets'[current]
    <3>1. PICK e : e = Ops!create_address(shown, job.acct, NewLabel)
      OBVIOUS
    <3>2. wallets' = [wallets EXCEPT ![current] = e] /\ shown' = e
      BY <1>2, <1>3, <2>2, <3>1 DEF OpsInv, OpsTyped
    <3> QED
      BY <1>2, <1>3, <3>1, <3>2, AddressAdded
  <2> QED
    BY <1>1, <2>1, <2>2
<1>5. wallets' \in [Ops!Walls -> Ops!Data] /\ Ops!KeepsAddresses'
  BY <1>1, <1>2, <1>3, <1>4, AddedTo DEF OpsInv
<1>6. OpsTyped'
  BY <1>1, <1>4, <1>5 DEF OpsInv, OpsTyped, Ended
<1>7. tx' = Ops!NoTx
  BY <1>1 DEF OpsInv, Unmade, Early
<1>8. Unmade' /\ OnSource' /\ InTurn' /\ Ops!SpendsAsTold' /\ Ops!RestoredAsDumped'
  <2>1. Ops!Source' = Ops!Source /\ Ops!DestWallet' = Ops!DestWallet
    BY <1>1 DEF Ops!Source, Ops!DestWallet
  <2>2. before[Ops!Source] # <<>>
    BY <1>1 DEF OpsInv, OnSource, Early
  <2> QED
    BY <1>1, <1>2, <1>7, <2>1, <2>2, NothingMade, NotRestored DEF Unmade, OnSource, InTurn, Early, Making
<1>9. ReadyToMake'
  <2>1. Ops!Source' = current /\ Ops!DestWallet' = current
    BY <1>1, <1>2, <1>3 DEF Ops!Source, Ops!DestWallet
  <2>2. wallets'[current] = e
    BY <1>3, <1>4, <1>5 DEF OpsInv, OpsTyped
  <2>3. PICK m \in Int : Ops!LastAddr(current, e, job.acct) = <<current[1], job.acct, m>> /\ Ops!HasAddr(e, job.acct, m)
    BY <1>3, <1>4, LastOf
  <2>4. dest' = <<current[1], job.acct, m>>
    BY <1>1, <1>4, <2>3
  <2>5. DestRight'
    BY <1>1, <1>3, <2>1, <2>2, <2>3, <2>4 DEF DestRight
  <2> QED
    BY <1>1, <1>2, <1>4, <2>1, <2>5 DEF ReadyToMake, Told
<1> QED
  BY <1>1, <1>5, <1>6, <1>8, <1>9 DEF OpsInv, FileStates

(* What sweeps to another wallet or account have in common.                *)
LEMMA SweptTo ==
    ASSUME Ops!OpsAssumption, OpsInv, pc \in {"dest", "dest?"}, pc' = "make", UNCHANGED <<dumps, job, todo, files, before, tx, shown>>,
           current' = Ops!Source, shown = wallets[Ops!Source], NEW e \in Ops!Data,
           wallets' = [wallets EXCEPT ![Ops!DestWallet] = e],
           Kept(wallets[Ops!DestWallet], e), OneMore(wallets[Ops!DestWallet], e),
           NEW a \in Int, NEW m \in Int, dest' = <<Ops!DestWallet[1], a, m>>, Ops!HasAddr(e, a, m),
           job.dest # 0, job.dacct # Ops!None => a = job.dacct
    PROVE  OpsInv'
<1>1. wallets = before /\ job.op \in Ops!SpecOps /\ job.op \in Ops!Sweeps /\ Ops!HasAcct(shown, job.acct)
  BY DEF OpsInv, OnSource, Early, Told
<1>2. Ops!DestWallet \in Ops!Walls /\ Ops!Source \in Ops!Walls /\ shown \in Ops!Data /\ job.acct \in Int
  BY <1>1, SourceOf DEF OpsInv
<1>3. wallets' \in [Ops!Walls -> Ops!Data] /\ Ops!KeepsAddresses'
  BY <1>1, <1>2, AddedTo DEF OpsInv
<1>4. OpsTyped'
  BY <1>3 DEF OpsInv, OpsTyped, Ended
<1>5. tx' = Ops!NoTx
  BY DEF OpsInv, Unmade, Early
<1>6. Ops!Source' = Ops!Source /\ Ops!DestWallet' = Ops!DestWallet
  BY DEF Ops!Source, Ops!DestWallet
<1>7. Unmade' /\ OnSource' /\ InTurn' /\ Ops!SpendsAsTold' /\ Ops!RestoredAsDumped'
  <2>1. before[Ops!Source] # <<>> /\ (job.dest # 0 => before[Ops!DestWallet] # <<>>)
    BY DEF OpsInv, OnSource, Early
  <2> QED
    BY <1>1, <1>5, <1>6, <2>1, NothingMade, NotRestored DEF Unmade, OnSource, InTurn, Early, Making
<1>8. ReadyToMake'
  <2>1. wallets'[Ops!DestWallet] = e
    BY <1>2 DEF OpsInv, OpsTyped
  <2>2. DestRight'
    BY <1>6, <2>1 DEF DestRight
  <2>3. job.acct + 1 \in DOMAIN shown
    BY <1>1, <1>2, Accounts DEF Ops!HasAcct
  <2>4. Len(Ops!At(shown, job.acct)) \in Nat
    BY <1>2, <2>3, Accounts DEF Ops!At
  <2> QED
    BY <1>1, <1>6, <2>2, <2>4 DEF ReadyToMake, Told
<1> QED
  BY <1>3, <1>4, <1>7, <1>8 DEF OpsInv, FileStates

LEMMA WalletStep == ASSUME Ops!OpsAssumption, OpsInv, Ops!SweepToWallet PROVE OpsInv'
<1> DEFINE d == wallets[Ops!DestWallet]
<1>1. /\ pc = "dest" /\ job.dest # 0 /\ job.dacct = Ops!None /\ UNCHANGED <<dumps, job, todo, files, before, tx, shown>>
      /\ \/ /\ wallets' = [wallets EXCEPT ![Ops!DestWallet] = Ops!create_account(d, NewLabel)]
            /\ dest' = <<job.dest, Len(d), 0>>
         \/ dest' = Ops!LastAddr(Ops!DestWallet, d, Len(d) - 1) /\ UNCHANGED wallets
      /\ current' = Ops!Source /\ pc' \in {"make", "crashed"} /\ (pc' = "crashed" => chk' # Ops!NoAddr /\ chk' # dest')
      /\ UNCHANGED wallets \/ UNCHANGED chk
  BY DEF Ops!SweepToWallet, Ops!Rest
<1>2. /\ wallets = before /\ job.op \in Ops!SpecOps /\ current = Ops!Source /\ shown = wallets[current]
      /\ before[Ops!DestWallet] # <<>>
  BY <1>1 DEF OpsInv, OnSource, Early
<1>3. Ops!DestWallet \in Ops!Walls /\ d \in Ops!Data /\ NewLabel \in Labels /\ Ops!DestWallet[1] = job.dest
  BY <1>1, <1>2, SourceOf DEF OpsInv, Ops!OpsAssumption
<1>4. Len(d) \in Nat /\ Len(d) > 0
  BY <1>2, <1>3, Accounts
<1>5. PICK e \in Ops!Data, a \in Int, m \in Int :
        /\ wallets' = [wallets EXCEPT ![Ops!DestWallet] = e] /\ Kept(d, e) /\ OneMore(d, e)
        /\ dest' = <<Ops!DestWallet[1], a, m>> /\ Ops!HasAddr(e, a, m)
  <2>1. CASE wallets' = [wallets EXCEPT ![Ops!DestWallet] = Ops!create_account(d, NewLabel)] /\ dest' = <<job.dest, Len(d), 0>>
    <3>1. PICK e : e = Ops!create_account(d, NewLabel)
      OBVIOUS
    <3>2. e \in Ops!Data /\ Kept(d, e) /\ OneMore(d, e) /\ Ops!HasAddr(e, Len(d), 0)
      BY <1>3, <3>1, AccountAdded
    <3> HIDE DEF d
    <3>3. Len(d) \in Int /\ 0 \in Int
      BY <1>4
    <3> QED
      BY <1>3, <2>1, <3>1, <3>2, <3>3
  <2>2. CASE dest' = Ops!LastAddr(Ops!DestWallet, d, Len(d) - 1) /\ UNCHANGED wallets
    <3>1. Len(d) - 1 \in Int /\ Ops!HasAcct(d, Len(d) - 1)
      BY <1>4 DEF Ops!HasAcct
    <3>2. Kept(d, d) /\ OneMore(d, d)
      BY DEF Kept, OneMore, New
    <3>3. wallets' = [wallets EXCEPT ![Ops!DestWallet] = d]
      BY <1>3, <2>2 DEF OpsInv, OpsTyped
    <3> HIDE DEF d
    <3> QED
      BY <1>3, <2>2, <3>1, <3>2, <3>3, LastOf
  <2> QED
    BY <1>1, <2>1, <2>2
<1>6. CASE pc' = "make"
  BY <1>1, <1>2, <1>5, <1>6, SweptTo
<1>7. CASE pc' = "crashed"
  <2>1. wallets' \in [Ops!Walls -> Ops!Data] /\ Ops!KeepsAddresses'
    BY <1>1, <1>2, <1>3, <1>5, AddedTo DEF OpsInv
  <2>2. OpsTyped'
    BY <1>1, <1>7, <2>1 DEF OpsInv, OpsTyped, Ended
  <2>3. tx' = Ops!NoTx
    BY <1>1 DEF OpsInv, Unmade, Early
  <2>4. Unmade' /\ OnSource' /\ ReadyToMake' /\ InTurn' /\ Ops!SpendsAsTold' /\ Ops!RestoredAsDumped'
    BY <1>7, <2>3, NothingMade, NotRestored DEF Unmade, OnSource, ReadyToMake, InTurn, Early, Making
  <2> QED
    BY <1>1, <2>1, <2>2, <2>4 DEF OpsInv, FileStates
<1> QED
  BY <1>1, <1>6, <1>7

LEMMA OpenDestStep == ASSUME Ops!OpsAssumption, OpsInv, Ops!OpenDest PROVE OpsInv'
<1>1. /\ pc = "dest" /\ job.dest # 0 /\ job.dacct # Ops!None /\ current' = Ops!DestWallet
      /\ UNCHANGED <<wallets, dumps, job, todo, files, before, tx, shown>>
      /\ pc' \in {"refused", "crashed", "dest?"} /\ (pc' = "dest?" => Ops!HasAcct(wallets[Ops!DestWallet], job.dacct))
  BY DEF Ops!OpenDest, Ops!Rest
<1>2. /\ wallets = before /\ job.op \in Ops!SpecOps /\ job.op \in Ops!Sweeps /\ current = Ops!Source /\ shown = wallets[Ops!Source]
      /\ Told(shown) /\ before[Ops!Source] # <<>> /\ before[Ops!DestWallet] # <<>>
  BY <1>1 DEF OpsInv, OnSource, Early
<1>3. FileStates'
  BY <1>1 DEF OpsInv, FileStates
<1>4. CASE pc' # "dest?"
  BY <1>1, <1>3, <1>4, Ends
<1>5. CASE pc' = "dest?"
  <2>1. tx' = Ops!NoTx
    BY <1>1 DEF OpsInv, Unmade, Early
  <2>2. Ops!Source' = Ops!Source /\ Ops!DestWallet' = Ops!DestWallet
    BY <1>1 DEF Ops!Source, Ops!DestWallet
  <2>3. Unmade' /\ ReadyToMake' /\ InTurn' /\ Ops!SpendsAsTold' /\ Ops!RestoredAsDumped'
    BY <1>5, <2>1, NothingMade, NotRestored DEF Unmade, ReadyToMake, InTurn, Making
  <2>4. OnSource'
    BY <1>1, <1>2, <1>5, <2>2 DEF OnSource, Early, Told
  <2>5. OpsTyped'
    BY <1>1, <1>5 DEF OpsInv, OpsTyped, Early
  <2> QED
    BY <1>1, <1>3, <2>3, <2>4, <2>5, AsBefore DEF OpsInv
<1> QED
  BY <1>4, <1>5

LEMMA AccountStep == ASSUME Ops!OpsAssumption, OpsInv, Ops!SweepToAccount PROVE OpsInv'
<1> DEFINE d == wallets[current]
<1>1. /\ pc = "dest?" /\ pc' = "make" /\ UNCHANGED <<dumps, job, todo, files, before, tx, shown>> /\ current' = Ops!Source
      /\ wallets' = [wallets EXCEPT ![current] = Ops!create_address(d, job.dacct, NewLabel)] \/ UNCHANGED wallets
      /\ dest' = Ops!LastAddr(current, wallets'[current], job.dacct)
  BY DEF Ops!SweepToAccount, Ops!Rest, Ops!Goto
<1>2. /\ wallets = before /\ job.op \in Ops!SpecOps /\ current = Ops!DestWallet /\ shown = wallets[Ops!Source]
      /\ job.dest # 0 /\ Ops!HasAcct(d, job.dacct)
  BY <1>1 DEF OpsInv, OnSource, Early
<1>3. current \in Ops!Walls /\ d \in Ops!Data /\ NewLabel \in Labels /\ job.dacct \in Int
  BY <1>1, <1>2, SourceOf DEF OpsInv, Ops!OpsAssumption
<1>4. PICK e \in Ops!Data : /\ wallets' = [wallets EXCEPT ![current] = e] /\ Kept(d, e) /\ OneMore(d, e)
                            /\ Ops!HasAcct(e, job.dacct) /\ wallets'[current] = e
  <2>1. CASE wallets' = [wallets EXCEPT ![current] = Ops!create_address(d, job.dacct, NewLabel)]
    <3>1. PICK e : e = Ops!create_address(d, job.dacct, NewLabel)
      OBVIOUS
    <3>2. wallets'[current] = e
      BY <1>3, <2>1, <3>1 DEF OpsInv, OpsTyped
    <3> HIDE DEF d
    <3> QED
      BY <1>2, <1>3, <2>1, <3>1, <3>2, AddressAdded
  <2>2. CASE UNCHANGED wallets
    <3>1. Kept(d, d) /\ OneMore(d, d)
      BY DEF Kept, OneMore, New
    <3>2. wallets' = [wallets EXCEPT ![current] = d] /\ wallets'[current] = d
      BY <1>3, <2>2 DEF OpsInv, OpsTyped
    <3> HIDE DEF d
    <3> QED
      BY <1>2, <1>3, <3>1, <3>2
  <2> QED
    BY <1>1, <2>1, <2>2
<1>5. PICK m \in Int : dest' = <<current[1], job.dacct, m>> /\ Ops!HasAddr(e, job.dacct, m)
  BY <1>1, <1>3, <1>4, LastOf
<1> QED
  BY <1>1, <1>2, <1>3, <1>4, <1>5, SweptTo

LEMMA MakeStep == ASSUME Ops!OpsAssumption, OpsInv, Ops!make_tx PROVE OpsInv'
<1>1. /\ pc = "make" /\ pc' = "write" /\ UNCHANGED <<wallets, dumps, job, todo, files, before, shown, dest, current>>
      /\ tx' = [op |-> job.op, from |-> current, source |-> <<job.src, job.acct>>,
                dest |-> IF job.op = "transfer" THEN Ops!NoAddr ELSE <<Ops!DestWallet[1], dest[2], dest[3]>>,
                addr |-> IF job.op = "transfer" THEN job.addr ELSE dest,
                spends |-> IF job.op = "sweep_all" THEN 0 .. Len(Ops!At(shown, job.acct)) - 1 ELSE {}]
  BY DEF Ops!make_tx, Ops!Rest, Ops!Goto
<1>2. /\ current = Ops!Source /\ job.op \in Ops!SpecOps
      /\ Told(before[Ops!Source]) /\ Told(shown)
      /\ Len(Ops!At(before[Ops!Source], job.acct)) <= Len(Ops!At(shown, job.acct))
      /\ job.op \in Ops!Sweeps => DestRight
  BY <1>1 DEF OpsInv, OnSource, ReadyToMake
<1>3. Ops!Source' = Ops!Source /\ Ops!DestWallet' = Ops!DestWallet
  BY <1>1 DEF Ops!Source, Ops!DestWallet
<1>4. OpsTyped'
  BY <1>1 DEF OpsInv, OpsTyped
<1>5. tx'.from = Ops!Source' /\ tx'.source = <<job'.src, job'.acct>>
  BY <1>1, <1>2, <1>3
<1>6. ASSUME job'.op \in Ops!Sweeps
      PROVE  /\ tx'.addr = tx'.dest /\ tx'.addr[1] = Ops!DestWallet'[1]
             /\ job'.dest = 0 => tx'.addr[2] = job'.acct
             /\ job'.dacct # Ops!None => tx'.addr[2] = job'.dacct
             /\ Ops!HasAddr(wallets'[Ops!DestWallet'], tx'.addr[2], tx'.addr[3])
  <2>1. job.op # "transfer" /\ job.op \in Ops!Sweeps
    BY <1>1, <1>6 DEF Ops!Sweeps
  <2>2. dest = <<Ops!DestWallet[1], dest[2], dest[3]>> /\ dest[1] = Ops!DestWallet[1]
    BY <1>2, <2>1 DEF DestRight
  <2>3. tx'.addr = dest /\ tx'.dest = dest
    BY <1>1, <2>1, <2>2
  <2> QED
    BY <1>1, <1>2, <1>3, <2>1, <2>2, <2>3 DEF DestRight
<1>7. job'.op = "sweep_all" => 0 .. Len(Ops!At(before'[Ops!Source'], job'.acct)) - 1 \subseteq tx'.spends
  <2> SUFFICES ASSUME job.op = "sweep_all"
               PROVE  0 .. Len(Ops!At(before[Ops!Source], job.acct)) - 1 \subseteq tx'.spends
    BY <1>1, <1>3
  <2>1. tx'.spends = 0 .. Len(Ops!At(shown, job.acct)) - 1
    BY <1>1
  <2>2. /\ Ops!Source \in Ops!Walls /\ before[Ops!Source] \in Ops!Data /\ shown \in Ops!Data
    BY <1>1, <1>2, SourceOf DEF OpsInv, OpsTyped
  <2>3. job.acct + 1 \in DOMAIN before[Ops!Source] /\ job.acct + 1 \in DOMAIN shown
    BY <1>1, <1>2, <2>2, Accounts, SourceOf DEF Told, Ops!HasAcct, OpsInv
  <2>4. Len(Ops!At(before[Ops!Source], job.acct)) \in Nat /\ Len(Ops!At(shown, job.acct)) \in Nat
    BY <2>2, <2>3, Accounts DEF Ops!At
  <2> QED
    BY <1>2, <2>1, <2>4
<1>8. Ops!SpendsAsTold'
  BY <1>5, <1>6, <1>7 DEF Ops!SpendsAsTold
<1>9. Unmade' /\ OnSource' /\ ReadyToMake' /\ InTurn' /\ Ops!RestoredAsDumped'
  BY <1>1, <1>2, NotRestored DEF Unmade, OnSource, ReadyToMake, InTurn, Early, Making
<1> QED
  BY <1>1, <1>4, <1>8, <1>9, AsBefore DEF OpsInv, FileStates

(* Nothing but the transaction files changes.                              *)
LEMMA Still ==
    ASSUME OpsInv, UNCHANGED <<wallets, dumps, current, job, pc, todo, shown, dest, tx, before>>, FileStates'
    PROVE  OpsInv'
<1>1. Ops!Source' = Ops!Source /\ Ops!DestWallet' = Ops!DestWallet /\ Ops!Needed(job)' = Ops!Needed(job)
      /\ \A v : Ops!DumpFor(v)' = Ops!DumpFor(v)
  BY DEF Ops!Source, Ops!DestWallet, Ops!Needed, Ops!DumpFor
<1>2. OpsTyped' /\ Unmade'
  BY DEF OpsInv, OpsTyped, Unmade
<1>3. OnSource'
  BY <1>1 DEF OpsInv, OnSource, Told
<1>4. ReadyToMake'
  BY <1>1 DEF OpsInv, ReadyToMake, DestRight, Told
<1>5. InTurn'
  BY <1>1 DEF OpsInv, InTurn
<1>6. Ops!SpendsAsTold'
  BY <1>1 DEF OpsInv, Ops!SpendsAsTold
<1>7. Ops!RestoredAsDumped'
  BY <1>1 DEF OpsInv, Ops!RestoredAsDumped
<1> QED
  BY <1>2, <1>3, <1>4, <1>5, <1>6, <1>7, AsBefore DEF OpsInv

LEMMA WriteStep == ASSUME OpsInv, Ops!WriteTx PROVE OpsInv'
<1>1. PICK f : /\ pc = "write" /\ UNCHANGED <<wallets, dumps, job, todo, before, shown, dest, tx, current>>
               /\ files' = files \union {f} /\ pc' \in {"done", "relay"}
               /\ f = Ops!NewUnsigned(count[1], tx) \/ f = Ops!NewSigned(count[1], tx)
  BY DEF Ops!WriteTx
<1>2. /\ DOMAIN f = {"ext", "id", "tx", "sign", "submit", "unsigned", "signed", "complete"}
      /\ \/ f.ext = "rawtx" /\ f.unsigned = TRUE /\ f.sign = FALSE /\ f.signed = FALSE
         \/ f.ext = "sigtx" /\ f.sign = TRUE /\ f.signed = FALSE /\ f.unsigned = FALSE
  BY <1>1 DEF Ops!NewUnsigned, Ops!NewSigned, Ops!File
<1>3. FileStates'
  BY <1>1, <1>2 DEF OpsInv, FileStates
<1>4. job.op \in Ops!SpecOps /\ job.op # "restore"
  BY <1>1 DEF OpsInv, OnSource, Ops!SpecOps, Ops!Sweeps
<1>5. CASE pc' = "done"
  BY <1>1, <1>3, <1>4, <1>5, Ends
<1>6. CASE pc' = "relay"
  <2>1. OpsTyped'
    BY <1>1, <1>6 DEF OpsInv, OpsTyped
  <2>2. Unmade' /\ OnSource' /\ ReadyToMake' /\ InTurn' /\ Ops!RestoredAsDumped'
    BY <1>1, <1>4, <1>6, NotRestored DEF Unmade, OnSource, ReadyToMake, InTurn, Early, Making
  <2>3. Ops!Source' = Ops!Source /\ Ops!DestWallet' = Ops!DestWallet
    BY <1>1 DEF Ops!Source, Ops!DestWallet
  <2>4. Ops!SpendsAsTold'
    BY <1>1, <2>3 DEF OpsInv, Ops!SpendsAsTold
  <2> QED
    BY <1>1, <1>3, <2>1, <2>2, <2>4, AsBefore DEF OpsInv
<1> QED
  BY <1>1, <1>5, <1>6

LEMMA FileStep == ASSUME OpsInv, Ops!FileOp PROVE OpsInv'
<1>1. PICK f \in files :
        /\ UNCHANGED <<wallets, dumps, current, job, pc, todo, shown, dest, tx, before>>
        /\ \/ Ops!Reads("Unsigned", f) /\ files' = files \union {Ops!NewColdSigned(f)}
           \/ Ops!Reads("ColdSigned", f) /\ files' = files \union {Ops!NewSubmitted(f)}
  BY DEF Ops!FileOp
<1>2. PICK g : files' = files \union {g} /\ (g = Ops!NewColdSigned(f) \/ (g = Ops!NewSubmitted(f) /\ Ops!Reads("ColdSigned", f)))
  BY <1>1
<1>3. DOMAIN f = {"ext", "id", "tx", "sign", "submit", "unsigned", "signed", "complete"}
  BY DEF OpsInv, FileStates
<1>4. /\ DOMAIN g = {"ext", "id", "tx", "sign", "submit", "unsigned", "signed", "complete"}
      /\ \/ g.ext = "sigtx" /\ g.sign /\ g.signed
         \/ g.ext = "subtx" /\ g.sign /\ g.signed
  <2>1. CASE g = Ops!NewColdSigned(f)
    BY <1>3, <2>1 DEF Ops!NewColdSigned
  <2>2. CASE g = Ops!NewSubmitted(f) /\ Ops!Reads("ColdSigned", f)
    <3>1. f.sign /\ f.signed
      BY <2>2 DEF Ops!Reads
    <3>2. g.ext = "subtx" /\ g.sign = f.sign /\ g.signed = f.signed /\ DOMAIN g = DOMAIN f
      BY <1>3, <2>2 DEF Ops!NewSubmitted
    <3> QED
      BY <1>3, <3>1, <3>2
  <2> QED
    BY <1>2, <2>1, <2>2
<1>5. FileStates'
  BY <1>2, <1>4 DEF OpsInv, FileStates
<1> QED
  BY <1>1, <1>5, Still

(* One wallet after another: there was none where one is made.             *)
LEMMA TurnOf ==
    ASSUME Ops!OpsAssumption, OpsInv, pc \in Making
    PROVE  /\ Head(todo) \in Ops!Needed(job) /\ Head(todo) \in Ops!Walls /\ Tail(todo) \in Seq(Ops!Needed(job))
           /\ \A v : (\E i \in DOMAIN todo : todo[i] = v)
                     => v = Head(todo) \/ \E i \in DOMAIN Tail(todo) : Tail(todo)[i] = v
<1>1. job \in Jobs /\ todo \in Seq(Ops!Needed(job)) /\ todo # <<>>
  BY DEF OpsInv, OpsTyped, InTurn, Making
<1>2. Head(todo) \in Ops!Needed(job) /\ Tail(todo) \in Seq(Ops!Needed(job))
  BY <1>1
<1>3. Ops!Needed(job) \subseteq Ops!Walls
  BY <1>1, JobOf
<1>4. ASSUME NEW v, NEW i \in DOMAIN todo, todo[i] = v
      PROVE  v = Head(todo) \/ \E k \in DOMAIN Tail(todo) : Tail(todo)[k] = v
  <2>1. Len(todo) \in Nat /\ Len(todo) > 0 /\ i \in 1 .. Len(todo) /\ Len(Tail(todo)) = Len(todo) - 1
    BY <1>1, <1>4
  <2>2. CASE i = 1
    BY <1>1, <1>4, <2>2
  <2>3. CASE i # 1
    <3>1. i - 1 \in 1 .. Len(Tail(todo))
      BY <2>1, <2>3
    <3>2. Tail(todo)[i - 1] = todo[i]
      BY <1>1, <2>1, <2>3
    <3>3. i - 1 \in DOMAIN Tail(todo)
      BY <1>2, <3>1
    <3> QED
      BY <1>4, <3>2, <3>3
  <2> QED
    BY <2>2, <2>3
<1> QED
  BY <1>2, <1>3, <1>4

LEMMA OnlyNew ==
    ASSUME OpsInv, NEW v \in Ops!Walls, NEW e \in Ops!Data, before[v] = <<>>,
           wallets' = [wallets EXCEPT ![v] = e], before' = before, job' = job
    PROVE  wallets' \in [Ops!Walls -> Ops!Data] /\ wallets'[v] = e /\ Ops!KeepsAddresses'
<1>1. wallets' \in [Ops!Walls -> Ops!Data] /\ \A u \in Ops!Walls : wallets'[u] = IF u = v THEN e ELSE wallets[u]
  BY DEF OpsInv, OpsTyped
<1>2. DOMAIN before' = Ops!Walls /\ Ops!Source' = Ops!Source
  BY DEF OpsInv, OpsTyped, Ops!Source
<1>3. \A u \in DOMAIN before' : before'[u] # <<>> => before'[u] = before[u] /\ u \in DOMAIN before /\ wallets'[u] = wallets[u]
  BY <1>1, <1>2
<1>4. Ops!KeepsAddresses'
  BY <1>2, <1>3 DEF OpsInv, Ops!KeepsAddresses, Ops!Added
<1> QED
  BY <1>1, <1>4

(* A step of the making of wallets.                                        *)
LEMMA Makes ==
    ASSUME OpsInv, pc \in Making, UNCHANGED <<job, before, tx, files>>, OpsTyped', Ops!KeepsAddresses', InTurn', Ops!RestoredAsDumped',
           pc' \in Making \union {"done", "died"}
    PROVE  OpsInv'
<1>1. tx' = Ops!NoTx
  BY DEF OpsInv, Unmade
<1>2. Unmade' /\ OnSource' /\ ReadyToMake'
  BY <1>1 DEF Unmade, OnSource, ReadyToMake, Early, Making
<1> QED
  BY <1>1, <1>2, NothingMade DEF OpsInv, FileStates

LEMMA FreshOne == ASSUME Ops!OpsAssumption PROVE Ops!Fresh \in Ops!Data /\ Len(Ops!Fresh) = 1
<1>1. PICK l \in Labels : l = "Primary account"
  BY DEF Ops!OpsAssumption
<1>2. PICK s \in Seq(Labels) \ {<<>>} : s = <<l>>
  <2>1. <<l>> \in Seq(Labels) /\ <<l>> # <<>>
    OBVIOUS
  <2> QED
    BY <2>1
<1>3. Ops!Fresh = <<s>>
  BY <1>1, <1>2 DEF Ops!Fresh
<1> QED
  BY <1>3 DEF Ops!Data

LEMMA CreateStep == ASSUME Ops!OpsAssumption, OpsInv, Ops!CreateOp \/ Ops!DumpOp PROVE OpsInv'
<1>1. /\ pc = "process" /\ job.op \in {"create", "dump"} /\ todo' = Tail(todo) /\ pc' = IF todo' = <<>> THEN "done" ELSE "process"
      /\ UNCHANGED <<job, before, tx, files, shown>>
      /\ \/ job.op = "create" /\ wallets' = [wallets EXCEPT ![Head(todo)] = Ops!Fresh] /\ UNCHANGED dumps
         \/ job.op = "dump" /\ dumps' = [dumps EXCEPT ![Head(todo)] = wallets[Head(todo)]] /\ UNCHANGED wallets
  BY DEF Ops!CreateOp, Ops!DumpOp, Ops!Processed, Ops!Fixed, Ops!w0
<1>2. /\ Head(todo) \in Ops!Needed(job) /\ Head(todo) \in Ops!Walls /\ todo' \in Seq(Ops!Needed(job))
      /\ job.op # "dump" => \A v \in Ops!Needed(job) : before[v] = <<>>
  BY <1>1, TurnOf DEF OpsInv, InTurn, Making
<1>3. wallets' \in [Ops!Walls -> Ops!Data] /\ dumps' \in [Ops!Walls -> Ops!Data] /\ Ops!KeepsAddresses'
  <2>1. CASE job.op = "create"
    <3>1. Ops!Fresh \in Ops!Data
      BY FreshOne
    <3> QED
      BY <1>1, <1>2, <2>1, <3>1, OnlyNew DEF OpsInv, OpsTyped
  <2>2. CASE job.op = "dump"
    BY <1>1, <1>2, <2>2, AsBefore DEF OpsInv, OpsTyped
  <2> QED
    BY <1>1, <2>1, <2>2
<1>4. OpsTyped'
  BY <1>1, <1>3 DEF OpsInv, OpsTyped, Ended, Making
<1>5. InTurn' /\ Ops!RestoredAsDumped'
  <2>1. Ops!Needed(job)' = Ops!Needed(job)
    BY <1>1 DEF Ops!Needed
  <2> QED
    BY <1>1, <1>2, <2>1, NotRestored DEF InTurn, Making
<1> QED
  BY <1>1, <1>3, <1>4, <1>5, Makes DEF Making

LEMMA RestoreStep == ASSUME Ops!OpsAssumption, OpsInv, Ops!RestoreNew PROVE OpsInv'
<1> DEFINE v0 == Head(todo)
<1>1. /\ pc = "process" /\ job.op = "restore" /\ UNCHANGED <<job, before, tx, files, todo, dumps>>
      /\ wallets' = [wallets EXCEPT ![v0] = Ops!Fresh] /\ current' = v0
      /\ \/ pc' = "died" /\ shown' = shown
         \/ pc' = "accounts" /\ shown' = Ops!DumpFor(v0) /\ Ops!DumpFor(v0) # <<>>
  BY DEF Ops!RestoreNew, Ops!Fixed, Ops!End, Ops!Goto, Ops!w0
<1>2. /\ v0 \in Ops!Needed(job) /\ v0 \in Ops!Walls /\ todo \in Seq(Ops!Needed(job)) /\ todo # <<>> /\ job \in Jobs
      /\ \A v \in Ops!Needed(job) : before[v] = <<>>
      /\ \A v \in Ops!Needed(job) : wallets[v] = Ops!DumpFor(v) \/ \E i \in DOMAIN todo : todo[i] = v
  BY <1>1, TurnOf DEF OpsInv, InTurn, Making, OpsTyped
<1>3. Ops!Fresh \in Ops!Data /\ Len(Ops!Fresh) = 1
  BY FreshOne
<1>4. wallets' \in [Ops!Walls -> Ops!Data] /\ wallets'[v0] = Ops!Fresh /\ Ops!KeepsAddresses'
  BY <1>1, <1>2, <1>3, OnlyNew
<1>5. Ops!DumpFor(v0) \in Ops!Data
  <2>1. <<v0[1], TRUE>> \in Ops!Walls /\ <<v0[1], FALSE>> \in Ops!Walls
    BY <1>2 DEF Ops!OpsAssumption
  <2> QED
    BY <2>1 DEF Ops!DumpFor, OpsInv, OpsTyped
<1>6. OpsTyped'
  BY <1>1, <1>4, <1>5 DEF OpsInv, OpsTyped, Ended, Making
<1>7. 1 \in DOMAIN todo /\ todo[1] = v0
  BY <1>2
<1>8. InTurn'
  <2>1. Ops!Needed(job)' = Ops!Needed(job) /\ \A v : Ops!DumpFor(v)' = Ops!DumpFor(v)
    BY <1>1 DEF Ops!Needed, Ops!DumpFor
  <2>2. \A v \in Ops!Needed(job) : wallets'[v] = Ops!DumpFor(v) \/ \E i \in DOMAIN todo : todo[i] = v
    <3>1. ASSUME NEW v \in Ops!Needed(job), v # v0
          PROVE  wallets'[v] = wallets[v]
      BY <1>1, <1>2, <3>1, JobOf DEF OpsInv, OpsTyped
    <3> QED
      BY <1>2, <1>7, <3>1
  <2> QED
    BY <1>1, <1>2, <1>3, <1>4, <2>1, <2>2 DEF InTurn, Making
<1> QED
  BY <1>1, <1>4, <1>6, <1>8, Makes, NotRestored DEF Making

(* What the steps of a restoration find and do.                            *)
LEMMA Restores ==
    ASSUME Ops!OpsAssumption, OpsInv, pc \in Making \ {"process", "check"}, pc' \in Making \ {"process"},
           UNCHANGED <<job, before, tx, files, todo, dumps, shown, current>>,
           NEW e \in Ops!Data, wallets' = [wallets EXCEPT ![current] = e],
           pc' # "accounts", pc' = "subaddresses" => DOMAIN e = DOMAIN shown
    PROVE  OpsInv'
<1>1. /\ job.op = "restore" /\ current = Head(todo) /\ shown = Ops!DumpFor(current) /\ shown # <<>>
      /\ current \in Ops!Needed(job) /\ current \in Ops!Walls /\ todo \in Seq(Ops!Needed(job)) /\ todo # <<>> /\ job \in Jobs
      /\ \A v \in Ops!Needed(job) : before[v] = <<>>
      /\ \A v \in Ops!Needed(job) : wallets[v] = Ops!DumpFor(v) \/ \E i \in DOMAIN todo : todo[i] = v
  BY TurnOf DEF OpsInv, InTurn, Making, OpsTyped
<1>2. wallets' \in [Ops!Walls -> Ops!Data] /\ wallets'[current] = e /\ Ops!KeepsAddresses'
  BY <1>1, OnlyNew
<1>3. OpsTyped'
  BY <1>1, <1>2 DEF OpsInv, OpsTyped
<1>4. 1 \in DOMAIN todo /\ todo[1] = current
  BY <1>1
<1>5. InTurn'
  <2>1. Ops!Needed(job)' = Ops!Needed(job) /\ \A v : Ops!DumpFor(v)' = Ops!DumpFor(v)
    BY DEF Ops!Needed, Ops!DumpFor
  <2>2. \A v \in Ops!Needed(job) : wallets'[v] = Ops!DumpFor(v) \/ \E i \in DOMAIN todo : todo[i] = v
    <3>1. ASSUME NEW v \in Ops!Needed(job), v # current
          PROVE  wallets'[v] = wallets[v]
      BY <1>1, <3>1, JobOf DEF OpsInv, OpsTyped
    <3> QED
      BY <1>1, <1>4, <3>1
  <2> QED
    BY <1>1, <1>2, <2>1, <2>2 DEF InTurn, Making
<1> QED
  BY <1>1, <1>2, <1>3, <1>5, Makes, NotRestored DEF Making

LEMMA AccountsStep == ASSUME Ops!OpsAssumption, OpsInv, Ops!restore_accounts PROVE OpsInv'
<1> DEFINE more == [a \in 1 .. Len(shown) - 1 |-> <<"">>]
<1>1. /\ pc = "accounts" /\ pc' = "subaddresses" /\ UNCHANGED <<job, before, tx, files, todo, dumps, shown, current>>
      /\ wallets' = [wallets EXCEPT ![current] = wallets[current] \o more]
  BY DEF Ops!restore_accounts, Ops!Fixed, Ops!Goto
<1>2. current \in Ops!Walls /\ shown \in Ops!Data /\ shown # <<>> /\ Len(wallets[current]) = 1
  BY <1>1, TurnOf DEF OpsInv, OpsTyped, InTurn, Making
<1>3. PICK d \in Ops!Data : d = wallets[current] /\ Len(d) = 1 /\ d \in Seq(Seq(Labels) \ {<<>>})
  BY <1>2 DEF OpsInv, OpsTyped, Ops!Data
<1>4. PICK n \in Nat : n = Len(shown) /\ n > 0 /\ DOMAIN shown = 1 .. n
  BY <1>2, Accounts
<1>5. PICK l \in Seq(Labels) \ {<<>>} : l = <<"">>
  <2>1. PICK k \in Labels : k = ""
    BY DEF Ops!OpsAssumption
  <2>2. <<k>> \in Seq(Labels) /\ <<k>> # <<>>
    OBVIOUS
  <2> QED
    BY <2>1, <2>2
<1>6. more \in Seq(Seq(Labels) \ {<<>>}) /\ Len(more) = n - 1
  <2>1. more = [a \in 1 .. n - 1 |-> l]
    BY <1>4, <1>5
  <2>2. PICK m \in Nat : m = n - 1
    BY <1>4
  <2>3. more \in [1 .. m -> Seq(Labels) \ {<<>>}]
    BY <1>5, <2>1, <2>2
  <2> HIDE DEF more
  <2> QED
    BY <2>2, <2>3
<1> HIDE DEF more
<1>7. PICK e \in Ops!Data : e = d \o more /\ Len(e) = n
  <2>1. PICK S : S = Seq(Labels) \ {<<>>}
    OBVIOUS
  <2>2. d \in Seq(S) /\ more \in Seq(S)
    BY <1>3, <1>6, <2>1
  <2>3. d \o more \in Seq(S) /\ Len(d \o more) = Len(d) + Len(more)
    BY <2>2
  <2>4. d \o more \in Ops!Data
    BY <2>1, <2>3 DEF Ops!Data
  <2>5. Len(d \o more) = n
    BY <1>3, <1>4, <1>6, <2>3
  <2> QED
    BY <2>4, <2>5
<1>8. DOMAIN e = DOMAIN shown
  BY <1>4, <1>7, Accounts
<1> QED
  BY <1>1, <1>3, <1>7, <1>8, Restores DEF Making

LEMMA SubaddressesStep == ASSUME Ops!OpsAssumption, OpsInv, Ops!restore_subaddresses PROVE OpsInv'
<1> DEFINE d == wallets[current]
           more(a) == [i \in 1 .. Len(shown[a]) - 1 |-> ""]
           e == [a \in DOMAIN d |-> d[a] \o more(a)]
<1>1. /\ pc = "subaddresses" /\ pc' = "labels" /\ UNCHANGED <<job, before, tx, files, todo, dumps, shown, current>>
      /\ wallets' = [wallets EXCEPT ![current] = e]
  BY DEF Ops!restore_subaddresses, Ops!Fixed, Ops!Goto
<1>2. current \in Ops!Walls /\ d \in Ops!Data /\ shown \in Ops!Data /\ DOMAIN d = DOMAIN shown
  BY <1>1, TurnOf DEF OpsInv, OpsTyped, InTurn, Making
<1>3. PICK k \in Labels : k = ""
  BY DEF Ops!OpsAssumption
<1>4. ASSUME NEW a \in DOMAIN d PROVE d[a] \o more(a) \in Seq(Labels) \ {<<>>}
  <2>1. PICK n \in Nat : n = Len(shown[a]) /\ n > 0
    BY <1>2, <1>4, Accounts
  <2>2. more(a) = [i \in 1 .. n - 1 |-> k]
    BY <1>3, <2>1
  <2>3. more(a) \in Seq(Labels) /\ Len(more(a)) \in Nat
    <3>1. PICK m \in Nat : m = n - 1
      BY <2>1
    <3>2. more(a) \in [1 .. m -> Labels]
      BY <2>2, <3>1
    <3> HIDE DEF more
    <3> QED
      BY <3>2
  <2>4. PICK s \in Seq(Labels) : s = d[a] /\ Len(s) \in Nat /\ Len(s) > 0
    BY <1>2, <1>4, Accounts
  <2> HIDE DEF more
  <2>5. s \o more(a) \in Seq(Labels) /\ Len(s \o more(a)) = Len(s) + Len(more(a))
    BY <2>3, <2>4
  <2>6. Len(s \o more(a)) > 0
    BY <2>3, <2>4, <2>5
  <2> QED
    BY <2>4, <2>5, <2>6
<1>5. e \in Ops!Data
  <2>1. Len(d) \in Nat /\ DOMAIN d = 1 .. Len(d)
    BY <1>2, Accounts
  <2>2. e \in [1 .. Len(d) -> Seq(Labels) \ {<<>>}]
    BY <1>4, <2>1
  <2> HIDE DEF e, d
  <2> QED
    BY <2>1, <2>2 DEF Ops!Data
<1> HIDE DEF e
<1> QED
  BY <1>1, <1>5, Restores DEF Making

LEMMA LabelsStep == ASSUME Ops!OpsAssumption, OpsInv, Ops!restore_labels PROVE OpsInv'
<1> DEFINE d == wallets[current]
           Relabelled(a) == [i \in DOMAIN d[a] |-> IF a \in DOMAIN shown /\ i \in DOMAIN shown[a] THEN shown[a][i] ELSE d[a][i]]
           e == [a \in DOMAIN d |-> Relabelled(a)]
<1>1. /\ pc = "labels" /\ pc' = "check" /\ UNCHANGED <<job, before, tx, files, todo, dumps, shown, current>>
      /\ wallets' = [wallets EXCEPT ![current] = e]
  BY DEF Ops!restore_labels, Ops!Fixed, Ops!Goto
<1>2. current \in Ops!Walls /\ d \in Ops!Data /\ shown \in Ops!Data
  BY <1>1, TurnOf DEF OpsInv, OpsTyped, InTurn, Making
<1>3. ASSUME NEW a \in DOMAIN d PROVE Relabelled(a) \in Seq(Labels) \ {<<>>}
  <2>1. PICK s \in Seq(Labels) : s = d[a] /\ Len(s) \in Nat /\ Len(s) > 0 /\ DOMAIN s = 1 .. Len(s)
    BY <1>2, <1>3, Accounts
  <2>2. ASSUME NEW i \in DOMAIN s
        PROVE  (IF a \in DOMAIN shown /\ i \in DOMAIN shown[a] THEN shown[a][i] ELSE s[i]) \in Labels
    <3>1. CASE a \in DOMAIN shown /\ i \in DOMAIN shown[a]
      <4>1. shown[a] \in Seq(Labels)
        BY <1>2, <3>1, Accounts
      <4> QED
        BY <3>1, <4>1
    <3>2. CASE ~(a \in DOMAIN shown /\ i \in DOMAIN shown[a])
      BY <2>1, <2>2, <3>2
    <3> QED
      BY <3>1, <3>2
  <2>3. Relabelled(a) \in [1 .. Len(s) -> Labels]
    BY <2>1, <2>2
  <2> HIDE DEF Relabelled
  <2>4. Relabelled(a) \in Seq(Labels) /\ Len(Relabelled(a)) = Len(s)
    BY <2>1, <2>3
  <2> QED
    BY <2>1, <2>4
<1>4. e \in Ops!Data
  <2>1. Len(d) \in Nat /\ DOMAIN d = 1 .. Len(d)
    BY <1>2, Accounts
  <2>2. e \in [1 .. Len(d) -> Seq(Labels) \ {<<>>}]
    BY <1>3, <2>1
  <2> HIDE DEF e, d
  <2> QED
    BY <2>1, <2>2 DEF Ops!Data
<1> HIDE DEF e
<1> QED
  BY <1>1, <1>4, Restores DEF Making

LEMMA CheckStep == ASSUME Ops!OpsAssumption, OpsInv, Ops!check_restored_data PROVE OpsInv'
<1>1. /\ pc = "check" /\ UNCHANGED <<job, before, tx, files, wallets, dumps, shown, current>>
      /\ \/ wallets[current] = shown /\ todo' = Tail(todo) /\ pc' = IF todo' = <<>> THEN "done" ELSE "process"
         \/ pc' = "died"
  BY DEF Ops!check_restored_data, Ops!Fixed, Ops!End, Ops!Processed
<1>2. FileStates'
  BY <1>1 DEF OpsInv, FileStates
<1>3. CASE pc' = "died"
  BY <1>1, <1>2, <1>3, Ends
<1>4. CASE wallets[current] = shown /\ todo' = Tail(todo) /\ pc' = IF todo' = <<>> THEN "done" ELSE "process"
  <2>1. /\ job.op = "restore" /\ current = Head(todo) /\ shown = Ops!DumpFor(current) /\ todo' \in Seq(Ops!Needed(job))
        /\ \A v \in Ops!Needed(job) : before[v] = <<>>
        /\ \A v \in Ops!Needed(job) : wallets[v] = Ops!DumpFor(v) \/ \E i \in DOMAIN todo : todo[i] = v
    BY <1>1, <1>4, TurnOf DEF OpsInv, InTurn, Making
  <2>2. \A v \in Ops!Needed(job) : wallets[v] = Ops!DumpFor(v) \/ \E i \in DOMAIN todo' : todo'[i] = v
    BY <1>1, <1>4, <2>1, TurnOf DEF Making
  <2>3. Ops!Needed(job)' = Ops!Needed(job) /\ \A v : Ops!DumpFor(v)' = Ops!DumpFor(v)
    BY <1>1 DEF Ops!Needed, Ops!DumpFor
  <2>4. OpsTyped'
    BY <1>1, <1>4 DEF OpsInv, OpsTyped, Making, Ended
  <2>5. InTurn'
    BY <1>1, <1>4, <2>1, <2>2, <2>3 DEF InTurn, Making
  <2>6. Ops!RestoredAsDumped'
    <3> SUFFICES ASSUME pc' = "done" PROVE \A v \in Ops!Needed(job) : wallets[v] = Ops!DumpFor(v)
      BY <1>1, <2>3 DEF Ops!RestoredAsDumped
    <3>1. todo' = <<>>
      BY <1>4
    <3> QED
      BY <2>2, <3>1
  <2>7. Ops!KeepsAddresses'
    BY <1>1, AsBefore DEF OpsInv
  <2> QED
    BY <1>1, <1>4, <2>4, <2>5, <2>6, <2>7, Makes DEF Making
<1> QED
  BY <1>1, <1>3, <1>4

LEMMA OtherStep == ASSUME Ops!OpsAssumption, OpsInv, Ops!Decline \/ Ops!relay_tx \/ Ops!Fail PROVE OpsInv'
<1>1. /\ UNCHANGED <<wallets, dumps, job, before, tx, shown, files>> /\ pc # "idle"
      /\ pc' = "died" \/ (pc' = "done" /\ pc \in {"dest", "dest?", "new", "label", "relay"})
  BY DEF Ops!Decline, Ops!relay_tx, Ops!Fail, Ops!End, Ops!Rest
<1>2. FileStates'
  BY <1>1 DEF OpsInv, FileStates
<1>3. pc \in {"dest", "dest?", "new", "label", "relay"} => job.op # "restore"
  BY DEF OpsInv, OnSource, Early, Ops!SpecOps, Ops!Sweeps
<1> QED
  BY <1>1, <1>2, <1>3, Ends

(* The commands keep the invariant, and so what they promise.              *)
LEMMA OpsStep == ASSUME Ops!OpsAssumption, OpsInv, [Ops!Next]_(Ops!opVars) PROVE OpsInv'
<1>1. CASE UNCHANGED Ops!opVars
  <2>1. UNCHANGED <<wallets, dumps, current, job, pc, todo, shown, dest, tx, before, files>>
    BY <1>1 DEF Ops!opVars
  <2>2. FileStates'
    BY <2>1 DEF OpsInv, FileStates
  <2> QED
    BY <2>1, <2>2, Still
<1>2. CASE Ops!Next
  BY <1>2, BeginStep, OpenStep, NewStep, LabelStep, SameStep, WalletStep, OpenDestStep, AccountStep, MakeStep, WriteStep,
     FileStep, CreateStep, RestoreStep, AccountsStep, SubaddressesStep, LabelsStep, CheckStep, OtherStep DEF Ops!Next
<1> QED
  BY <1>1, <1>2

LEMMA ReadOnce == ASSUME FileStates PROVE Ops!ReadByOne
<1> SUFFICES ASSUME NEW f \in files
             PROVE  \E c \in Ops!Classes : Ops!Reads(c, f) /\ \A d \in Ops!Classes : Ops!Reads(d, f) => c = d
  BY DEF Ops!ReadByOne
<1>1. CASE f.ext = "rawtx" /\ f.unsigned /\ ~f.sign /\ ~f.signed
  <2>1. Ops!Reads("Unsigned", f) /\ \A d \in Ops!Classes : Ops!Reads(d, f) => "Unsigned" = d
    BY <1>1 DEF Ops!Reads, Ops!Classes
  <2> QED
    BY <2>1 DEF Ops!Classes
<1>2. CASE f.ext = "sigtx" /\ f.sign /\ ~f.signed /\ ~f.unsigned
  <2>1. Ops!Reads("Signed", f) /\ \A d \in Ops!Classes : Ops!Reads(d, f) => "Signed" = d
    BY <1>2 DEF Ops!Reads, Ops!Classes
  <2> QED
    BY <2>1 DEF Ops!Classes
<1>3. CASE f.ext = "sigtx" /\ f.sign /\ f.signed
  <2>1. Ops!Reads("ColdSigned", f) /\ \A d \in Ops!Classes : Ops!Reads(d, f) => "ColdSigned" = d
    BY <1>3 DEF Ops!Reads, Ops!Classes
  <2> QED
    BY <2>1 DEF Ops!Classes
<1>4. CASE f.ext = "subtx" /\ f.sign /\ f.signed
  <2>1. Ops!Reads("Submitted", f) /\ \A d \in Ops!Classes : Ops!Reads(d, f) => "Submitted" = d
    BY <1>4 DEF Ops!Reads, Ops!Classes
  <2> QED
    BY <2>1 DEF Ops!Classes
<1> QED
  BY <1>1, <1>2, <1>3, <1>4 DEF FileStates

(* Whatever the commands are, in whatever order and wherever they fail: a  *)
(* transaction is made by the wallet, and goes to the address, that the    *)
(* user told, and sweep_all leaves no address out; no address is lost and  *)
(* no other label changed; what is restored is what was dumped; and every  *)
(* transaction file can be read by the one operation that is next for it.  *)
THEOREM OpsAsTold == ASSUME Ops!OpsAssumption PROVE Ops!Spec => []Ops!OpsRight
<1>1. Ops!Init => OpsInv
  BY OpsStart
<1>2. OpsInv /\ [Ops!Next]_(Ops!opVars) => OpsInv'
  BY OpsStep
<1>3. OpsInv => Ops!OpsRight
  BY ReadOnce DEF OpsInv, Ops!OpsRight
<1> QED
  BY <1>1, <1>2, <1>3, PTL DEF Ops!Spec

(* The same of the commands as the run composes them (MCMonero), for any   *)
(* commands and wallets: a command beside which no other runs is served by *)
(* its own daemon, and each does with the wallets what it was told.        *)
HostInv == DaemonInv /\ (subject = "ops" => OpsInv)

THEOREM CommandsAsTold == MCSpec => []CommandsRight
<1>1. MCInit => HostInv
  <2>1. Daemon!Init => DaemonInv
    BY DaemonConstants DEF Daemon!Init, DaemonInv, DaemonTyped, FoundAlone, Daemon!Running
  <2>2. subject = "ops" /\ MCInit => Ops!Init
    BY DEF MCInit
  <2> QED
    BY <2>1, <2>2, OpsStart, OpsConstants DEF MCInit, HostInv
<1>2. HostInv /\ [MCNext]_<<subject, vars, commandVars, hosted>> => HostInv'
  <2> SUFFICES ASSUME HostInv, [MCNext]_<<subject, vars, commandVars, hosted>> PROVE HostInv'
    OBVIOUS
  <2>1. subject' = subject
    BY DEF MCNext
  <2>2. [Daemon!Next]_Daemon!vars
    BY DEF MCNext, commandVars, Daemon!vars, Daemon!daemonVars, Daemon!envVars
  <2>3. subject = "ops" => [Ops!Next]_(Ops!opVars)
    BY DEF MCNext, hosted, Ops!opVars
  <2>4. DaemonInv'
    BY <2>2, DaemonNext, DaemonConstants DEF HostInv
  <2>5. subject = "ops" => OpsInv'
    BY <2>3, OpsStep, OpsConstants DEF HostInv
  <2> QED
    BY <2>1, <2>4, <2>5 DEF HostInv
<1>3. HostInv => CommandsRight
  <2>1. DaemonInv => Daemon!OwnDaemon
    BY DEF DaemonInv, FoundAlone, Daemon!OwnDaemon
  <2>2. OpsInv => Ops!OpsRight
    BY ReadOnce DEF OpsInv, Ops!OpsRight
  <2> QED
    BY <2>1, <2>2 DEF HostInv, CommandsRight
<1> QED
  BY <1>1, <1>2, <1>3, PTL DEF MCSpec
=============================================================================
