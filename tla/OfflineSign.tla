---------------------------- MODULE OfflineSign ----------------------------
(***************************************************************************)
(* The offline machine: mmgen-autosign signing automount transactions, and *)
(* mmgen-autosign clean (which xmr_setup also runs).  The two are separate *)
(* processes: with OneAtATime FALSE one may be started beside the other.   *)
(***************************************************************************)
EXTENDS AutosignDevice

CONSTANTS
    NoKeys,     \* transactions the temporary wallet has no keys for
    OneAtATime  \* whether the operator waits for one to end before the other

ASSUME OfflineAssumption == NoKeys \subseteq Tx /\ OneAtATime \in BOOLEAN

VARIABLES
    sg,         \* where the signer is
    sgTx,       \* the transaction it is signing
    cl,         \* where the cleaner is
    pass,       \* clean_files() call in progress, 1 to 3
    clTodo,     \* its directory listing still to be visited
    clTx        \* the file being shredded

signVars == <<sg, sgTx>>
cleanVars == <<cl, pass, clTodo, clTx>>
offlineVars == <<signVars, cleanVars>>

OfflineTypeOK ==
    /\ sg \in {"idle", "sign", "wsig", "umount"}
    /\ sgTx \in Tx \union {NoTx}
    /\ cl \in {"idle", "visit", "erase", "umount"}
    /\ pass \in 1..3
    /\ clTodo \subseteq Tx
    /\ clTx \in Tx \union {NoTx}

OfflineInit ==
    /\ sg = "idle" /\ sgTx = NoTx
    /\ cl = "idle" /\ pass = 1 /\ clTodo = {} /\ clTx = NoTx

----------------------------------------------------------------------------
(* do_sign(), sign_all('automount_transaction')                            *)

(* Two or more unsigned transactions are refused: multiple_ok is False.    *)
StartSign ==
    /\ sg = "idle" /\ (OneAtATime => cl = "idle")
    /\ Mount("offline")
    /\ \/ \E t \in Tx : Unsigned = {t} /\ sg' = "sign" /\ sgTx' = t
       \/ /\ ~ \E t \in Tx : Unsigned = {t}
          /\ sg' = "umount" /\ sgTx' = NoTx
    /\ UNCHANGED <<fileVars, dev, cleanVars>>

CanSign == sgTx \notin NoKeys /\ raw[sgTx] = "full"

Sign ==
    /\ sg = "sign"
    /\ IF Mounted("offline") /\ CanSign
       THEN sig' = Open(sig, sgTx) /\ sg' = "wsig"
       ELSE sg' = "umount" /\ UNCHANGED sig
    /\ UNCHANGED <<raw, sub, unsynced, dev, mnt, sgTx, cleanVars>>

WroteSig ==
    /\ sg = "wsig"
    /\ sig' = Complete(sig, sgTx)
    /\ unsynced' = unsynced \union {<<"sig", sgTx>>}
    /\ sg' = "umount"
    /\ UNCHANGED <<raw, sub, dev, mnt, sgTx, cleanVars>>

SignUmount ==
    /\ sg = "umount"
    /\ Umount("offline", cl = "erase")
    /\ sg' = "idle" /\ sgTx' = NoTx
    /\ UNCHANGED <<raw, sig, sub, dev, cleanVars>>

----------------------------------------------------------------------------
(* clean_old_files(): clean_files(raw, sig), clean_files(raw, sub),        *)
(* clean_files(sig, sub), in that order.                                   *)

(* Mutant: the arguments of one call swapped.                              *)
CleanFilesSwapped == << <<"raw", "sig">>, <<"raw", "sub">>, <<"sub", "sig">> >>

(* Mutant: the calls in another order, signed files first.                 *)
CleanFilesSigFirst == << <<"sig", "sub">>, <<"raw", "sub">>, <<"raw", "sig">> >>

(* Which extension is shredded, and the extension whose presence dooms it. *)
CleanFiles == << <<"raw", "sig">>, <<"raw", "sub">>, <<"sig", "sub">> >>

Victim(n) == CleanFiles[n][1]
Keeper(n) == CleanFiles[n][2]

File(e) == CASE e = "raw" -> raw [] e = "sig" -> sig [] e = "sub" -> sub

SetFile(e, f) ==
    /\ raw' = IF e = "raw" THEN f ELSE raw
    /\ sig' = IF e = "sig" THEN f ELSE sig
    /\ sub' = IF e = "sub" THEN f ELSE sub

StartClean ==
    /\ cl = "idle" /\ (OneAtATime => sg = "idle")
    /\ Mount("offline")
    /\ cl' = "visit" /\ pass' = 1
    /\ clTodo' = Present(File(Keeper(1)))
    /\ clTx' = NoTx
    /\ UNCHANGED <<fileVars, dev, signVars>>

(* One file of the listing; its counterpart is shredded if it is there.    *)
Visit(t) ==
    /\ cl = "visit" /\ t \in clTodo
    /\ clTodo' = clTodo \ {t}
    /\ IF Mounted("offline") /\ File(Victim(pass))[t] # "absent"
       THEN cl' = "erase" /\ clTx' = t /\ SetFile(Victim(pass), Overwrite(File(Victim(pass)), t))
       ELSE UNCHANGED <<cl, clTx, raw, sig, sub>>
    /\ UNCHANGED <<unsynced, dev, mnt, pass, signVars>>

CleanErased ==
    /\ cl = "erase"
    /\ SetFile(Victim(pass), Remove(File(Victim(pass)), clTx))
    /\ cl' = "visit" /\ clTx' = NoTx
    /\ UNCHANGED <<unsynced, dev, mnt, pass, clTodo, signVars>>

(* The listing is used up; the next one fails if the device is unmounted.  *)
NextPass ==
    /\ cl = "visit" /\ clTodo = {} /\ pass < 3
    /\ IF Mounted("offline")
       THEN pass' = pass + 1 /\ clTodo' = Present(File(Keeper(pass + 1))) /\ UNCHANGED cl
       ELSE cl' = "idle" /\ UNCHANGED <<pass, clTodo>>
    /\ UNCHANGED <<deviceVars, clTx, signVars>>

CleanDone ==
    /\ cl = "visit" /\ clTodo = {} /\ pass = 3
    /\ cl' = "umount"
    /\ UNCHANGED <<deviceVars, pass, clTodo, clTx, signVars>>

CleanUmount ==
    /\ cl = "umount"
    /\ Umount("offline", sg = "wsig")
    /\ cl' = "idle"
    /\ UNCHANGED <<raw, sig, sub, dev, pass, clTodo, clTx, signVars>>

(* Power failure; the temporary wallet is set up anew before the next run. *)
OfflinePowerLoss ==
    /\ PowerLoss("offline")
    /\ sg' = "idle" /\ sgTx' = NoTx
    /\ cl' = "idle" /\ pass' = 1 /\ clTodo' = {} /\ clTx' = NoTx

Signing == Sign \/ WroteSig \/ SignUmount

Cleaning == (\E t \in Tx : Visit(t)) \/ CleanErased \/ NextPass \/ CleanDone \/ CleanUmount
=============================================================================
