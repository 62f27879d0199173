--------------------------- MODULE AutosignDevice ---------------------------
(***************************************************************************)
(* The removable device that carries transactions between the online       *)
(* machine and the offline signing machine (mmgen/autosign.py).  A         *)
(* transaction is known by its file name; its life is told by which of     *)
(* three files exist: <name>.arawtx (created), <name>.asigtx (signed) and  *)
(* <name>.asubtx (sent).  Nothing else on the device or in either program  *)
(* records the state of a transaction.                                     *)
(***************************************************************************)
EXTENDS FiniteSets, Naturals

CONSTANTS
    Tx,       \* transaction file names
    NoTx      \* "no transaction"

ASSUME TxAssumption == NoTx \notin Tx

VARIABLES
    raw, sig, sub,  \* content of each transaction's three files
    unsynced,       \* files written since the last sync, as <<extension, tx>>
    dev,            \* where the device is plugged in
    mnt             \* whether it is mounted there

deviceVars == <<raw, sig, sub, unsynced, dev, mnt>>
fileVars == <<raw, sig, sub, unsynced>>

(* "partial" is any file whose name exists but whose data cannot be parsed:*)
(* truncated by open(..., 'wb'), or being overwritten by shred.            *)
Content == {"absent", "partial", "full"}

Ext == {"raw", "sig", "sub"}

Host == {"online", "offline"}

Blank == [t \in Tx |-> "absent"]

Present(f) == {t \in Tx : f[t] # "absent"}

----------------------------------------------------------------------------
(* The directory listings every command is steered by.  They go by file    *)
(* name alone: the content is not looked at.                               *)

Unsigned == Present(raw) \ Present(sig)

Unsent == Present(sig) \ Present(sub)

UnsentRaw == Present(raw) \ Present(sub)

Submitted == Present(sub)

(* Mutants: check_create_ok() without one of its two tests.                *)
CreateOkIfSigned == Unsent = {}
CreateOkIfNotSigned == Unsigned = {}

CreateOk == Unsigned = {} /\ Unsent = {}

(* get_abortable(): one raw file without a sent record, and no signed file *)
(* without one other than its own.                                         *)
Abortable(t) == UnsentRaw = {t} /\ Unsent \subseteq {t}

----------------------------------------------------------------------------

DeviceTypeOK ==
    /\ raw \in [Tx -> Content]
    /\ sig \in [Tx -> Content]
    /\ sub \in [Tx -> Content]
    /\ unsynced \subseteq Ext \X Tx
    /\ dev \in Host
    /\ mnt \in BOOLEAN

DeviceInit ==
    /\ raw = Blank /\ sig = Blank /\ sub = Blank
    /\ unsynced = {}
    /\ dev = "online" /\ mnt = FALSE

(* write_data_to_file(): the open truncates, the write completes, into     *)
(* nothing if the file was removed meanwhile.                              *)
Open(f, t) == [f EXCEPT ![t] = "partial"]
Complete(f, t) == [f EXCEPT ![t] = IF @ = "absent" THEN "absent" ELSE "full"]

(* shred_file(): the data are overwritten in place, then the name removed. *)
Overwrite(f, t) == [f EXCEPT ![t] = "partial"]

(* Mutant: the name survives.                                              *)
RemoveNot(f, t) == [f EXCEPT ![t] = "shredded"]

Remove(f, t) == [f EXCEPT ![t] = "absent"]

Mounted(host) == mnt /\ dev = host

(* do_mount(): mounts unless already mounted.                              *)
Mount(host) == dev = host /\ mnt' = TRUE

(* do_umount(): sync, then umount, which fails while a file is open.       *)
Umount(host, busy) ==
    IF Mounted(host)
    THEN mnt' = busy /\ unsynced' = {}
    ELSE UNCHANGED <<mnt, unsynced>>

(* The user carries the device: "It is now safe to extract".               *)
Carry(to) ==
    /\ ~mnt /\ dev # to
    /\ dev' = to
    /\ UNCHANGED <<raw, sig, sub, unsynced, mnt>>

(* Power fails at the host: what was not synced keeps its name and may     *)
(* lose its data.                                                          *)
PowerLoss(host) ==
    \E lost \in SUBSET unsynced :
        LET after(e, f) == [t \in Tx |-> IF <<e, t>> \in lost /\ f[t] = "full"
                                         THEN "partial" ELSE f[t]]
        IN  /\ dev = host
            /\ raw' = after("raw", raw)
            /\ sig' = after("sig", sig)
            /\ sub' = after("sub", sub)
            /\ unsynced' = {}
            /\ mnt' = FALSE
            /\ UNCHANGED dev
=============================================================================
