----------------------------- MODULE TxAutosign -----------------------------
(***************************************************************************)
(* The transaction pipeline: online commands and the offline signer share  *)
(* nothing but the removable device, and either side can die at any step.  *)
(***************************************************************************)
EXTENDS OnlineTx, OfflineSign

CONSTANTS
    MaxFaults   \* bound on kills and power failures

ASSUME AutosignAssumption == MaxFaults \in Nat

VARIABLES faults

vars == <<deviceVars, onlineVars, offlineVars, faults>>

TypeOK == DeviceTypeOK /\ OnlineTypeOK /\ OfflineTypeOK /\ faults \in Nat

Init == DeviceInit /\ OnlineInit /\ OfflineInit /\ faults = 0

Online ==
    /\ \/ \E p \in Procs : Command(p) \/ Progress(p)
       \/ \E t \in Tx : Confirmed(t)
    /\ UNCHANGED <<offlineVars, faults>>

Offline ==
    /\ StartSign \/ Signing \/ StartClean \/ Cleaning
    /\ UNCHANGED <<onlineVars, faults>>

CarryDevice == \E to \in Host : Carry(to) /\ UNCHANGED <<onlineVars, offlineVars, faults>>

Fault ==
    /\ faults < MaxFaults
    /\ faults' = faults + 1
    /\ \/ (OnlinePowerLoss \/ \E p \in Procs : Kill(p)) /\ UNCHANGED offlineVars
       \/ OfflinePowerLoss /\ UNCHANGED onlineVars

Next == Online \/ Offline \/ CarryDevice \/ Fault

Spec == Init /\ [][Next]_vars

----------------------------------------------------------------------------

InFlight == UnsentRaw \union Unsent

(* At most one transaction is between creation and sending, whatever dies  *)
(* in the middle of creating, signing, sending, aborting or cleaning, as   *)
(* long as one terminal is used at a time.  check_create_ok() alone keeps  *)
(* it so; sign_all(), get_unsent() and get_abortable() give up without it. *)
OneInFlight == \A t, u \in InFlight : t = u

(* A transaction with a sent record is never listed as unsigned again, so  *)
(* never signed again: clean_old_files() must not let a signed file go     *)
(* before the raw file it answers, wherever it is interrupted.  (A part of *)
(* what Lifecycle says.)                                                   *)
SentNotUnsigned == Submitted \intersect Unsigned = {}

(* What is in flight was created after everything sent, so that the newest *)
(* creation time among the sent files, which get_last_created() goes by,   *)
(* is that of the transaction sent last.                                   *)
NewestLast == \A t \in InFlight, u \in Submitted \ InFlight : stamp[u] < stamp[t]

(* Every sent record stands for a transaction the network took or the user *)
(* declared sent with --mark-sent, whoever else uses the device meanwhile. *)
SentIsTrue == \A t \in Submitted : net[t] # "unseen" \/ t \in claimed

(* No command of either machine ever removes a sent record.                *)
SentStaysSent == [][Submitted \subseteq Submitted']_vars

(* No command overwrites or truncates a sent record that was written whole:*)
(* only a power failure before the next sync can damage it.                *)
SentRecordKept ==
    [][\A t \in Tx : sub[t] = "full" /\ <<"sub", t>> \notin unsynced => sub'[t] = "full"]_vars

Quiet == cl = "idle" /\ sg = "idle" /\ \A p \in Procs : pc[p] = "idle"

(* Without crashes the user always has a way on: while no command runs,    *)
(* the transaction in flight can be aborted, or its signed file can be     *)
(* read so that it can be sent or marked sent.                             *)
WayOut == Quiet /\ faults = 0 => \A t \in InFlight : Abortable(t) \/ sig[t] = "full"

(* --abort is refused only if no unsent transaction is on the device       *)
(* ("The transaction may be signed or unsigned").                          *)
AbortAvailable == \A p \in Procs : reply[p] = "abort_refused" => InFlight = {}

----------------------------------------------------------------------------
(* The promise of TxLifecycle.  The stage of a transaction is read off the *)
(* device as the commands do: what is listed as unsigned is up for signing,*)
(* and what is listed as unsent for sending, whatever other files it has.  *)

lifeBar == [t \in Tx |-> IF t \in Unsigned THEN "unsigned"
                         ELSE IF t \in Unsent THEN "signed"
                         ELSE IF t \in Submitted THEN "sent"
                         ELSE "none"]

Life == INSTANCE TxLifecycle WITH life <- lifeBar

(* With one terminal in use, every step of every command, crash or power   *)
(* failure moves one transaction one stage on in TxLifecycle, or none.  So *)
(* nothing that was sent is unsigned again, though clean_old_files() may   *)
(* be cut short between shredding the raw file and the signed one.         *)
Lifecycle == Life!LifeSpec

----------------------------------------------------------------------------
(* Fairness: both machines run on, the operator plugs the device in where  *)
(* it is awaited again and again, and the wait loop notices an insertion.  *)
FairSpec ==
    /\ Spec
    /\ WF_vars(Signing /\ UNCHANGED <<onlineVars, faults>>)
    /\ WF_vars(Cleaning /\ UNCHANGED <<onlineVars, faults>>)
    /\ \A p \in Procs : WF_vars(Progress(p) /\ UNCHANGED <<offlineVars, faults>>)
    /\ SF_vars(StartSign /\ UNCHANGED <<onlineVars, faults>>)
    /\ SF_vars(Carry("offline") /\ UNCHANGED <<onlineVars, offlineVars, faults>>)

(* A transaction waiting on the device, for which the wallet has keys, is  *)
(* eventually signed, or aborted, unless a command is killed or a power    *)
(* failure comes between: the device is then left for the user to unmount. *)
EventuallySigned ==
    \A t \in Tx \ NoKeys : (Unsigned = {t} /\ raw[t] = "full") ~> (sig[t] = "full" \/ raw[t] # "full" \/ faults > 0)

=============================================================================
