------------------------- MODULE TxAutosign_proofs -------------------------
(***************************************************************************)
(* Invariance proofs for TxAutosign, for every set of transactions and     *)
(* terminals and any number of faults.                                     *)
(***************************************************************************)
EXTENDS TxAutosign, TLAPS

USE DEF deviceVars, fileVars, procVars, txVars, netVars, onlineVars, signVars, cleanVars,
        offlineVars

----------------------------------------------------------------------------
(* Type correctness.  TypeOK is inductive only together with the fact that *)
(* a process at work on a transaction has one.                             *)

AtWork == {"wraw", "send", "mark", "wsub", "confirm", "abort", "erase"}

Targets ==
    /\ \A p \in Procs : pc[p] \in AtWork => tgt[p] \in Tx
    /\ sg \in {"sign", "wsig"} => sgTx \in Tx
    /\ cl = "erase" => clTx \in Tx

TypeInv == TypeOK /\ Targets

LEMMA FileTypes ==
    ASSUME NEW f \in [Tx -> Content], NEW t
    PROVE  /\ Open(f, t) \in [Tx -> Content]
           /\ Complete(f, t) \in [Tx -> Content]
           /\ Overwrite(f, t) \in [Tx -> Content]
           /\ Remove(f, t) \in [Tx -> Content]
BY DEF Open, Complete, Overwrite, Remove, Content

(* A file that clean shreds is a raw or a signed one, never a sent record. *)
LEMMA Victims ==
    ASSUME NEW n \in 1..3
    PROVE  /\ Victim(n) \in {"raw", "sig"}
           /\ Keeper(n) \in {"sig", "sub"}
<1>1. n = 1 \/ n = 2 \/ n = 3
  OBVIOUS
<1> QED
  BY <1>1 DEF Victim, Keeper, CleanFiles

LEMMA TypeInit == Init => TypeInv
<1> SUFFICES ASSUME Init PROVE TypeInv
  OBVIOUS
<1>1. DeviceTypeOK
  BY DEF Init, DeviceInit, DeviceTypeOK, Blank, Content, Host
<1>2. OnlineTypeOK
  BY DEF Init, OnlineInit, OnlineTypeOK, Step, Reply
<1>3. OfflineTypeOK
  BY DEF Init, OfflineInit, OfflineTypeOK
<1>4. Targets
  BY DEF Init, OnlineInit, OfflineInit, Targets, AtWork
<1> QED
  BY <1>1, <1>2, <1>3, <1>4 DEF Init, TypeOK, TypeInv

LEMMA TypeCommand ==
    ASSUME TypeInv, NEW p \in Procs, Command(p), UNCHANGED <<offlineVars, faults>>
    PROVE  TypeInv'
<1> USE DEF TypeInv, Targets, AtWork, TypeOK, DeviceTypeOK, OnlineTypeOK, OfflineTypeOK, Start,
            Mount, Goto, Answer, Step, Reply
<1>1. CASE StartCreate(p)
  BY <1>1 DEF StartCreate
<1>2. CASE StartBump(p)
  BY <1>2 DEF StartBump
<1>3. CASE StartSend(p)
  BY <1>3 DEF StartSend
<1>4. CASE StartAbort(p)
  BY <1>4 DEF StartAbort
<1>5. CASE Status(p)
  BY <1>5 DEF Status
<1> QED
  BY <1>1, <1>2, <1>3, <1>4, <1>5 DEF Command

LEMMA TypeProgress ==
    ASSUME TypeInv, NEW p \in Procs, Progress(p), UNCHANGED <<offlineVars, faults>>
    PROVE  TypeInv'
<1> USE DEF TypeInv, Targets, AtWork, TypeOK, DeviceTypeOK, OnlineTypeOK, OfflineTypeOK, Goto,
            Answer, Step, Reply, Ext
<1>1. ASSUME NEW t \in Tx, Compose(p, t)
      PROVE  TypeInv'
  BY <1>1, FileTypes DEF Compose, NewStamp
<1>2. CASE WroteRaw(p)
  BY <1>2, FileTypes DEF WroteRaw
<1>3. CASE Send(p) \/ SendUnmarked(p)
  BY <1>3 DEF Send, SendUnmarked, Accepted
<1>4. CASE MarkSent(p)
  BY <1>4 DEF MarkSent
<1>5. CASE OpenSub(p)
  BY <1>5, FileTypes DEF OpenSub
<1>6. CASE WroteSub(p)
  BY <1>6, FileTypes DEF WroteSub
<1>7. CASE Confirm(p)
  BY <1>7 DEF Confirm
<1>8. CASE ShredRaw(p) \/ ShredSig(p)
  BY <1>8, FileTypes DEF ShredRaw, ShredSig
<1>9. CASE Erased(p)
  <2>1. DeviceTypeOK'
    BY <1>9, FileTypes DEF Erased
  <2>2. OnlineTypeOK'
    BY <1>9 DEF Erased
  <2> QED
    BY <2>1, <2>2, <1>9 DEF Erased
<1>10. CASE GiveUp(p)
  BY <1>10 DEF GiveUp, AfterGivingUp
<1>11. CASE Exit(p)
  <2>1. mnt' \in BOOLEAN /\ unsynced' \subseteq Ext \X Tx
    BY <1>11 DEF Exit, Umount, OnlineBusy
  <2> QED
    BY <2>1, <1>11 DEF Exit
<1> QED
  BY <1>1, <1>2, <1>3, <1>4, <1>5, <1>6, <1>7, <1>8, <1>9, <1>10, <1>11 DEF Progress

LEMMA TypeOffline ==
    ASSUME TypeInv, StartSign \/ Signing \/ StartClean \/ Cleaning, UNCHANGED <<onlineVars, faults>>
    PROVE  TypeInv'
<1> USE DEF TypeInv, Targets, AtWork, TypeOK, DeviceTypeOK, OnlineTypeOK, OfflineTypeOK, Ext
<1>1. CASE StartSign
  BY <1>1 DEF StartSign, Mount, Unsigned, Present
<1>2. CASE Sign
  BY <1>2, FileTypes DEF Sign
<1>3. CASE WroteSig
  BY <1>3, FileTypes DEF WroteSig
<1>4. CASE SignUmount
  BY <1>4 DEF SignUmount, Umount
<1>5. CASE StartClean
  BY <1>5 DEF StartClean, Mount, Present
<1>6. ASSUME NEW t \in Tx, Visit(t)
      PROVE  TypeInv'
  <2>1. DeviceTypeOK'
    BY <1>6, FileTypes, Victims DEF Visit, SetFile, File
  <2> QED
    BY <2>1, <1>6 DEF Visit
<1>7. CASE CleanErased
  <2>1. DeviceTypeOK'
    BY <1>7, FileTypes, Victims DEF CleanErased, SetFile, File
  <2> QED
    BY <2>1, <1>7 DEF CleanErased
<1>8. CASE NextPass
  BY <1>8 DEF NextPass, Present
<1>9. CASE CleanDone
  BY <1>9 DEF CleanDone
<1>10. CASE CleanUmount
  BY <1>10 DEF CleanUmount, Umount
<1> QED
  BY <1>1, <1>2, <1>3, <1>4, <1>5, <1>6, <1>7, <1>8, <1>9, <1>10 DEF Signing, Cleaning

LEMMA TypeFault ==
    ASSUME TypeInv, Fault
    PROVE  TypeInv'
<1> USE DEF TypeInv, Targets, AtWork, TypeOK, DeviceTypeOK, OnlineTypeOK, OfflineTypeOK, Step, Reply
<1>1. faults' \in Nat
  BY DEF Fault
<1>2. ASSUME NEW p \in Procs, Kill(p), UNCHANGED offlineVars
      PROVE  TypeInv'
  BY <1>1, <1>2 DEF Kill, Goto, Answer
<1>3. ASSUME NEW host, PowerLoss(host)
      PROVE  DeviceTypeOK'
  <2>1. raw' \in [Tx -> Content]
    BY <1>3 DEF PowerLoss, Content
  <2>2. sig' \in [Tx -> Content]
    BY <1>3 DEF PowerLoss, Content
  <2>3. sub' \in [Tx -> Content]
    BY <1>3 DEF PowerLoss, Content
  <2>4. unsynced' = {} /\ mnt' = FALSE /\ dev' = dev
    BY <1>3 DEF PowerLoss
  <2> QED
    BY <2>1, <2>2, <2>3, <2>4
<1>4. CASE OnlinePowerLoss /\ UNCHANGED offlineVars
  BY <1>1, <1>3, <1>4 DEF OnlinePowerLoss
<1>5. CASE OfflinePowerLoss /\ UNCHANGED onlineVars
  BY <1>1, <1>3, <1>5 DEF OfflinePowerLoss
<1> QED
  BY <1>2, <1>4, <1>5 DEF Fault

LEMMA TypeStep == TypeInv /\ [Next]_vars => TypeInv'
<1> SUFFICES ASSUME TypeInv, [Next]_vars PROVE TypeInv'
  OBVIOUS
<1>1. ASSUME NEW t \in Tx, Confirmed(t), UNCHANGED <<offlineVars, faults>>
      PROVE  TypeInv'
  BY <1>1 DEF Confirmed, TypeInv, Targets, TypeOK, DeviceTypeOK, OnlineTypeOK, OfflineTypeOK
<1>2. CASE Online
  BY <1>1, <1>2, TypeCommand, TypeProgress DEF Online
<1>3. CASE Offline
  BY <1>3, TypeOffline DEF Offline
<1>4. CASE CarryDevice
  BY <1>4 DEF CarryDevice, Carry, TypeInv, Targets, TypeOK, DeviceTypeOK, OnlineTypeOK, OfflineTypeOK
<1>5. CASE Fault
  BY <1>5, TypeFault
<1>6. CASE UNCHANGED vars
  BY <1>6 DEF vars, TypeInv, Targets, TypeOK, DeviceTypeOK, OnlineTypeOK, OfflineTypeOK
<1> QED
  BY <1>2, <1>3, <1>4, <1>5, <1>6 DEF Next

LEMMA TypeInvariant == Spec => []TypeInv
BY TypeInit, TypeStep, PTL DEF Spec

(* The variables always have their types, whatever crashes.                *)
THEOREM TypeCorrect == Spec => []TypeOK
<1>1. TypeInv => TypeOK
  BY DEF TypeInv
<1> QED
  BY <1>1, TypeInvariant, PTL

----------------------------------------------------------------------------
(* Sent records.                                                           *)

(* What clean does to the three sets of files: sent records stay.          *)
LEMMA CleanSparesSub ==
    ASSUME TypeInv, NEW f, SetFile(Victim(pass), f)
    PROVE  sub' = sub
BY Victims DEF TypeInv, TypeOK, OfflineTypeOK, SetFile

(* A power failure damages files but removes none.                         *)
LEMMA PowerLossKeepsNames ==
    ASSUME NEW host, PowerLoss(host)
    PROVE  Present(raw') = Present(raw) /\ Present(sig') = Present(sig) /\ Present(sub') = Present(sub)
<1>1. PICK lost \in SUBSET unsynced :
         /\ raw' = [t \in Tx |-> IF <<"raw", t>> \in lost /\ raw[t] = "full" THEN "partial" ELSE raw[t]]
         /\ sig' = [t \in Tx |-> IF <<"sig", t>> \in lost /\ sig[t] = "full" THEN "partial" ELSE sig[t]]
         /\ sub' = [t \in Tx |-> IF <<"sub", t>> \in lost /\ sub[t] = "full" THEN "partial" ELSE sub[t]]
  BY DEF PowerLoss
<1>2. Present(raw') = Present(raw)
  BY <1>1 DEF Present
<1>3. Present(sig') = Present(sig)
  BY <1>1 DEF Present
<1>4. Present(sub') = Present(sub)
  BY <1>1 DEF Present
<1> QED
  BY <1>2, <1>3, <1>4

(* A step that changes which sent records exist is post_send() adding one. *)
LEMMA SubStep ==
    ASSUME TypeInv, [Next]_vars
    PROVE  \/ Submitted' = Submitted
           \/ \E p \in Procs : pc[p] = "mark" /\ Submitted' = Submitted \union {tgt[p]}
<1> DEFINE Added == \E p \in Procs : pc[p] = "mark" /\ Submitted' = Submitted \union {tgt[p]}
<1> USE DEF Submitted
<1>1. ASSUME NEW p \in Procs, Command(p)
      PROVE  sub' = sub
  BY <1>1 DEF Command, Start, StartCreate, StartBump, StartSend, StartAbort, Status
<1>2. ASSUME NEW p \in Procs, Progress(p)
      PROVE  Submitted' = Submitted \/ Added
  <2> USE DEF TypeInv, TypeOK, DeviceTypeOK, OnlineTypeOK, Targets, AtWork
  <2>1. CASE OpenSub(p)
    <3>1. sub' = sub \/ Present(sub') = Present(sub) \union {tgt[p]}
      BY <2>1 DEF OpenSub, Open, Present
    <3> QED
      BY <3>1, <2>1 DEF OpenSub
  <2>2. CASE WroteSub(p)
    BY <2>2 DEF WroteSub, Complete, Present
  <2>3. CASE ~OpenSub(p) /\ ~WroteSub(p)
    BY <1>2, <2>3 DEF Progress, Compose, WroteRaw, Send, SendUnmarked, MarkSent, Confirm, ShredRaw,
                      ShredSig, Erased, GiveUp, AfterGivingUp, Exit
  <2> QED
    BY <2>1, <2>2, <2>3
<1>3. ASSUME StartSign \/ Signing \/ StartClean \/ Cleaning
      PROVE  sub' = sub
  BY <1>3, CleanSparesSub DEF StartSign, Signing, Sign, WroteSig, SignUmount, StartClean, Cleaning,
                              Visit, CleanErased, NextPass, CleanDone, CleanUmount
<1>4. CASE Online
  BY <1>1, <1>2, <1>4 DEF Online, Confirmed
<1>5. CASE Offline
  BY <1>3, <1>5 DEF Offline
<1>6. CASE CarryDevice
  BY <1>6 DEF CarryDevice, Carry
<1>7. CASE Fault
  BY <1>7, PowerLossKeepsNames DEF Fault, OnlinePowerLoss, OfflinePowerLoss, Kill
<1>8. CASE UNCHANGED vars
  BY <1>8 DEF vars
<1> QED
  BY <1>4, <1>5, <1>6, <1>7, <1>8 DEF Next

(* No command of either machine, and no crash, removes a sent record.      *)
THEOREM SentRecordsStay == Spec => SentStaysSent
<1>1. TypeInv /\ [Next]_vars => [Submitted \subseteq Submitted']_vars
  BY SubStep
<1> QED
  BY <1>1, TypeInvariant, PTL DEF Spec, SentStaysSent

(* Whoever is about to record a transaction as sent has reason to.         *)
Sure(t) == net[t] # "unseen" \/ t \in claimed

SentInv ==
    /\ \A t \in Submitted : Sure(t)
    /\ \A p \in Procs : pc[p] = "mark" => Sure(tgt[p])

(* The network does not forget, and the user does not take back.           *)
LEMMA SureStep ==
    ASSUME TypeInv, [Next]_vars, NEW t \in Tx, Sure(t)
    PROVE  Sure(t)'
<1> USE DEF TypeInv, TypeOK, OnlineTypeOK, Sure
<1>1. ASSUME NEW p \in Procs, Command(p)
      PROVE  Sure(t)'
  BY <1>1 DEF Command, StartCreate, StartBump, StartSend, StartAbort, Status
<1>2. ASSUME NEW u \in Tx, Accepted(u), claimed' = claimed
      PROVE  Sure(t)'
  BY <1>2 DEF Accepted
<1>3. ASSUME NEW p \in Procs, Progress(p)
      PROVE  Sure(t)'
  <2>1. CASE Send(p) \/ SendUnmarked(p)
    BY <1>2, <2>1 DEF Send, SendUnmarked, Targets, AtWork
  <2>2. CASE MarkSent(p)
    BY <2>2 DEF MarkSent
  <2>3. CASE ~Send(p) /\ ~SendUnmarked(p) /\ ~MarkSent(p)
    BY <1>3, <2>3 DEF Progress, Compose, WroteRaw, OpenSub, WroteSub, Confirm, ShredRaw, ShredSig,
                      Erased, GiveUp, AfterGivingUp, Exit
  <2> QED
    BY <2>1, <2>2, <2>3
<1>4. ASSUME NEW u \in Tx, Confirmed(u)
      PROVE  Sure(t)'
  BY <1>4 DEF Confirmed
<1>5. CASE Fault
  BY <1>5 DEF Fault, OnlinePowerLoss, Kill
<1>6. CASE ~Online /\ ~Fault
  BY <1>6 DEF Next, Offline, CarryDevice, vars
<1> QED
  BY <1>1, <1>3, <1>4, <1>5, <1>6 DEF Online

(* A process reaches post_send() only through a broadcast or --mark-sent.  *)
LEMMA MarkStep ==
    ASSUME TypeInv, SentInv, [Next]_vars, NEW p \in Procs, pc'[p] = "mark"
    PROVE  Sure(tgt[p])' 
<1> USE DEF TypeInv, TypeOK, OnlineTypeOK, Targets, AtWork, SentInv, Goto
<1>1. CASE pc[p] = "mark" /\ tgt'[p] = tgt[p]
  BY <1>1, SureStep DEF Sure
<1>2. ASSUME NEW q \in Procs, Command(q)
      PROVE  pc[p] = "mark" /\ tgt'[p] = tgt[p]
  BY <1>2 DEF Command, Start, StartCreate, StartBump, StartSend, StartAbort, Status
<1>3. ASSUME NEW q \in Procs, Progress(q), ~(pc[p] = "mark" /\ tgt'[p] = tgt[p])
      PROVE  Sure(tgt[p])'
  <2>1. CASE Send(q)
    BY <1>3, <2>1 DEF Send, Accepted, Sure
  <2>2. CASE MarkSent(q)
    BY <1>3, <2>2 DEF MarkSent, Sure
  <2>3. CASE ~Send(q) /\ ~MarkSent(q)
    BY <1>3, <2>3 DEF Progress, Compose, WroteRaw, SendUnmarked, OpenSub, WroteSub, Confirm,
                      ShredRaw, ShredSig, Erased, GiveUp, AfterGivingUp, Exit
  <2> QED
    BY <2>1, <2>2, <2>3
<1>4. CASE Fault
  BY <1>1, <1>4 DEF Fault, OnlinePowerLoss, Kill
<1>5. CASE ~Online /\ ~Fault
  BY <1>1, <1>5 DEF Next, Offline, CarryDevice, vars
<1> QED
  BY <1>1, <1>2, <1>3, <1>4, <1>5 DEF Online, Confirmed

LEMMA SentInvariant == Spec => []SentInv
<1>1. Init => SentInv
  BY DEF Init, DeviceInit, OnlineInit, SentInv, Submitted, Present, Blank
<1>2. TypeInv /\ SentInv /\ [Next]_vars => SentInv'
  <2> SUFFICES ASSUME TypeInv, SentInv, [Next]_vars PROVE SentInv'
    OBVIOUS
  <2>1. ASSUME NEW t \in Submitted'
        PROVE  Sure(t)'
    <3>1. t \in Tx
      BY DEF Submitted, Present
    <3>2. t \in Submitted \/ \E p \in Procs : pc[p] = "mark" /\ t = tgt[p]
      BY SubStep
    <3>3. Sure(t)
      BY <3>2 DEF SentInv
    <3> QED
      BY <3>1, <3>3, SureStep
  <2> QED
    BY <2>1, MarkStep DEF SentInv
<1> QED
  BY <1>1, <1>2, TypeInvariant, PTL DEF Spec

(* Sent records are true: every one of them stands for a transaction that  *)
(* the network took or the user declared sent, with any number of          *)
(* terminals in use and whatever crashes.                                  *)
THEOREM SentRecordsTrue == Spec => []SentIsTrue
<1>1. SentInv => SentIsTrue
  BY DEF SentInv, SentIsTrue, Sure
<1> QED
  BY <1>1, SentInvariant, PTL

----------------------------------------------------------------------------
(* One transaction at a time.  While a terminal composes a transaction,    *)
(* nothing is in flight, and nothing but composing puts anything in        *)
(* flight: so a single terminal never makes it two.                        *)

Alone == \A p, q \in Procs : p = q

FlightInv == OneInFlight /\ \A p \in Procs : pc[p] = "create" => InFlight = {}

LEMMA FlightStep ==
    ASSUME TypeInv, [Next]_vars
    PROVE  \/ InFlight' \subseteq InFlight
           \/ \E p \in Procs, t \in Tx : Compose(p, t) /\ InFlight' \subseteq InFlight \union {t}
<1> USE DEF TypeInv, TypeOK, DeviceTypeOK, OnlineTypeOK, OfflineTypeOK, Targets, AtWork, InFlight,
            UnsentRaw, Unsent, Present
<1>1. ASSUME NEW p \in Procs, Command(p)
      PROVE  InFlight' = InFlight
  BY <1>1 DEF Command, Start, StartCreate, StartBump, StartSend, StartAbort, Status
<1>2. ASSUME NEW p \in Procs, NEW t \in Tx, Compose(p, t)
      PROVE  InFlight' \subseteq InFlight \union {t}
  BY <1>2 DEF Compose, Open
<1>3. ASSUME NEW p \in Procs, Progress(p), ~ \E t \in Tx : Compose(p, t)
      PROVE  InFlight' \subseteq InFlight
  <2>1. CASE WroteRaw(p) \/ WroteSub(p)
    BY <2>1 DEF WroteRaw, WroteSub, Complete
  <2>2. CASE OpenSub(p)
    BY <2>2 DEF OpenSub, Open
  <2>3. CASE ShredRaw(p) \/ ShredSig(p)
    <3>1. CASE ShredRaw(p)
      BY <3>1 DEF ShredRaw, Overwrite
    <3>2. CASE ShredSig(p)
      BY <3>2 DEF ShredSig, Overwrite
    <3> QED
      BY <2>3, <3>1, <3>2
  <2>4. CASE Erased(p)
    BY <2>4 DEF Erased, Remove
  <2>5. CASE Send(p) \/ SendUnmarked(p) \/ MarkSent(p) \/ Confirm(p) \/ GiveUp(p) \/ Exit(p)
    BY <2>5 DEF Send, SendUnmarked, MarkSent, Confirm, GiveUp, AfterGivingUp, Exit
  <2> QED
    BY <1>3, <2>1, <2>2, <2>3, <2>4, <2>5 DEF Progress
<1>4. CASE Online
  BY <1>1, <1>2, <1>3, <1>4 DEF Online, Confirmed
<1>5. ASSUME Sign \/ WroteSig
      PROVE  InFlight' \subseteq InFlight
  BY <1>5 DEF Sign, CanSign, WroteSig, Open, Complete
<1>6. ASSUME NEW t \in Tx,
             SetFile(Victim(pass), Overwrite(File(Victim(pass)), t)),
             File(Victim(pass))[t] # "absent"
      PROVE  InFlight' \subseteq InFlight
  BY <1>6, Victims DEF SetFile, File, Overwrite
<1>7. ASSUME NEW t \in Tx, SetFile(Victim(pass), Remove(File(Victim(pass)), t))
      PROVE  InFlight' \subseteq InFlight
  BY <1>7, Victims DEF SetFile, File, Remove
<1>8. CASE Offline
  BY <1>5, <1>6, <1>7, <1>8 DEF Offline, StartSign, Signing, SignUmount, StartClean, Cleaning, Visit,
                                CleanErased, NextPass, CleanDone, CleanUmount
<1>9. CASE CarryDevice
  BY <1>9 DEF CarryDevice, Carry
<1>10. CASE Fault
  BY <1>10, PowerLossKeepsNames DEF Fault, OnlinePowerLoss, OfflinePowerLoss, Kill
<1>11. CASE UNCHANGED vars
  BY <1>11 DEF vars
<1> QED
  BY <1>2, <1>4, <1>8, <1>9, <1>10, <1>11 DEF Next

(* A terminal gets to compose only through check_create_ok().              *)
LEMMA CreateStep ==
    ASSUME TypeInv, [Next]_vars, NEW p \in Procs, pc'[p] = "create"
    PROVE  \/ pc[p] = "create"
           \/ InFlight' = {}
<1> USE DEF TypeInv, TypeOK, OnlineTypeOK, Goto
<1>1. ASSUME NEW q \in Procs, StartCreate(q) \/ StartBump(q), pc[p] # "create"
      PROVE  InFlight' = {}
  <2>1. CreateOk
    BY <1>1 DEF StartCreate, StartBump
  <2>2. InFlight = {}
    BY <2>1 DEF CreateOk, InFlight, Unsigned, Unsent, UnsentRaw
  <2> QED
    BY <2>2, <1>1 DEF StartCreate, StartBump, Start, InFlight, Unsent, UnsentRaw
<1>2. ASSUME NEW q \in Procs, StartSend(q) \/ StartAbort(q) \/ Status(q)
      PROVE  pc[p] = "create"
  BY <1>2 DEF StartSend, StartAbort, Status
<1>3. ASSUME NEW q \in Procs, Progress(q)
      PROVE  pc[p] = "create"
  BY <1>3 DEF Progress, Compose, WroteRaw, Send, SendUnmarked, MarkSent, OpenSub, WroteSub, Confirm,
              ShredRaw, ShredSig, Erased, GiveUp, AfterGivingUp, Exit
<1>4. CASE Fault
  BY <1>4 DEF Fault, OnlinePowerLoss, Kill
<1>5. CASE ~Online /\ ~Fault
  BY <1>5 DEF Next, Offline, CarryDevice, vars
<1> QED
  BY <1>1, <1>2, <1>3, <1>4, <1>5 DEF Online, Confirmed, Command

LEMMA FlightInit == Init => FlightInv
BY DEF Init, DeviceInit, OnlineInit, FlightInv, OneInFlight, InFlight, Unsent, UnsentRaw, Present, Blank

LEMMA LoneFlightStep ==
    ASSUME Alone, TypeInv, FlightInv, [Next]_vars
    PROVE  FlightInv'
<1>1. ASSUME NEW p \in Procs, NEW t \in Tx, Compose(p, t), InFlight' \subseteq InFlight \union {t}
      PROVE  FlightInv'
  <2>1. InFlight = {}
    BY <1>1 DEF FlightInv, Compose
  <2>2. pc'[p] # "create"
    BY <1>1 DEF Compose, Goto, TypeInv, TypeOK, OnlineTypeOK
  <2> QED
    BY <1>1, <2>1, <2>2 DEF FlightInv, OneInFlight, Alone
<1>2. CASE InFlight' \subseteq InFlight
  BY <1>2, CreateStep DEF FlightInv, OneInFlight
<1> QED
  BY <1>1, <1>2, FlightStep

(* With one terminal in use at most one transaction is in flight, whatever *)
(* the signer and the cleaner do, together or in turn, and whatever dies.  *)
THEOREM SingleFlight ==
    ASSUME \A p, q \in Procs : p = q
    PROVE  Spec => []OneInFlight
<1>1. TypeInv /\ FlightInv /\ [Next]_vars => FlightInv'
  BY LoneFlightStep DEF Alone
<1>2. FlightInv => OneInFlight
  BY DEF FlightInv
<1> QED
  BY <1>1, <1>2, FlightInit, TypeInvariant, PTL DEF Spec

----------------------------------------------------------------------------
(* The device is where the command of the one terminal needs it, so the    *)
(* files of a transaction are not changed from elsewhere between two steps *)
(* of a command.                                                           *)
PlugInv ==
    /\ \A p \in Procs : pc[p] # "idle" => Mounted("online")
    /\ cl = "erase" \/ sg = "wsig" => Mounted("offline")

AimInv ==
    /\ \A p \in Procs : pc[p] \in {"send", "mark"} => tgt[p] \in Unsent
    /\ \A p \in Procs : pc[p] = "erase" => todo[p] # {}
    /\ \A p \in Procs : pc[p] \in {"confirm", "abort", "erase"} /\ todo[p] = {"sig"} =>
                          raw[tgt[p]] = "absent"

(* The third listing of clean is of sent records, which stay.              *)
DoomedInv ==
    /\ cl \in {"visit", "erase"} /\ pass = 3 => clTodo \subseteq Submitted
    /\ cl = "erase" /\ pass = 3 => clTx \in Submitted

StampInv == \A t \in Tx : stamp[t] <= clock

(* Without faults a signed file that cannot be read is at work by someone. *)
HalfDone(t) ==
    \/ sg = "wsig" /\ sgTx = t
    \/ cl = "erase" /\ Victim(pass) = "sig" /\ clTx = t
    \/ \E p \in Procs : pc[p] = "erase" /\ "raw" \notin todo[p] /\ tgt[p] = t

WholeInv == faults = 0 => \A t \in Tx : sig[t] = "partial" => HalfDone(t)

LEMMA PlugStep ==
    ASSUME Alone, TypeInv, PlugInv, [Next]_vars
    PROVE  PlugInv'
<1> USE DEF Alone, TypeInv, TypeOK, DeviceTypeOK, OnlineTypeOK, OfflineTypeOK, PlugInv, Mounted, Goto
<1>1. ASSUME NEW p \in Procs, Command(p), UNCHANGED offlineVars
      PROVE  PlugInv'
  BY <1>1 DEF Command, Start, Mount, StartCreate, StartBump, StartSend, StartAbort, Status
<1>2. ASSUME NEW p \in Procs, Progress(p), UNCHANGED offlineVars
      PROVE  PlugInv'
  <2>1. CASE Exit(p)
    BY <1>2, <2>1 DEF Exit, Umount
  <2>2. CASE ~Exit(p)
    <3>1. pc[p] # "idle" /\ UNCHANGED <<dev, mnt>>
      BY <1>2, <2>2 DEF Progress, Compose, WroteRaw, Send, SendUnmarked, MarkSent, OpenSub, WroteSub,
                        Confirm, ShredRaw, ShredSig, Erased, GiveUp
    <3> QED
      BY <1>2, <3>1
  <2> QED
    BY <2>1, <2>2
<1>3. CASE Online
  BY <1>1, <1>2, <1>3 DEF Online, Confirmed
<1>4. CASE (StartSign \/ StartClean) /\ UNCHANGED onlineVars
  BY <1>4 DEF StartSign, StartClean, Mount
<1>5. CASE Sign /\ UNCHANGED onlineVars
  BY <1>5 DEF Sign
<1>6. CASE (WroteSig \/ CleanErased \/ NextPass \/ CleanDone) /\ UNCHANGED onlineVars
  BY <1>6 DEF WroteSig, CleanErased, NextPass, CleanDone
<1>7. CASE (SignUmount \/ CleanUmount) /\ UNCHANGED onlineVars
  BY <1>7 DEF SignUmount, CleanUmount, Umount
<1>8. ASSUME NEW t \in Tx, Visit(t), UNCHANGED onlineVars
      PROVE  PlugInv'
  BY <1>8 DEF Visit
<1>9. CASE Offline
  BY <1>4, <1>5, <1>6, <1>7, <1>8, <1>9 DEF Offline, Signing, Cleaning
<1>10. CASE CarryDevice
  BY <1>10 DEF CarryDevice, Carry
<1>11. CASE Fault
  <2>1. ASSUME NEW p \in Procs, Kill(p), UNCHANGED offlineVars
        PROVE  PlugInv'
    BY <2>1 DEF Kill
  <2>2. CASE OnlinePowerLoss /\ UNCHANGED offlineVars
    BY <2>2 DEF OnlinePowerLoss, PowerLoss
  <2>3. CASE OfflinePowerLoss /\ UNCHANGED onlineVars
    BY <2>3 DEF OfflinePowerLoss, PowerLoss
  <2> QED
    BY <1>11, <2>1, <2>2, <2>3 DEF Fault
<1>12. CASE UNCHANGED vars
  BY <1>12 DEF vars
<1> QED
  BY <1>3, <1>9, <1>10, <1>11, <1>12 DEF Next

(* What a command at work has picked is touched by no one else.            *)
LEMMA AimStep ==
    ASSUME Alone, TypeInv, PlugInv, AimInv, [Next]_vars
    PROVE  AimInv'
<1> USE DEF Alone, TypeInv, TypeOK, DeviceTypeOK, OnlineTypeOK, OfflineTypeOK, Targets, AtWork, AimInv,
            Unsent, Present, Goto
<1>1. ASSUME NEW p \in Procs, Command(p)
      PROVE  AimInv'
  <2>1. CASE StartCreate(p)
    BY <2>1 DEF StartCreate, Start
  <2>2. CASE StartBump(p)
    BY <2>2 DEF StartBump, Start
  <2>3. CASE StartSend(p)
    BY <2>3 DEF StartSend, Start
  <2>4. CASE StartAbort(p)
    <3>1. /\ UNCHANGED <<raw, sig, sub>>
          /\ \A q \in Procs : q = p
      BY <2>4 DEF StartAbort, Start, txVars
    <3>2. (pc'[p] = "confirm" /\ "raw" \in todo'[p]) \/ pc'[p] = "exit"
      BY <2>4 DEF StartAbort, Start
    <3>3. pc'[p] \notin {"send", "mark", "erase"} /\ (pc'[p] = "confirm" => todo'[p] # {"sig"}) /\ pc'[p] # "abort"
      BY <3>2
    <3> QED
      BY <3>1, <3>3 DEF AimInv
  <2>5. CASE Status(p)
    BY <2>5 DEF Status
  <2> QED
    BY <1>1, <2>1, <2>2, <2>3, <2>4, <2>5 DEF Command
<1>2. ASSUME NEW p \in Procs, Progress(p)
      PROVE  AimInv'
  <2>1. CASE Send(p) \/ MarkSent(p)
    BY <2>1 DEF Send, MarkSent
  <2>2. CASE Confirm(p)
    BY <2>2 DEF Confirm
  <2>3. CASE ShredRaw(p) \/ ShredSig(p)
    <3>1. CASE ShredRaw(p)
      BY <3>1 DEF ShredRaw, Overwrite
    <3>2. CASE ShredSig(p)
      <4>1. todo' = todo /\ tgt' = tgt /\ todo[p] = {"sig"} /\ raw' = raw
        BY <3>2 DEF ShredSig
      <4>2. pc'[p] \in {"erase", "exit"} /\ pc[p] = "abort"
        BY <3>2 DEF ShredSig
      <4>3. raw[tgt[p]] = "absent"
        BY <4>1, <4>2
      <4> QED
        BY <4>1, <4>2, <4>3
    <3> QED
      BY <2>3, <3>1, <3>2
  <2>4. CASE Erased(p)
    BY <2>4 DEF Erased, Remove
  <2>5. CASE \/ \E t \in Tx : Compose(p, t)
             \/ WroteRaw(p) \/ SendUnmarked(p) \/ OpenSub(p) \/ WroteSub(p) \/ GiveUp(p) \/ Exit(p)
    BY <2>5 DEF Compose, WroteRaw, SendUnmarked, OpenSub, WroteSub, GiveUp, AfterGivingUp, Exit
  <2> QED
    BY <1>2, <2>1, <2>2, <2>3, <2>4, <2>5 DEF Progress
<1>3. CASE Online
  BY <1>1, <1>2, <1>3 DEF Online, Confirmed
<1>4. ASSUME UNCHANGED <<pc, tgt, todo>>, UNCHANGED <<raw, sig, sub>> \/ \A p \in Procs : pc[p] = "idle"
      PROVE  AimInv'
  BY <1>4
<1>5. CASE Offline
  <2>1. UNCHANGED <<raw, sig, sub>> \/ Mounted("offline")
    BY <1>5 DEF Offline, StartSign, Signing, Sign, WroteSig, SignUmount, StartClean, Cleaning, Visit,
                CleanErased, NextPass, CleanDone, CleanUmount, PlugInv
  <2> QED
    BY <1>4, <1>5, <2>1 DEF Offline, PlugInv, Mounted
<1>6. CASE CarryDevice
  BY <1>4, <1>6 DEF CarryDevice, Carry
<1>7. CASE Fault
  <2>1. ASSUME NEW p \in Procs, Kill(p)
        PROVE  AimInv'
    BY <2>1 DEF Kill
  <2>2. CASE OnlinePowerLoss
    BY <2>2 DEF OnlinePowerLoss
  <2>3. CASE OfflinePowerLoss /\ UNCHANGED onlineVars
    BY <1>4, <2>3 DEF OfflinePowerLoss, PowerLoss, PlugInv, Mounted
  <2> QED
    BY <1>7, <2>1, <2>2, <2>3 DEF Fault
<1>8. CASE UNCHANGED vars
  BY <1>4, <1>8 DEF vars
<1> QED
  BY <1>3, <1>5, <1>6, <1>7, <1>8 DEF Next

LEMMA DoomedStep ==
    ASSUME TypeInv, DoomedInv, [Next]_vars
    PROVE  DoomedInv'
<1> USE DEF TypeInv, TypeOK, OfflineTypeOK, DoomedInv
<1>1. Submitted \subseteq Submitted'
  BY SubStep
<1>2. CASE UNCHANGED cleanVars
  BY <1>1, <1>2
<1>3. CASE StartClean
  BY <1>3 DEF StartClean
<1>4. ASSUME NEW t \in Tx, Visit(t)
      PROVE  DoomedInv'
  BY <1>1, <1>4 DEF Visit
<1>5. CASE CleanErased
  BY <1>1, <1>5 DEF CleanErased
<1>6. CASE NextPass
  BY <1>6 DEF NextPass, File, Keeper, CleanFiles, Submitted
<1>7. CASE CleanDone \/ CleanUmount
  BY <1>7 DEF CleanDone, CleanUmount
<1>8. CASE Fault
  BY <1>2, <1>8 DEF Fault, OfflinePowerLoss
<1>9. CASE ~Fault /\ ~StartClean /\ ~Cleaning
  BY <1>2, <1>9 DEF Next, Online, Offline, StartSign, Signing, Sign, WroteSig, SignUmount, CarryDevice,
                    vars
<1> QED
  BY <1>3, <1>4, <1>5, <1>6, <1>7, <1>8, <1>9 DEF Cleaning

(* Timestamps are given out in order.                                      *)
LEMMA StampStep ==
    ASSUME TypeInv, StampInv, [Next]_vars
    PROVE  /\ StampInv'
           /\ \A p \in Procs, t \in Tx :
                 Compose(p, t) /\ stamp' # stamp => stamp' = [stamp EXCEPT ![t] = clock + 1]
           /\ stamp' # stamp => \E p \in Procs, t \in Tx : Compose(p, t)
<1> USE DEF TypeInv, TypeOK, OnlineTypeOK, StampInv
<1>1. ASSUME NEW p \in Procs, NEW t \in Tx, Compose(p, t), stamp' # stamp
      PROVE  stamp' = [stamp EXCEPT ![t] = clock + 1] /\ clock' = clock + 1
  BY <1>1 DEF Compose, NewStamp
<1>2. UNCHANGED <<stamp, clock>> \/ \E p \in Procs, t \in Tx : Compose(p, t)
  <2>1. ASSUME NEW p \in Procs, Command(p) \/ Progress(p)
        PROVE  UNCHANGED <<stamp, clock>> \/ \E t \in Tx : Compose(p, t)
    BY <2>1 DEF Command, StartCreate, StartBump, StartSend, StartAbort, Status, Progress, WroteRaw, Send,
                SendUnmarked, MarkSent, OpenSub, WroteSub, Confirm, ShredRaw, ShredSig, Erased, GiveUp,
                Exit
  <2> QED
    BY <2>1 DEF Next, Online, Confirmed, Offline, CarryDevice, Fault, OnlinePowerLoss, Kill, vars
<1>3. ASSUME NEW p \in Procs, NEW t \in Tx, Compose(p, t)
      PROVE  StampInv'
  <2>1. CASE stamp' # stamp
    BY <1>1, <1>3, <2>1
  <2>2. CASE stamp' = stamp
    BY <1>3, <2>2 DEF Compose
  <2> QED
    BY <2>1, <2>2
<1> QED
  BY <1>1, <1>2, <1>3

LEMMA WholeStep ==
    ASSUME TypeInv, WholeInv, [Next]_vars
    PROVE  WholeInv'
<1> USE DEF TypeInv, TypeOK, DeviceTypeOK, OnlineTypeOK, OfflineTypeOK, Targets, AtWork, WholeInv,
            HalfDone, Goto
<1>1. ASSUME NEW p \in Procs, Command(p), UNCHANGED <<offlineVars, faults>>
      PROVE  WholeInv'
  BY <1>1 DEF Command, Start, StartCreate, StartBump, StartSend, StartAbort, Status
<1>2. ASSUME NEW p \in Procs, Progress(p), UNCHANGED <<offlineVars, faults>>
      PROVE  WholeInv'
  <2>1. CASE ShredRaw(p)
    BY <1>2, <2>1 DEF ShredRaw
  <2>2. CASE ShredSig(p)
    BY <1>2, <2>2 DEF ShredSig, Overwrite
  <2>3. CASE Erased(p)
    BY <1>2, <2>3 DEF Erased, Remove
  <2>4. CASE ~ShredRaw(p) /\ ~ShredSig(p) /\ ~Erased(p)
    BY <1>2, <2>4 DEF Progress, Compose, WroteRaw, Send, SendUnmarked, MarkSent, OpenSub, WroteSub,
                      Confirm, GiveUp, AfterGivingUp, Exit
  <2> QED
    BY <2>1, <2>2, <2>3, <2>4
<1>3. CASE Online
  BY <1>1, <1>2, <1>3 DEF Online, Confirmed
<1>4. CASE Sign /\ UNCHANGED <<onlineVars, faults>>
  BY <1>4 DEF Sign, Open
<1>5. CASE WroteSig /\ UNCHANGED <<onlineVars, faults>>
  BY <1>5 DEF WroteSig, Complete
<1>6. ASSUME NEW t \in Tx, Visit(t), UNCHANGED <<onlineVars, faults>>
      PROVE  WholeInv'
  BY <1>6, Victims DEF Visit, SetFile, File, Overwrite
<1>7. CASE CleanErased /\ UNCHANGED <<onlineVars, faults>>
  BY <1>7, Victims DEF CleanErased, SetFile, File, Remove
<1>8. CASE Offline
  BY <1>4, <1>5, <1>6, <1>7, <1>8 DEF Offline, StartSign, Signing, SignUmount, StartClean, Cleaning,
                                      NextPass, CleanDone, CleanUmount
<1>9. CASE CarryDevice \/ UNCHANGED vars
  BY <1>9 DEF CarryDevice, Carry, vars
<1>10. CASE Fault
  BY <1>10 DEF Fault
<1> QED
  BY <1>3, <1>8, <1>9, <1>10 DEF Next

LoneInv == TypeInv /\ FlightInv /\ PlugInv /\ AimInv /\ DoomedInv /\ StampInv /\ WholeInv

LEMMA LoneInvariant ==
    ASSUME Alone
    PROVE  Spec => []LoneInv
<1>1. Init => LoneInv
  <2> SUFFICES ASSUME Init PROVE LoneInv
    OBVIOUS
  <2>1. TypeInv /\ FlightInv
    BY TypeInit, FlightInit
  <2>2. PlugInv /\ AimInv /\ DoomedInv /\ StampInv
    BY DEF Init, DeviceInit, OnlineInit, OfflineInit, PlugInv, AimInv, DoomedInv, StampInv
  <2>3. WholeInv
    BY DEF Init, DeviceInit, WholeInv, Blank
  <2> QED
    BY <2>1, <2>2, <2>3 DEF LoneInv
<1>2. LoneInv /\ [Next]_vars => LoneInv'
  BY TypeStep, LoneFlightStep, PlugStep, AimStep, DoomedStep, StampStep, WholeStep DEF LoneInv
<1> QED
  BY <1>1, <1>2, PTL DEF Spec

(* While no command runs and nothing has failed, the transaction in flight *)
(* can be aborted or its signed file can be read.                          *)
THEOREM AlwaysAWayOut ==
    ASSUME \A p, q \in Procs : p = q
    PROVE  Spec => []WayOut
<1>1. LoneInv => WayOut
  <2> SUFFICES ASSUME LoneInv, Quiet, faults = 0, NEW t \in InFlight, sig[t] # "full"
               PROVE  Abortable(t)
    BY DEF WayOut
  <2>1. t \in UnsentRaw
    <3> SUFFICES ASSUME t \in Unsent PROVE FALSE
      BY DEF InFlight
    <3>1. t \in Tx /\ sig[t] = "partial"
      BY DEF LoneInv, TypeInv, TypeOK, DeviceTypeOK, Content, Unsent, Present
    <3> QED
      BY <3>1 DEF LoneInv, WholeInv, HalfDone, Quiet
  <2> QED
    BY <2>1 DEF LoneInv, FlightInv, OneInFlight, InFlight, Abortable
<1>2. Spec => []LoneInv
  BY LoneInvariant DEF Alone
<1> QED
  BY <1>1, <1>2, PTL

LEMMA NewestStep ==
    ASSUME Alone, LoneInv, NewestLast, [Next]_vars
    PROVE  NewestLast'
<1> USE DEF LoneInv, TypeInv, TypeOK, DeviceTypeOK, OnlineTypeOK
<1>1. ASSUME NEW p \in Procs, NEW t \in Tx, Compose(p, t)
      PROVE  NewestLast'
  <2>1. InFlight = {} /\ InFlight' \subseteq {t} /\ Submitted' = Submitted
    BY <1>1 DEF FlightInv, Compose, InFlight, Unsent, UnsentRaw, Submitted, Present, Open
  <2>2. CASE InFlight' = {}
    BY <2>2 DEF NewestLast
  <2>3. CASE InFlight' # {}
    <3>1. stamp' = [stamp EXCEPT ![t] = clock + 1]
      BY <1>1, <2>1, <2>3 DEF Compose, NewStamp, InFlight, Unsent, UnsentRaw, Present
    <3>2. \A u \in Submitted : u \in Tx
      BY DEF Submitted, Present
    <3> QED
      BY <2>1, <2>3, <3>1, <3>2 DEF NewestLast, StampInv
  <2> QED
    BY <2>2, <2>3
<1>2. ASSUME ~ \E p \in Procs, t \in Tx : Compose(p, t)
      PROVE  NewestLast'
  <2>1. stamp' = stamp /\ InFlight' \subseteq InFlight
    BY <1>2, StampStep, FlightStep
  <2>2. CASE Submitted' = Submitted
    BY <2>1, <2>2 DEF NewestLast, InFlight, Unsent, UnsentRaw, Submitted
  <2>3. ASSUME NEW p \in Procs, pc[p] = "mark", Submitted' = Submitted \union {tgt[p]}
        PROVE  NewestLast'
    <3>1. InFlight = {tgt[p]}
      BY <2>3 DEF AimInv, FlightInv, OneInFlight, InFlight
    <3>2. InFlight' = {}
      BY <2>1, <2>3, <3>1 DEF InFlight, Unsent, UnsentRaw, Submitted
    <3> QED
      BY <3>2 DEF NewestLast
  <2> QED
    BY <2>2, <2>3, SubStep
<1> QED
  BY <1>1, <1>2

(* Whatever is in flight was created after all that has been sent, so the  *)
(* newest sent file is that of the transaction sent last.                  *)
THEOREM NewestIsLast ==
    ASSUME \A p, q \in Procs : p = q
    PROVE  Spec => []NewestLast
<1>1. Init => NewestLast
  BY DEF Init, DeviceInit, NewestLast, Submitted, Present, Blank
<1>2. LoneInv /\ NewestLast /\ [Next]_vars => NewestLast'
  BY NewestStep DEF Alone
<1>3. Spec => []LoneInv
  BY LoneInvariant DEF Alone
<1> QED
  BY <1>1, <1>2, <1>3, PTL DEF Spec

----------------------------------------------------------------------------
(* A sent transaction is never unsigned again.  The signed file is let go  *)
(* only in the third round of clean, and by then no raw file of a sent     *)
(* transaction is left: the second round has seen to each of them.         *)
SweepInv ==
    /\ cl # "idle" => sg = "idle" /\ Mounted("offline")
    /\ cl \in {"visit", "erase"} /\ pass = 2 =>
          \A t \in Submitted : raw[t] = "absent" \/ t \in clTodo \/ (cl = "erase" /\ clTx = t)
    /\ cl \in {"visit", "erase"} /\ pass = 3 => \A t \in Submitted : raw[t] = "absent"

(* While the cleaner works, no command of the other machine does.          *)
LEMMA CleanerAlone ==
    ASSUME PlugInv, SweepInv, cl # "idle", Online \/ CarryDevice
    PROVE  UNCHANGED <<deviceVars, offlineVars>>
<1>1. dev = "offline" /\ mnt /\ \A p \in Procs : pc[p] = "idle"
  BY DEF PlugInv, SweepInv, Mounted
<1>2. CASE CarryDevice
  BY <1>1, <1>2 DEF CarryDevice, Carry
<1>3. ASSUME NEW p \in Procs, Command(p)
      PROVE  FALSE
  BY <1>1, <1>3 DEF Command, Start, Mount, StartCreate, StartBump, StartSend, StartAbort, Status
<1>4. ASSUME NEW p \in Procs, Progress(p)
      PROVE  FALSE
  BY <1>1, <1>4 DEF Progress, Compose, WroteRaw, Send, SendUnmarked, MarkSent, OpenSub, WroteSub, Confirm,
                    ShredRaw, ShredSig, Erased, GiveUp, Exit
<1>5. CASE Online
  BY <1>3, <1>4, <1>5 DEF Online, Confirmed
<1> QED
  BY <1>2, <1>5

LEMMA SweepStep ==
    ASSUME OneAtATime, LoneInv, SweepInv, [Next]_vars
    PROVE  SweepInv'
<1> USE DEF LoneInv, TypeInv, TypeOK, DeviceTypeOK, OfflineTypeOK
<1>1. CASE cl = "idle" /\ ~StartClean
  <2>1. cl' = "idle"
    BY <1>1 DEF Next, Online, Offline, StartSign, Signing, Sign, WroteSig, SignUmount, Cleaning, Visit, CleanErased,
                NextPass, CleanDone, CleanUmount, CarryDevice, Fault, OfflinePowerLoss, offlineVars, cleanVars, vars
  <2> QED
    BY <2>1 DEF SweepInv
<1>2. CASE StartClean
  BY <1>2 DEF StartClean, Mount, Mounted, SweepInv
<1>3. CASE cl # "idle" /\ (Online \/ CarryDevice \/ UNCHANGED vars)
  <2>1. UNCHANGED <<deviceVars, offlineVars>>
    BY <1>3, CleanerAlone DEF vars
  <2> QED
    BY <2>1 DEF SweepInv, deviceVars, offlineVars, signVars, cleanVars, Mounted, Submitted
<1>4. CASE cl # "idle" /\ Fault
  <2>1. CASE OfflinePowerLoss
    BY <2>1 DEF OfflinePowerLoss, SweepInv
  <2>2. ASSUME OnlinePowerLoss \/ \E p \in Procs : Kill(p), UNCHANGED offlineVars
        PROVE  SweepInv'
    <3>1. ~OnlinePowerLoss
      BY <1>4 DEF OnlinePowerLoss, PowerLoss, SweepInv, Mounted
    <3> QED
      BY <2>2, <3>1 DEF Kill, deviceVars, offlineVars, signVars, cleanVars, SweepInv, Mounted, Submitted
  <2> QED
    BY <1>4, <2>1, <2>2 DEF Fault
<1>5. ASSUME NEW t \in Tx, Visit(t)
      PROVE  SweepInv'
  <2>1. Submitted' = Submitted
    BY <1>5, Victims DEF Visit, SetFile, Overwrite, Submitted, Present
  <2>2. \A u \in Tx : raw'[u] = "absent" <=> raw[u] = "absent"
    BY <1>5, Victims DEF Visit, SetFile, File, Overwrite
  <2>3. pass' = pass /\ sg' = sg /\ UNCHANGED <<dev, mnt>> /\ cl = "visit" /\ cl' \in {"visit", "erase"}
    BY <1>5 DEF Visit, signVars
  <2>4. CASE pass = 2
    <3>1. Victim(2) = "raw"
      BY DEF Victim, CleanFiles
    <3>2. raw[t] = "absent" \/ (cl' = "erase" /\ clTx' = t)
      BY <1>5, <2>3, <2>4, <3>1 DEF Visit, File, SweepInv
    <3> QED
      BY <1>5, <2>1, <2>2, <2>3, <2>4, <3>2 DEF Visit, SweepInv, Mounted, Submitted, Present
  <2> QED
    BY <2>1, <2>2, <2>3, <2>4 DEF SweepInv, Mounted, Submitted, Present
<1>6. CASE CleanErased
  <2>1. Submitted' = Submitted /\ \A u \in Tx : raw[u] = "absent" => raw'[u] = "absent"
    BY <1>6, Victims DEF CleanErased, SetFile, File, Remove, Submitted
  <2>2. pass = 2 /\ clTx \in Tx => raw'[clTx] = "absent"
    BY <1>6 DEF CleanErased, SetFile, File, Remove, Victim, CleanFiles
  <2> QED
    BY <1>6, <2>1, <2>2 DEF CleanErased, SweepInv, Mounted, Submitted, Present, signVars
<1>7. CASE NextPass
  <2>1. cl = "visit" /\ clTodo = {} /\ pass < 3 /\ Mounted("offline") /\ pass' = pass + 1 /\ clTodo' = Present(File(Keeper(pass + 1)))
        /\ UNCHANGED <<cl, deviceVars, clTx, signVars>>
    BY <1>7 DEF NextPass, SweepInv
  <2>2. CASE pass = 1
    BY <2>1, <2>2 DEF SweepInv, File, Keeper, CleanFiles, Submitted, Mounted, deviceVars, signVars
  <2>3. CASE pass = 2
    BY <2>1, <2>3 DEF SweepInv, Submitted, Mounted, deviceVars, signVars
  <2> QED
    BY <2>1, <2>2, <2>3
<1>8. CASE CleanDone
  BY <1>8 DEF CleanDone, SweepInv, Mounted, deviceVars, signVars
<1>9. CASE CleanUmount
  BY <1>9 DEF CleanUmount, SweepInv
<1>10. CASE cl # "idle" /\ (StartSign \/ Signing)
  BY <1>10 DEF StartSign, Signing, Sign, WroteSig, SignUmount, SweepInv
<1> QED
  BY <1>1, <1>2, <1>3, <1>4, <1>5, <1>6, <1>7, <1>8, <1>9, <1>10 DEF Next, Offline, Cleaning

LEMMA AnsweredStep ==
    ASSUME Alone, LoneInv, SweepInv, SentNotUnsigned, [Next]_vars
    PROVE  SentNotUnsigned'
<1> USE DEF LoneInv, TypeInv, TypeOK, DeviceTypeOK, OnlineTypeOK, OfflineTypeOK, Targets, AtWork,
            SentNotUnsigned, Submitted, Unsigned, Present
<1>1. ASSUME NEW p \in Procs, Command(p)
      PROVE  SentNotUnsigned'
  BY <1>1 DEF Command, Start, StartCreate, StartBump, StartSend, StartAbort, Status
<1>2. ASSUME NEW p \in Procs, Progress(p)
      PROVE  SentNotUnsigned'
  <2>1. ASSUME NEW t \in Tx, Compose(p, t)
        PROVE  SentNotUnsigned'
    BY <2>1 DEF Compose, Open
  <2>2. CASE OpenSub(p)
    BY <2>2 DEF OpenSub, Open, AimInv, Unsent
  <2>3. CASE WroteRaw(p) \/ WroteSub(p)
    BY <2>3 DEF WroteRaw, WroteSub, Complete
  <2>4. CASE ShredRaw(p) \/ ShredSig(p)
    <3>1. CASE ShredRaw(p)
      BY <3>1 DEF ShredRaw, Overwrite
    <3>2. CASE ShredSig(p)
      BY <3>2 DEF ShredSig, Overwrite
    <3> QED
      BY <2>4, <3>1, <3>2
  <2>5. CASE Erased(p)
    <3>1. CASE "raw" \in todo[p]
      BY <2>5, <3>1 DEF Erased, Remove
    <3>2. CASE "raw" \notin todo[p]
      <4>1. todo[p] = {"sig"} /\ raw[tgt[p]] = "absent"
        BY <2>5, <3>2 DEF Erased, AimInv
      <4> QED
        BY <2>5, <3>2, <4>1 DEF Erased, Remove
    <3> QED
      BY <3>1, <3>2
  <2>6. CASE Send(p) \/ SendUnmarked(p) \/ MarkSent(p) \/ Confirm(p) \/ GiveUp(p) \/ Exit(p)
    BY <2>6 DEF Send, SendUnmarked, MarkSent, Confirm, GiveUp, Exit
  <2> QED
    BY <1>2, <2>1, <2>2, <2>3, <2>4, <2>5, <2>6 DEF Progress
<1>3. CASE Online
  BY <1>1, <1>2, <1>3 DEF Online, Confirmed
<1>4. CASE Sign \/ WroteSig
  BY <1>4 DEF Sign, CanSign, WroteSig, Open, Complete
<1>5. ASSUME NEW t \in Tx, Visit(t)
      PROVE  SentNotUnsigned'
  BY <1>5, Victims DEF Visit, SetFile, File, Overwrite
<1>6. CASE CleanErased
  <2>1. CASE Victim(pass) = "raw"
    BY <1>6, <2>1 DEF CleanErased, SetFile, File, Remove
  <2>2. CASE Victim(pass) = "sig"
    <3>1. pass = 3
      BY <2>2 DEF Victim, CleanFiles
    <3>2. raw[clTx] = "absent"
      BY <1>6, <3>1 DEF CleanErased, DoomedInv, SweepInv
    <3> QED
      BY <1>6, <2>2, <3>2 DEF CleanErased, SetFile, File, Remove
  <2> QED
    BY <2>1, <2>2, Victims
<1>7. CASE Offline
  BY <1>4, <1>5, <1>6, <1>7 DEF Offline, StartSign, Signing, SignUmount, StartClean, Cleaning, NextPass, CleanDone,
                                CleanUmount
<1>8. CASE CarryDevice \/ UNCHANGED vars
  BY <1>8 DEF CarryDevice, Carry, vars
<1>9. CASE Fault
  BY <1>9, PowerLossKeepsNames DEF Fault, OnlinePowerLoss, OfflinePowerLoss, Kill
<1> QED
  BY <1>3, <1>7, <1>8, <1>9 DEF Next

OrderedInv == LoneInv /\ SweepInv /\ SentNotUnsigned

LEMMA OrderedInvariant ==
    ASSUME Alone, OneAtATime
    PROVE  Spec => []OrderedInv
<1>1. Init => SweepInv /\ SentNotUnsigned
  BY DEF Init, DeviceInit, OfflineInit, SweepInv, SentNotUnsigned, Submitted, Present, Blank
<1>2. LoneInv /\ SweepInv /\ SentNotUnsigned /\ [Next]_vars => SweepInv' /\ SentNotUnsigned'
  BY SweepStep, AnsweredStep
<1> QED
  BY <1>1, <1>2, LoneInvariant, PTL DEF Spec, OrderedInv

(* With one terminal in use, and the signer and the cleaner run in turn,   *)
(* no transaction that has a sent record is ever listed as unsigned,       *)
(* wherever clean, abort or a broadcast is cut short: it is not signed     *)
(* again.                                                                  *)
THEOREM SentStaysSigned ==
    ASSUME OneAtATime, \A p, q \in Procs : p = q
    PROVE  Spec => []SentNotUnsigned
<1>1. OrderedInv => SentNotUnsigned
  BY DEF OrderedInv
<1>2. Spec => []OrderedInv
  BY OrderedInvariant DEF Alone
<1> QED
  BY <1>1, <1>2, PTL

----------------------------------------------------------------------------
(* The device keeps the promise of TxLifecycle.  The stage of a            *)
(* transaction is told by which of its files exist.                        *)
SameNames(t) ==
    /\ raw'[t] = "absent" <=> raw[t] = "absent"
    /\ sig'[t] = "absent" <=> sig[t] = "absent"
    /\ sub'[t] = "absent" <=> sub[t] = "absent"

LEMMA SameStage ==
    ASSUME \A u \in Tx : SameNames(u)
    PROVE  lifeBar' = lifeBar
BY DEF SameNames, lifeBar, Unsigned, Unsent, Submitted, Present

(* A step that touches one transaction moves it, or nothing.               *)
LEMMA OneMoves ==
    ASSUME NEW t \in Tx, \A u \in Tx \ {t} : SameNames(u)
    PROVE  /\ lifeBar' = [lifeBar EXCEPT ![t] = lifeBar'[t]]
           /\ lifeBar' = lifeBar \/ lifeBar'[t] # lifeBar[t]
<1>1. \A u \in Tx \ {t} : lifeBar'[u] = lifeBar[u]
  BY DEF SameNames, lifeBar, Unsigned, Unsent, Submitted, Present
<1>2. lifeBar' = [u \in Tx |-> lifeBar'[u]] /\ lifeBar = [u \in Tx |-> lifeBar[u]]
  BY DEF lifeBar
<1> QED
  BY <1>1, <1>2

LEMMA RawGone ==
    ASSUME NEW t \in Tx, TypeInv, SentNotUnsigned, raw' = Remove(raw, t), UNCHANGED <<sig, sub>>
    PROVE  Life!LifeNext \/ lifeBar' = lifeBar
<1>1. \A u \in Tx \ {t} : SameNames(u)
  BY DEF TypeInv, TypeOK, DeviceTypeOK, Remove, SameNames
<1>2. lifeBar'[t] = lifeBar[t] \/ (lifeBar[t] = "unsigned" /\ lifeBar'[t] = "none")
  BY DEF TypeInv, TypeOK, DeviceTypeOK, Remove, lifeBar, SentNotUnsigned, Unsigned, Unsent, Submitted, Present
<1> QED
  BY <1>1, <1>2, OneMoves DEF Life!LifeNext, Life!AbortTx, Life!Move

LEMMA SigGone ==
    ASSUME NEW t \in Tx, TypeInv, sig' = Remove(sig, t), UNCHANGED <<raw, sub>>,
           raw[t] = "absent"
    PROVE  Life!LifeNext \/ lifeBar' = lifeBar
<1>1. \A u \in Tx \ {t} : SameNames(u)
  BY DEF TypeInv, TypeOK, DeviceTypeOK, Remove, SameNames
<1>2. lifeBar'[t] = lifeBar[t] \/ (lifeBar[t] = "signed" /\ lifeBar'[t] = "none")
  BY DEF TypeInv, TypeOK, DeviceTypeOK, Remove, lifeBar, SentNotUnsigned, Unsigned, Unsent, Submitted, Present
<1> QED
  BY <1>1, <1>2, OneMoves DEF Life!LifeNext, Life!AbortTx, Life!Move

LEMMA LifeOnline ==
    ASSUME Alone, OrderedInv, NEW p \in Procs, Command(p) \/ Progress(p)
    PROVE  Life!LifeNext \/ lifeBar' = lifeBar
<1> USE DEF OrderedInv, LoneInv, TypeInv, TypeOK, DeviceTypeOK, OnlineTypeOK, Targets, AtWork
<1>1. CASE Command(p)
  BY <1>1, SameStage DEF Command, Start, StartCreate, StartBump, StartSend, StartAbort, Status, SameNames
<1>2. ASSUME NEW t \in Tx, Compose(p, t)
      PROVE  Life!LifeNext \/ lifeBar' = lifeBar
  <2>1. InFlight = {}
    BY <1>2 DEF FlightInv, Compose
  <2>2. Life!InFlight = {}
    BY <2>1 DEF Life!InFlight, lifeBar, InFlight, Unsigned, Unsent, UnsentRaw, Submitted, Present, SentNotUnsigned
  <2>3. lifeBar[t] = "none"
    BY <1>2, <2>1 DEF Compose, lifeBar, InFlight, Unsigned, Unsent, UnsentRaw, Submitted, Present
  <2>4. \A u \in Tx \ {t} : SameNames(u)
    BY <1>2 DEF Compose, Open, SameNames
  <2>5. lifeBar'[t] \in {"none", "unsigned"}
    BY <1>2, <2>1 DEF Compose, Open, lifeBar, InFlight, Unsigned, Unsent, UnsentRaw, Submitted, Present
  <2> QED
    BY <2>2, <2>3, <2>4, <2>5, OneMoves DEF Life!LifeNext, Life!CreateTx, Life!Move
<1>3. CASE OpenSub(p)
  <2> DEFINE t == tgt[p]
  <2>1. t \in Unsent
    BY <1>3 DEF OpenSub, AimInv
  <2>2. t \in Tx /\ lifeBar[t] = "signed"
    BY <2>1 DEF Unsigned, Unsent, Present, lifeBar
  <2>3. \A u \in Tx \ {t} : SameNames(u)
    BY <1>3, <2>2 DEF OpenSub, Open, SameNames
  <2>4. lifeBar'[t] \in {"signed", "sent"}
    BY <1>3, <2>1, <2>2 DEF OpenSub, Open, lifeBar, Unsigned, Unsent, Submitted, Present
  <2> QED
    BY <2>2, <2>3, <2>4, OneMoves DEF Life!LifeNext, Life!SendTx, Life!Move
<1>4. CASE Erased(p)
  <2>1. CASE "raw" \in todo[p]
    BY <1>4, <2>1, RawGone DEF Erased
  <2>2. CASE "raw" \notin todo[p]
    <3>1. todo[p] = {"sig"}
      BY <1>4, <2>2 DEF Erased, AimInv
    <3> QED
      BY <1>4, <2>2, <3>1, SigGone DEF Erased, AimInv
  <2> QED
    BY <2>1, <2>2
<1>5. CASE WroteRaw(p) \/ WroteSub(p)
  BY <1>5, SameStage DEF WroteRaw, WroteSub, Complete, SameNames
<1>6. CASE ShredRaw(p) \/ ShredSig(p)
  BY <1>6, SameStage DEF ShredRaw, ShredSig, Overwrite, SameNames
<1>7. CASE Send(p) \/ SendUnmarked(p) \/ MarkSent(p) \/ Confirm(p) \/ GiveUp(p) \/ Exit(p)
  BY <1>7, SameStage DEF Send, SendUnmarked, MarkSent, Confirm, GiveUp, Exit, SameNames
<1> QED
  BY <1>1, <1>2, <1>3, <1>4, <1>5, <1>6, <1>7 DEF Progress

LEMMA LifeOffline ==
    ASSUME OrderedInv, StartSign \/ Signing \/ StartClean \/ Cleaning
    PROVE  Life!LifeNext \/ lifeBar' = lifeBar
<1> USE DEF OrderedInv, LoneInv, TypeInv, TypeOK, DeviceTypeOK, OfflineTypeOK, Targets
<1>1. CASE Sign
  <2>1. CASE UNCHANGED sig
    BY <1>1, <2>1, SameStage DEF Sign, SameNames
  <2>2. CASE sig' # sig
    <3>1. sgTx \in Tx /\ raw[sgTx] = "full" /\ sig' = Open(sig, sgTx) /\ UNCHANGED <<raw, sub>>
      BY <1>1, <2>2 DEF Sign, CanSign
    <3>2. \A u \in Tx \ {sgTx} : SameNames(u)
      BY <3>1 DEF Open, SameNames
    <3>3. lifeBar'[sgTx] = lifeBar[sgTx] \/ (lifeBar[sgTx] = "unsigned" /\ lifeBar'[sgTx] = "signed")
      BY <3>1 DEF Open, lifeBar, Unsigned, Unsent, Submitted, Present, SentNotUnsigned
    <3> QED
      BY <3>1, <3>2, <3>3, OneMoves DEF Life!LifeNext, Life!SignTx, Life!Move
  <2> QED
    BY <2>1, <2>2
<1>2. CASE WroteSig
  BY <1>2, SameStage DEF WroteSig, Complete, SameNames
<1>3. ASSUME NEW t \in Tx, Visit(t)
      PROVE  lifeBar' = lifeBar
  BY <1>3, Victims, SameStage DEF Visit, SetFile, File, Overwrite, SameNames
<1>4. CASE CleanErased
  <2>1. CASE Victim(pass) = "raw"
    BY <1>4, <2>1, RawGone DEF CleanErased, SetFile, File
  <2>2. CASE Victim(pass) = "sig"
    <3>1. pass = 3
      BY <2>2 DEF Victim, CleanFiles
    <3>2. raw[clTx] = "absent"
      BY <1>4, <3>1 DEF CleanErased, DoomedInv, SweepInv
    <3> QED
      BY <1>4, <2>2, <3>2, SigGone DEF CleanErased, SetFile, File
  <2> QED
    BY <2>1, <2>2, Victims
<1>5. CASE StartSign \/ SignUmount \/ StartClean \/ NextPass \/ CleanDone \/ CleanUmount
  BY <1>5, SameStage DEF StartSign, SignUmount, StartClean, NextPass, CleanDone, CleanUmount, SameNames
<1> QED
  BY <1>1, <1>2, <1>3, <1>4, <1>5 DEF Signing, Cleaning

LEMMA LifeStep ==
    ASSUME Alone, OrderedInv, [Next]_vars
    PROVE  Life!LifeNext \/ lifeBar' = lifeBar
<1>1. CASE Online
  BY <1>1, LifeOnline, SameStage DEF Online, Confirmed, SameNames
<1>2. CASE Offline
  BY <1>2, LifeOffline DEF Offline
<1>3. CASE CarryDevice \/ UNCHANGED vars
  BY <1>3, SameStage DEF CarryDevice, Carry, vars, SameNames
<1>4. CASE Fault
  <2>1. \A u \in Tx : SameNames(u)
    BY <1>4, PowerLossKeepsNames DEF Fault, OnlinePowerLoss, OfflinePowerLoss, Kill, Present, SameNames
  <2> QED
    BY <2>1, SameStage
<1> QED
  BY <1>1, <1>2, <1>3, <1>4 DEF Next

(* With one terminal in use, and the signer and the cleaner run in turn,   *)
(* the two machines implement TxLifecycle: every step of a command, kill   *)
(* or power failure moves one transaction one stage on, or none, and what  *)
(* is sent is never up for signing or sending again.                       *)
THEOREM LifecycleKept ==
    ASSUME OneAtATime, \A p, q \in Procs : p = q
    PROVE  Spec => Lifecycle
<1>1. Init => Life!LifeInit
  BY DEF Init, DeviceInit, Blank, Life!LifeInit, lifeBar, Unsigned, Unsent, Submitted, Present
<1>2. OrderedInv /\ [Next]_vars => [Life!LifeNext]_lifeBar
  BY LifeStep DEF Alone
<1>3. Spec => []OrderedInv
  BY OrderedInvariant DEF Alone
<1> QED
  BY <1>1, <1>2, <1>3, PTL DEF Spec, Lifecycle, Life!LifeSpec
=============================================================================
