---------------------------- MODULE TxLifecycle ----------------------------
(***************************************************************************)
(* What the removable device promises its user: one transaction at a time  *)
(* is created, signed and sent, or aborted on the way; what has been sent  *)
(* stays sent.                                                             *)
(***************************************************************************)
CONSTANTS Tx

VARIABLES life

Stage == {"none", "unsigned", "signed", "sent"}

LifeInit == life = [t \in Tx |-> "none"]

InFlight == {t \in Tx : life[t] \in {"unsigned", "signed"}}

Move(t, from, to) == life[t] \in from /\ life' = [life EXCEPT ![t] = to]

CreateTx(t) == InFlight = {} /\ Move(t, {"none"}, "unsigned")

SignTx(t) == Move(t, {"unsigned"}, "signed")

SendTx(t) == Move(t, {"signed"}, "sent")

AbortTx(t) == Move(t, {"unsigned", "signed"}, "none")

LifeNext == \E t \in Tx : CreateTx(t) \/ SignTx(t) \/ SendTx(t) \/ AbortTx(t)

LifeSpec == LifeInit /\ [][LifeNext]_life
=============================================================================
