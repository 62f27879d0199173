------------------------ MODULE Transactions_proofs ------------------------
(***************************************************************************)
(* Theorems of components that MCTransactions hosts, for any jobs: what    *)
(* sending records and tells (TxSend), which address is picked for the     *)
(* change (ChangeAddr), that a transaction balances, first and every time  *)
(* it is replaced (TxCreate), where the value of an option comes from      *)
(* (Config), how questions are answered (Prompts), and that a swap is the  *)
(* one asked for (Swaps).                                                  *)
(***************************************************************************)
EXTENDS MCTransactions, SequenceTheorems, FiniteSetTheorems, WellFoundedInduction, TLAPS

USE DEF Sending!sendVars, Sending!Keep

----------------------------------------------------------------------------
Places == {"none", "mempool", "chain", "failed", "replaced", "evicted"}

Answers == {"", "mempool", "confirmed", "nowhere", "not in wallet", "replaced", "nothing", "receipt", "none"}

Parts == 1 .. job.parts

(* The part in hand is one of those asked for; those before it are done.   *)
SendTyped ==
    /\ job \in Sending!Job
    /\ where \in [Parts -> Places]
    /\ taken \subseteq Parts
    /\ told \in [Parts -> Answers]
    /\ sent \in {"no", "node", "proxy"}
    /\ step \notin {"start", "died", "declined"} => part \in Parts /\ (job.idx = 0 \/ part = job.idx)
    /\ step \in {"send", "wait", "sent", "marked"} => job.act = "send"
    /\ step = "sent" /\ job.idx = 0 => part = job.parts

(* The parts that have been dealt with, when the next is, or all are.      *)
DealtWith == IF step = "send" THEN 1 .. (part - 1) ELSE 1 .. part

(* One part after another is taken by the node, and waited for.            *)
SendInv ==
    /\ SendTyped
    /\ sent # "no" => taken # {}
    /\ step \in {"wait", "sent"} /\ ~job.proxy => sent # "no"
    /\ step \in {"send", "wait", "sent"} /\ ~job.proxy /\ job.idx = 0 => DealtWith \subseteq taken
    /\ step = "sent" /\ sent # "no" /\ allOk /\ job.wait /\ job.kind = "eth" => where[part] = "chain"
    /\ step \in {"send", "wait", "sent"} /\ ~job.proxy /\ allOk /\ job.wait /\ job.kind = "eth" =>
          \A p \in Parts : (job.idx = 0 /\ p < part) => where[p] = "chain"
    /\ Sending!RecordTrue

LEMMA SendTypedNext == SendTyped /\ [Sending!Next]_Sending!sendVars => SendTyped'
<1> SUFFICES ASSUME SendTyped, [Sending!Next]_Sending!sendVars PROVE SendTyped'
  OBVIOUS
<1> USE DEF SendTyped, Parts
<1>0. job.parts \in {1, 2} /\ job.idx \in Nat
  BY DEF Sending!Job
<1>1. CASE Sending!Start
  <2>1. CASE step' \in {"died", "declined"}
    BY <1>1, <2>1 DEF Sending!Start, Sending!End
  <2>2. CASE step' \notin {"died", "declined"}
    <3>1. /\ UNCHANGED <<job, where, sent, allOk, taken, told, seen, moves>>
          /\ step' = job.act /\ part' = Sending!First
          /\ job.idx # 0 => job.parts = 2 /\ job.idx <= 2
      BY <1>0, <1>1, <2>2 DEF Sending!Start, Sending!End
    <3>2. Sending!First = IF job.idx = 0 THEN 1 ELSE job.idx
      <4>1. CASE job.idx = 0
        <5>1. 1 \in 1 .. job.parts /\ \A q \in 1 .. job.parts : 1 <= q
          BY <1>0
        <5>2. \A p \in 1 .. job.parts : (\A q \in 1 .. job.parts : p <= q) => p = 1
          BY <1>0
        <5> QED
          BY <4>1, <5>1, <5>2 DEF Sending!First, Sending!Idxs
      <4>2. CASE job.idx # 0
        <5>1. \A q \in {job.idx} : job.idx <= q
          BY <1>0
        <5> QED
          BY <4>2, <5>1 DEF Sending!First, Sending!Idxs
      <4> QED
        BY <4>1, <4>2
    <3>3. part' \in Parts
      BY <1>0, <3>1, <3>2
    <3>4. job.act \in {"send", "status", "receipt", "test", "dump"}
      BY DEF Sending!Job
    <3> QED
      BY <3>1, <3>2, <3>3, <3>4
  <2> QED
    BY <2>1, <2>2
<1>2. CASE Sending!SendWithNode \/ Sending!SendByProxy
  BY <1>2 DEF Sending!SendWithNode, Sending!SendByProxy, Sending!Take, Sending!Free, Places
<1>3. CASE Sending!PostNetworkSend
  <2>1. UNCHANGED <<job, where, sent, taken, told>> /\ step = "wait"
    BY <1>3 DEF Sending!PostNetworkSend
  <2>2. IF part + 1 \in Sending!Idxs THEN step' = "send" /\ part' = part + 1 ELSE step' = "sent" /\ part' = part
    BY <1>3 DEF Sending!PostNetworkSend, Sending!NextPart
  <2> QED
    BY <1>0, <2>1, <2>2 DEF Sending!Idxs
<1>4. CASE Sending!Finish
  BY <1>4 DEF Sending!Finish
<1>5. CASE Sending!Test
  BY <1>5 DEF Sending!Test, Sending!End
<1>6. CASE Sending!is_in_mempool \/ Sending!InMempool \/ Sending!is_in_wallet \/ Sending!is_in_utxos \/ Sending!is_replaced
  <2>1. UNCHANGED <<job, where, sent, taken>> /\ step \in {"status", "in mempool", "in wallet?", "in utxos?", "replaced?"}
    BY <1>6 DEF Sending!is_in_mempool, Sending!InMempool, Sending!is_in_wallet, Sending!is_in_utxos,
                Sending!is_replaced, Sending!Status
  <2>2. \/ /\ step' \in {"in mempool", "in wallet?", "in utxos?", "replaced?", "died"}
           /\ UNCHANGED <<part, told>>
        \/ \E what \in Answers : Sending!Answer(what)
    <3>1. CASE Sending!is_in_mempool \/ Sending!InMempool
      BY <3>1 DEF Sending!is_in_mempool, Sending!InMempool, Answers
    <3>2. CASE Sending!is_in_wallet
      BY <3>2 DEF Sending!is_in_wallet, Sending!Ask, Answers
    <3>3. CASE Sending!is_in_utxos \/ Sending!is_replaced
      BY <3>3 DEF Sending!is_in_utxos, Sending!is_replaced, Sending!Ask, Answers
    <3> QED
      BY <1>6, <3>1, <3>2, <3>3
  <2>3. /\ told' \in [Parts -> Answers] /\ part' \in Parts /\ (job.idx = 0 \/ part' = job.idx)
        /\ step' \notin {"send", "wait", "sent", "marked"}
    BY <1>0, <2>1, <2>2 DEF Sending!Answer, Sending!Idxs
  <2> QED
    BY <2>1, <2>3
<1>7. CASE Sending!get_receipt
  <2>1. UNCHANGED <<job, where, sent, taken>> /\ step = "receipt"
    BY <1>7 DEF Sending!get_receipt
  <2>2. /\ told' \in [Parts -> Answers] /\ part' \in Parts /\ (job.idx = 0 \/ part' = job.idx)
        /\ step' \in {"receipt", "done", "died"}
    BY <1>0, <1>7, <2>1 DEF Sending!get_receipt, Sending!Idxs, Answers
  <2> QED
    BY <2>1, <2>2
<1>8. CASE Sending!Network
  <2>1. UNCHANGED <<job, step, part, sent, taken, told>>
    BY <1>8 DEF Sending!Network
  <2>2. where' \in [Parts -> Places]
    BY <1>8 DEF Sending!Network, Sending!Becomes, Places
  <2> QED
    BY <2>1, <2>2
<1>9. CASE UNCHANGED Sending!sendVars
  BY <1>9
<1> QED
  BY <1>1, <1>2, <1>3, <1>4, <1>5, <1>6, <1>7, <1>8, <1>9 DEF Sending!Next

(* What the network does: it goes on, and what is in a block stays.        *)
LEMMA Moves ==
    ASSUME SendTyped, Sending!Network
    PROVE  /\ UNCHANGED <<job, step, part, sent, allOk, taken, told>>
           /\ \E p \in Parts, place \in Places :
                 /\ where' = [where EXCEPT ![p] = place] /\ where[p] \in {"none", "mempool"}
                 /\ seen' = IF p = part THEN seen \union {place} ELSE seen
<1>0. PICK p \in DOMAIN where : \E place \in Sending!Becomes(p) :
         /\ where' = [where EXCEPT ![p] = place]
         /\ seen' = IF p = part THEN seen \union {place} ELSE seen
  BY DEF Sending!Network
<1>1. PICK place \in Sending!Becomes(p) :
         /\ where' = [where EXCEPT ![p] = place]
         /\ seen' = IF p = part THEN seen \union {place} ELSE seen
  BY <1>0
<1>2. p \in Parts
  BY DEF SendTyped
<1>3. where[p] \in {"none", "mempool"} /\ place \in Places
  <2>1. CASE where[p] = "none"
    BY <2>1 DEF Sending!Becomes, Places
  <2>2. CASE where[p] = "mempool"
    BY <2>2 DEF Sending!Becomes, Places
  <2>3. CASE where[p] \notin {"none", "mempool"}
    BY <2>3 DEF Sending!Becomes
  <2> QED
    BY <2>1, <2>2, <2>3
<1> QED
  BY <1>1, <1>2, <1>3 DEF Sending!Network

LEMMA SendInit == Sending!SendAssumption /\ Sending!Init => SendInv
<1> SUFFICES ASSUME Sending!SendAssumption, Sending!Init PROVE SendInv
  OBVIOUS
<1>1. job \in Sending!Job /\ step = "start" /\ sent = "no"
  BY DEF Sending!Init, Sending!SendAssumption
<1>2. where \in [Parts -> Places] /\ taken \subseteq Parts /\ told \in [Parts -> Answers]
  BY DEF Sending!Init, Parts, Places, Answers
<1> QED
  BY <1>1, <1>2 DEF SendInv, SendTyped, Sending!RecordTrue

LEMMA SendNext == SendInv /\ [Sending!Next]_Sending!sendVars => SendInv'
<1> SUFFICES ASSUME SendInv, [Sending!Next]_Sending!sendVars PROVE SendInv'
  OBVIOUS
<1>0. SendTyped /\ SendTyped' /\ job.parts \in {1, 2} /\ job.idx \in Nat
  BY SendTypedNext DEF SendInv, SendTyped, Sending!Job
<1> USE DEF SendInv, DealtWith, Parts, Sending!RecordTrue
<1>1. CASE Sending!Start
  <2>1. UNCHANGED <<where, sent, taken, job>> /\ sent' = sent
        /\ step' \in {"died", "declined", "send", "status", "receipt", "test", "dump"}
    BY <1>0, <1>1 DEF Sending!Start, Sending!End, SendTyped, Sending!Job
  <2>2. step' = "send" /\ job.idx = 0 => part' = 1
    <3>1. \A p \in 1 .. job.parts : (\A q \in 1 .. job.parts : p <= q) => p = 1
      BY <1>0
    <3>2. 1 \in 1 .. job.parts /\ \A q \in 1 .. job.parts : 1 <= q
      BY <1>0
    <3> QED
      BY <1>1, <3>1, <3>2 DEF Sending!Start, Sending!End, Sending!First, Sending!Idxs
  <2> QED
    BY <1>0, <2>1, <2>2 DEF SendTyped
<1>2. CASE Sending!SendWithNode \/ Sending!SendByProxy
  <2>1. /\ UNCHANGED <<job, allOk, part>> /\ step = "send" /\ step' \in {"wait", "died"}
        /\ taken \subseteq taken' /\ (sent' = sent \/ part \in taken')
        /\ step' = "wait" /\ ~job.proxy => part \in taken' /\ sent' # "no"
        /\ \A p \in Parts : where[p] = "chain" => where'[p] = "chain"
    BY <1>0, <1>2 DEF Sending!SendWithNode, Sending!SendByProxy, Sending!Take, Sending!Free, SendTyped
  <2>2. ASSUME step' = "wait", ~job.proxy, job.idx = 0
        PROVE  DealtWith' \subseteq taken'
    <3>1. part \in Nat /\ 1 .. part = 1 .. (part - 1) \union {part}
      BY <1>0, <2>1 DEF SendTyped
    <3> QED
      BY <2>1, <2>2, <3>1
  <2> QED
    BY <1>0, <2>1, <2>2 DEF SendTyped
<1>3. CASE Sending!PostNetworkSend
  <2>1. /\ UNCHANGED <<job, where, sent, taken>> /\ step = "wait" /\ (allOk' => allOk)
        /\ \/ step' = "send" /\ part' = part + 1
           \/ step' = "sent" /\ part' = part
    BY <1>3 DEF Sending!PostNetworkSend, Sending!NextPart
  <2>2. allOk' /\ job.wait /\ sent # "no" /\ job.kind = "eth" => where[part] = "chain"
    BY <1>3 DEF Sending!PostNetworkSend, SendTyped, Sending!Job
  <2>3. part \in Nat
    BY <1>0, <2>1 DEF SendTyped
  <2>4. DealtWith' = DealtWith
    BY <2>1, <2>3
  <2>5. ASSUME ~job.proxy, allOk', job.wait, job.kind = "eth", NEW p \in Parts, job.idx = 0, p < part'
        PROVE  where[p] = "chain"
    <3>1. CASE p < part
      BY <2>1, <2>5, <3>1
    <3>2. CASE p = part
      BY <2>1, <2>2, <2>5, <3>2
    <3> QED
      BY <2>1, <2>3, <2>5, <3>1, <3>2
  <2> QED
    BY <1>0, <2>1, <2>2, <2>4, <2>5
<1>4. CASE Sending!Finish
  <2>1. /\ UNCHANGED <<job, where, sent, taken, part, allOk>> /\ step = "sent"
        /\ step' \in {"marked", "done"}
        /\ step' = "marked" => job.idx = 0 /\ sent # "no" /\ allOk
    BY <1>4 DEF Sending!Finish
  <2>2. step' = "marked" => part = job.parts /\ job.act = "send" /\ taken # {}
    BY <1>0, <2>1 DEF SendTyped
  <2>3. step' = "marked" /\ ~job.proxy => taken = 1 .. job.parts
    BY <1>0, <2>1, <2>2 DEF SendTyped
  <2>4. step' = "marked" /\ job.wait /\ job.kind = "eth" => where[job.parts] = "chain"
    BY <2>1, <2>2
  <2>5. step' = "marked" /\ ~job.proxy /\ job.wait /\ job.kind = "eth" => where[1] = "chain"
    <3>1. CASE job.parts = 1
      BY <2>4, <3>1
    <3>2. CASE job.parts = 2
      <4>1. 1 \in Parts /\ 1 < job.parts
        BY <3>2
      <4> QED
        BY <2>1, <2>2, <4>1
    <3> QED
      BY <1>0, <3>1, <3>2
  <2> QED
    BY <1>0, <2>1, <2>2, <2>3, <2>4, <2>5
<1>5. CASE Sending!Test
  BY <1>0, <1>5 DEF Sending!Test, Sending!End
<1>6. CASE \/ Sending!is_in_mempool \/ Sending!InMempool \/ Sending!is_in_wallet \/ Sending!is_in_utxos
           \/ Sending!is_replaced \/ Sending!get_receipt
  <2>1. UNCHANGED <<sent, taken>> /\ step' \notin {"send", "wait", "sent", "marked"}
    <3>1. CASE Sending!is_in_mempool \/ Sending!InMempool
      BY <3>1 DEF Sending!is_in_mempool, Sending!InMempool, Sending!Status, Sending!Answer
    <3>2. CASE Sending!is_in_wallet
      BY <3>2 DEF Sending!is_in_wallet, Sending!Status, Sending!Answer, Sending!Ask
    <3>3. CASE Sending!is_in_utxos \/ Sending!is_replaced
      BY <3>3 DEF Sending!is_in_utxos, Sending!is_replaced, Sending!Status, Sending!Answer, Sending!Ask
    <3>4. CASE Sending!get_receipt
      BY <3>4 DEF Sending!get_receipt
    <3> QED
      BY <1>6, <3>1, <3>2, <3>3, <3>4
  <2> QED
    BY <1>0, <2>1
<1>7. CASE Sending!Network
  <2>1. /\ UNCHANGED <<job, step, part, sent, allOk, taken>>
        /\ \A p \in Parts : where[p] = "chain" => where'[p] = "chain"
    BY <1>0, <1>7, Moves DEF SendTyped
  <2>2. part \in Parts \/ step \notin {"sent", "send", "wait", "marked"}
    BY <1>0 DEF SendTyped
  <2>3. 1 \in Parts /\ job.parts \in Parts
    BY <1>0
  <2> QED
    BY <1>0, <2>1, <2>2, <2>3
<1>8. CASE UNCHANGED Sending!sendVars
  BY <1>0, <1>8
<1> QED
  BY <1>1, <1>2, <1>3, <1>4, <1>5, <1>6, <1>7, <1>8 DEF Sending!Next

(* A transaction is recorded as sent only when all of it has been, and     *)
(* executed if that was waited for.                                        *)
THEOREM RecordedAsSent == ASSUME Sending!SendAssumption PROVE Sending!Spec => []Sending!RecordTrue
<1>1. SendInv => Sending!RecordTrue
  BY DEF SendInv
<1>2. Sending!Init => SendInv
  BY SendInit
<1> QED
  BY <1>1, <1>2, SendNext, PTL DEF Sending!Spec

----------------------------------------------------------------------------
(* The answers of the node to one question after another.                  *)
InSight == {"mempool", "chain", "failed"}

StatusInv ==
    /\ SendTyped
    /\ step \in {"in mempool", "in wallet?", "in utxos?", "replaced?"} => where[part] \in seen
    /\ step = "in mempool" => "mempool" \in seen
    /\ step = "in wallet?" => Sending!Confirmed(part) \/ ~(seen \subseteq InSight)
    /\ step \in {"in utxos?", "replaced?"} /\ job.own => ~(seen \subseteq InSight)
    /\ step \in {"test", "dump", "receipt"} => job.act = step
    /\ Sending!StatusTrue

LEMMA StatusNext == StatusInv /\ [Sending!Next]_Sending!sendVars => StatusInv'
<1> SUFFICES ASSUME StatusInv, [Sending!Next]_Sending!sendVars PROVE StatusInv'
  OBVIOUS
<1>0. SendTyped /\ SendTyped'
  BY SendTypedNext DEF StatusInv
<1> USE DEF StatusInv, Sending!StatusTrue, Sending!Told, Sending!Confirmed, InSight
<1>1. CASE Sending!Start
  BY <1>0, <1>1 DEF Sending!Start, Sending!End, SendTyped, Sending!Job
<1>2. CASE Sending!SendWithNode \/ Sending!SendByProxy \/ Sending!PostNetworkSend
  BY <1>0, <1>2 DEF Sending!SendWithNode, Sending!SendByProxy, Sending!PostNetworkSend, Sending!NextPart
<1>3. CASE Sending!Finish
  BY <1>0, <1>3 DEF Sending!Finish, SendTyped
<1>4. CASE Sending!Test
  BY <1>0, <1>4 DEF Sending!Test, Sending!End
<1>5. CASE Sending!get_receipt
  BY <1>0, <1>5 DEF Sending!get_receipt
<1>6. CASE Sending!is_in_mempool
  BY <1>0, <1>6 DEF Sending!is_in_mempool, Sending!Status, SendTyped, Places
<1>7. ASSUME NEW what \in Answers, Sending!Status, Sending!Answer(what),
             step \in {"in mempool", "in wallet?", "in utxos?", "replaced?"},
             what = "mempool" => "mempool" \in seen,
             what = "confirmed" => seen \intersect {"chain", "failed"} # {},
             what \in {"nowhere", "nothing"} => ~(seen \subseteq InSight) \/ ~job.own,
             what = "replaced" => seen \intersect {"replaced", "evicted"} # {}
      PROVE  StatusInv'
  <2>1. told'[part] = what /\ seen' = seen /\ (step' = "status" \/ (step' = "done" /\ part' = part))
    BY <1>0, <1>7 DEF Sending!Answer, SendTyped
  <2> QED
    BY <1>0, <1>7, <2>1 DEF Sending!Status
<1>8. CASE Sending!InMempool
  BY <1>0, <1>7, <1>8 DEF Sending!InMempool, Sending!Status, Answers
<1>9. CASE Sending!is_in_wallet
  <2>1. Sending!Status /\ step = "in wallet?"
    BY <1>9 DEF Sending!is_in_wallet
  <2>2. \/ Sending!Confirmed(part) /\ Sending!Answer("confirmed")
        \/ ~Sending!Confirmed(part) /\ Sending!Answer("nowhere")
        \/ ~(job.own /\ Sending!Confirmed(part)) /\ Sending!Ask("in utxos?")
    BY <1>9 DEF Sending!is_in_wallet
  <2>3. CASE Sending!Confirmed(part) /\ Sending!Answer("confirmed")
    BY <1>0, <1>7, <2>1, <2>3 DEF Answers
  <2>4. CASE ~Sending!Confirmed(part) /\ Sending!Answer("nowhere")
    BY <1>0, <1>7, <2>1, <2>4 DEF Answers
  <2>5. CASE ~(job.own /\ Sending!Confirmed(part)) /\ Sending!Ask("in utxos?")
    BY <1>0, <2>1, <2>5 DEF Sending!Ask, Sending!Status
  <2> QED
    BY <2>2, <2>3, <2>4, <2>5
<1>10. CASE Sending!is_in_utxos
  BY <1>0, <1>7, <1>10 DEF Sending!is_in_utxos, Sending!Status, Sending!Ask, Answers
<1>11. CASE Sending!is_replaced
  BY <1>0, <1>7, <1>11 DEF Sending!is_replaced, Answers
<1>12. CASE Sending!Network
  <2>1. UNCHANGED <<job, step, part, sent, allOk, taken, told>>
    BY <1>0, <1>12, Moves
  <2>2. PICK p \in Parts, place \in Places :
          /\ where' = [where EXCEPT ![p] = place] /\ where[p] \in {"none", "mempool"}
          /\ seen' = IF p = part THEN seen \union {place} ELSE seen
    BY <1>0, <1>12, Moves
  <2>3. part \in Parts \/ step \in {"start", "died", "declined"}
    BY <1>0 DEF SendTyped
  <2>4. where \in [Parts -> Places]
    BY <1>0 DEF SendTyped
  <2>5. CASE p = part
    BY <1>0, <2>1, <2>2, <2>3, <2>4, <2>5
  <2>6. CASE p # part
    BY <1>0, <2>1, <2>2, <2>3, <2>4, <2>6
  <2> QED
    BY <2>5, <2>6
<1>13. CASE UNCHANGED Sending!sendVars
  BY <1>0, <1>13
<1> QED
  BY <1>1, <1>2, <1>3, <1>4, <1>5, <1>6, <1>8, <1>9, <1>10, <1>11, <1>12, <1>13 DEF Sending!Next

(* What the user is told of a transaction was so at some time of the       *)
(* asking.                                                                 *)
THEOREM ToldTheTruth == ASSUME Sending!SendAssumption PROVE Sending!Spec => []Sending!StatusTrue
<1>1. Sending!Init => StatusInv
  BY SendInit DEF SendInv, StatusInv, Sending!Init, Sending!StatusTrue
<1>2. StatusInv => Sending!StatusTrue
  BY DEF StatusInv
<1> QED
  BY <1>1, <1>2, StatusNext, PTL DEF Sending!Spec

----------------------------------------------------------------------------
(* The choice of a change address (ChangeAddr).                            *)
USE DEF Change!vars, Change!fixed

LEMMA Least ==
    ASSUME NEW T, T \subseteq Nat, T # {}
    PROVE  \E m \in T : \A j \in T : m <= j
<1> DEFINE R == OpToRel(<, Nat)
<1>1. IsWellFoundedOn(R, Nat)
  BY NatLessThanWellFounded
<1>2. \A i \in Nat, j \in Nat : i < j => <<i, j>> \in R
  BY DEF OpToRel
<1> HIDE DEF R
<1>3. PICK m \in T : \A j \in T : <<j, m>> \notin R
  BY <1>1, WFMin
<1>4. \A j \in T : ~ (j < m)
  BY <1>2, <1>3
<1> QED
  BY <1>3, <1>4

LEMMA Greatest ==
    ASSUME NEW b \in Nat, NEW T, T \subseteq 0 .. b, T # {}
    PROVE  \E m \in T : \A j \in T : m >= j
<1> DEFINE U == {b - j : j \in T}
<1>1. PICK u \in U : \A v \in U : u <= v
  <2>1. U \subseteq Nat /\ U # {}
    <3>1. \A j \in T : j \in Nat /\ b - j \in Nat
      OBVIOUS
    <3> QED
      BY <3>1
  <2> HIDE DEF U
  <2> QED
    BY <2>1, Least
<1>2. PICK m \in T : u = b - m
  BY <1>1
<1>3. ASSUME NEW j \in T PROVE m >= j
  <2>1. b - m <= b - j /\ m \in 0 .. b /\ j \in 0 .. b
    BY <1>1, <1>2
  <2> QED
    BY <2>1
<1> QED
  BY <1>3

(* The entries of one seed and type that may be picked, and the first.     *)
Candidate(s, t, i) ==
    i \in DOMAIN data /\ data[i].sid = s /\ data[i].type = t /\ Change!Free(data[i])

First(s, t, i) == Candidate(s, t, i) /\ \A j \in DOMAIN data : Candidate(s, t, j) => i <= j

(* What has been found in the seeds looked at.                             *)
Found(done) ==
    LET t == Head(types) IN
    /\ \A e \in res \ {NoAddr} : \E s \in Change!Seeds : \E i \in DOMAIN data : First(s, t, i) /\ data[i] = e
    /\ \A s \in done : \A i \in DOMAIN data : Candidate(s, t, i) =>
          \E j \in DOMAIN data : First(s, t, j) /\ data[j] \in res

(* What the bisection has shown: no entry before bot is of the list, and,  *)
(* if top is before the end of its seed, none after an entry that is not   *)
(* of the list.                                                            *)
Bisected ==
    LET s == data[top].sid
        t == Head(types) IN
    /\ bot \in Nat /\ top \in DOMAIN data /\ 1 <= bot /\ bot <= top
    /\ bot # top => mid \in Nat /\ 1 <= mid /\ mid < top
    /\ s \in Change!Seeds \ sids
    /\ \A i \in DOMAIN data : i < bot /\ data[i].sid = s => data[i].type < t
    /\ (\A i \in DOMAIN data : top < i => data[i].sid # s) \/ data[top].type >= t

(* The types tried before are those before the ones left.                  *)
TriedBefore ==
    LET off == Len(Change!Tried) - Len(types) IN
    /\ types \in Seq(Types) /\ Change!Tried \in Seq(Types) /\ off \in Nat
    /\ \A i \in DOMAIN types : types[i] = Change!Tried[off + i]
    /\ \A h \in 1 .. off : Change!FreeOfType(Change!Tried[h]) = {}

ChangeInv ==
    /\ data \in Seq(Change!Entry) /\ Change!Sorted(data)
    /\ step \in {"type", "seed", "bisect", "done"}
    /\ step # "done" => picked = NoAddr /\ TriedBefore
    /\ step \in {"seed", "bisect"} => types # <<>> /\ sids \subseteq Change!Seeds
    /\ step = "seed" => Found(Change!Seeds \ sids)
    /\ step = "bisect" => Bisected /\ Found(Change!Seeds \ (sids \union {data[top].sid}))
    /\ Change!PicksFirstUnused

LEMMA DataTyped ==
    ASSUME ChangeInv
    PROVE  /\ Len(data) \in Nat /\ DOMAIN data = 1 .. Len(data)
           /\ \A i \in DOMAIN data : data[i] \in Change!Entry /\ i \in Nat /\ data[i].sid \in Nat /\ data[i].type \in Nat
<1>1. data \in Seq(Change!Entry)
  BY DEF ChangeInv
<1>2. \A i \in DOMAIN data : data[i] \in Change!Entry
  BY <1>1
<1> QED
  BY <1>1, <1>2 DEF Change!Entry

(* The first candidate of a list is there, if there is any.                *)
LEMMA FirstThere ==
    ASSUME ChangeInv, NEW s, NEW t, NEW i \in DOMAIN data, Candidate(s, t, i)
    PROVE  \E j \in DOMAIN data : First(s, t, j)
<1> DEFINE T == {j \in DOMAIN data : Candidate(s, t, j)}
<1>1. T \subseteq Nat /\ T # {}
  BY DataTyped
<1>2. PICK m \in T : \A j \in T : m <= j
  <2> HIDE DEF T
  <2> QED
    BY <1>1, Least
<1> QED
  BY <1>2 DEF First

(* The range of a seed is from its first entry to its last.                *)
LEMMA Ranges ==
    ASSUME ChangeInv, NEW s \in Change!Seeds
    PROVE  LET r == Change!SidRange(s) IN
           /\ r[1] \in DOMAIN data /\ r[2] \in DOMAIN data
           /\ data[r[1]].sid = s /\ data[r[2]].sid = s /\ r[1] <= r[2]
           /\ \A i \in DOMAIN data : data[i].sid = s => r[1] <= i /\ i <= r[2]
<1> DEFINE T == {i \in DOMAIN data : data[i].sid = s}
<1>1. T \subseteq Nat /\ T # {} /\ T \subseteq 0 .. Len(data) /\ Len(data) \in Nat
  BY DataTyped DEF Change!Seeds
<1>2. PICK a \in T : \A j \in T : a <= j
  <2> HIDE DEF T
  <2> QED
    BY <1>1, Least
<1>3. PICK z \in T : \A j \in T : z >= j
  <2> HIDE DEF T
  <2> QED
    BY <1>1, Greatest
<1>4. (CHOOSE i \in T : \A j \in T : i <= j) = a
  BY <1>1, <1>2
<1>5. (CHOOSE i \in T : \A j \in T : i >= j) = z
  BY <1>1, <1>3
<1>6. Change!SidRange(s) = <<a, z>>
  BY <1>4, <1>5 DEF Change!SidRange
<1> QED
  BY <1>1, <1>2, <1>3, <1>6

LEMMA Trying ==
    ASSUME TriedBefore, types # <<>>
    PROVE  LET off == Len(Change!Tried) - Len(types) IN
           /\ off + 1 \in DOMAIN Change!Tried /\ Head(types) = Change!Tried[off + 1]
           /\ off \in Nat
BY DEF TriedBefore

(* Free does not change, nor do the lists.                                 *)
LEMMA NextChoice ==
    ASSUME ChangeInv, Change!NextType PROVE ChangeInv'
<1>1. CASE types = <<>>
  <2>1. /\ step' = "done" /\ UNCHANGED <<data, mmtype, labels, exclude, types, picked, sids, res>>
        /\ step = "type"
    BY <1>1 DEF Change!NextType
  <2>2. \A h \in DOMAIN Change!Tried : Change!FreeOfType(Change!Tried[h]) = {}
    <3>1. TriedBefore /\ Len(types) = 0
      BY <1>1, <2>1 DEF ChangeInv
    <3>2. /\ Change!Tried \in Seq(Types) /\ Len(Change!Tried) - 0 \in Nat
          /\ \A h \in 1 .. (Len(Change!Tried) - 0) : Change!FreeOfType(Change!Tried[h]) = {}
      BY <3>1 DEF TriedBefore
    <3>3. DOMAIN Change!Tried = 1 .. (Len(Change!Tried) - 0)
      BY <3>2
    <3> QED
      BY <3>2, <3>3
  <2>3. Change!PicksFirstUnused'
    BY <2>1, <2>2 DEF ChangeInv, Change!PicksFirstUnused, Change!Tried, Change!FreeOfType, Change!Free
  <2> QED
    BY <2>1, <2>3 DEF ChangeInv, Change!Sorted
<1>2. CASE types # <<>>
  <2>1. /\ step' = "seed" /\ sids' = Change!Seeds /\ res' = {} /\ step = "type"
        /\ UNCHANGED <<data, mmtype, labels, exclude, types, picked>>
    BY <1>2 DEF Change!NextType
  <2>2. Change!Seeds' = Change!Seeds
    BY <2>1 DEF Change!Seeds
  <2>3. TriedBefore'
    BY <2>1 DEF ChangeInv, TriedBefore, Change!Tried, Change!FreeOfType, Change!Free
  <2>4. Found(Change!Seeds \ sids)'
    BY <2>1, <2>2 DEF Found
  <2> QED
    BY <1>2, <2>1, <2>2, <2>3, <2>4 DEF ChangeInv, Change!Sorted, Change!PicksFirstUnused
<1> QED
  BY <1>1, <1>2

LEMMA NextOfSeeds ==
    ASSUME ChangeInv, NEW s \in sids, Change!NextSeed(s) PROVE ChangeInv'
<1>1. /\ step = "seed" /\ step' = "bisect" /\ sids' = sids \ {s}
      /\ UNCHANGED <<data, mmtype, labels, exclude, types, picked, res>>
      /\ bot' = Change!SidRange(s)[1] /\ top' = Change!SidRange(s)[2] /\ mid' = (top' - 1) \div 2 + 1
  BY DEF Change!NextSeed
<1>2. s \in Change!Seeds /\ sids \subseteq Change!Seeds
  BY <1>1 DEF ChangeInv
<1>3. /\ bot' \in DOMAIN data /\ top' \in DOMAIN data
      /\ data[bot'].sid = s /\ data[top'].sid = s /\ bot' <= top'
      /\ \A i \in DOMAIN data : data[i].sid = s => bot' <= i /\ i <= top'
  BY <1>1, <1>2, Ranges
<1>4. Change!Seeds' = Change!Seeds /\ data[top]'.sid = s /\ Head(types)' = Head(types)
  BY <1>1, <1>3 DEF Change!Seeds
<1>5. bot' \in Nat /\ top' \in Nat /\ 1 <= bot'
  BY <1>3, DataTyped
<1>6. Bisected'
  <2>1. bot' # top' => mid' \in Nat /\ 1 <= mid' /\ mid' < top'
    BY <1>1, <1>3, <1>5
  <2>2. \A i \in DOMAIN data : i < bot' => data[i].sid # s
    BY <1>3, <1>5, DataTyped
  <2>3. \A i \in DOMAIN data : top' < i => data[i].sid # s
    BY <1>3, <1>5, DataTyped
  <2> QED
    BY <1>1, <1>2, <1>3, <1>4, <1>5, <2>1, <2>2, <2>3 DEF Bisected
<1>7. Found(Change!Seeds \ (sids \union {data[top].sid}))'
  <2>1. Found(Change!Seeds \ sids)
    BY <1>1 DEF ChangeInv
  <2>2. \A u, t, i : First(u, t, i)' = First(u, t, i) /\ Candidate(u, t, i)' = Candidate(u, t, i)
    BY <1>1 DEF First, Candidate, Change!Free
  <2>3. (sids \union {data[top].sid})' = sids
    BY <1>1, <1>4
  <2> HIDE DEF First, Candidate
  <2> QED
    BY <1>1, <1>4, <2>1, <2>2, <2>3 DEF Found
<1>8. TriedBefore'
  BY <1>1 DEF ChangeInv, TriedBefore, Change!Tried, Change!FreeOfType, Change!Free
<1> QED
  BY <1>1, <1>2, <1>4, <1>6, <1>7, <1>8 DEF ChangeInv, Change!Sorted, Change!PicksFirstUnused

(* The bisection keeps what it has shown.                                  *)
LEMMA BisectStep ==
    ASSUME Change!ChangeAssumption, ChangeInv, Change!Bisect PROVE ChangeInv'
<1> DEFINE s == data[top].sid
           t == Head(types)
<1>1. /\ step = "bisect" /\ bot # top
      /\ UNCHANGED <<data, mmtype, labels, exclude, step, types, picked, sids, res>>
      /\ mid' = (bot' + top' - 2) \div 2 + 1
      /\ IF Change!Below(data[mid], s, t) THEN bot' = mid + 1 /\ top' = top ELSE bot' = bot /\ top' = mid
  BY DEF Change!Bisect, Change!Sid
<1>2. Bisected
  BY <1>1 DEF ChangeInv
<1>3. /\ bot \in Nat /\ top \in DOMAIN data /\ 1 <= bot /\ bot < top
      /\ mid \in Nat /\ 1 <= mid /\ mid < top /\ s \in Change!Seeds \ sids
  BY <1>1, <1>2, DataTyped DEF Bisected
<1>4. mid \in DOMAIN data /\ top \in Nat
  BY <1>3, DataTyped
<1>5. /\ data[mid].sid \in Nat /\ data[mid].type \in Nat /\ s \in Nat /\ s # 99
      /\ data[mid].sid < s \/ (data[mid].sid = s /\ data[mid].type <= data[top].type)
  BY <1>3, <1>4, DataTyped DEF ChangeInv, Change!Sorted, Change!Seeds, Change!Foreign
<1>6. TriedBefore /\ types # <<>>
  BY <1>1 DEF ChangeInv
<1>7. t \in Nat
  <2>1. types \in Seq(Types) /\ Types \subseteq Nat
    BY <1>6 DEF TriedBefore, Change!ChangeAssumption
  <2>2. Head(types) \in Types
    BY <1>6, <2>1, HeadTailProperties
  <2> QED
    BY <2>1, <2>2
<1>8. Change!Seeds' = Change!Seeds
  BY <1>1 DEF Change!Seeds
<1>9. ASSUME Change!Below(data[mid], s, t) PROVE Bisected'
  <2>1. bot' = mid + 1 /\ top' = top /\ bot' <= top' /\ bot' \in Nat /\ 1 <= bot'
    BY <1>1, <1>3, <1>4, <1>9
  <2>2. ASSUME NEW i \in DOMAIN data, i < bot', data[i].sid = s
        PROVE  data[i].type < t
    <3>1. i \in Nat /\ i <= mid /\ data[i].type \in Nat
      BY <1>3, <2>1, <2>2, DataTyped
    <3>2. data[mid].sid = s /\ data[i].type <= data[mid].type
      <4>1. i = mid \/ i < mid
        BY <1>3, <3>1
      <4>2. i < mid => data[i].sid < data[mid].sid \/ (data[i].sid = data[mid].sid /\ (data[i].sid = 99 \/ data[i].type <= data[mid].type))
        BY <1>4, <2>2 DEF ChangeInv, Change!Sorted, Change!Foreign
      <4> QED
        BY <1>5, <2>2, <3>1, <4>1, <4>2
    <3>3. data[mid].type < t
      BY <1>5, <1>9, <3>2 DEF Change!Below
    <3> QED
      BY <1>5, <1>7, <3>1, <3>2, <3>3
  <2>3. bot' # top' => mid' \in Nat /\ 1 <= mid' /\ mid' < top'
    BY <1>1, <1>3, <1>4, <2>1
  <2> QED
    BY <1>1, <1>2, <1>3, <1>8, <2>1, <2>2, <2>3 DEF Bisected
<1>10. ASSUME ~Change!Below(data[mid], s, t) PROVE Bisected' /\ s' = s
  <2>1. data[mid].sid = s /\ data[mid].type >= t
    BY <1>5, <1>7, <1>10 DEF Change!Below
  <2>2. bot' = bot /\ top' = mid
    BY <1>1, <1>10
  <2>3. bot <= mid
    BY <1>2, <1>3, <1>4, <1>5, <1>7, <2>1 DEF Bisected
  <2>4. bot' # top' => mid' \in Nat /\ 1 <= mid' /\ mid' < top'
    BY <1>1, <1>3, <1>4, <2>2, <2>3
  <2>5. s' = s /\ t' = t
    BY <1>1, <2>1, <2>2
  <2> HIDE DEF s, t
  <2>6. /\ bot' \in Nat /\ top' \in DOMAIN data' /\ 1 <= bot' /\ bot' <= top'
        /\ s' \in (Change!Seeds \ sids)' /\ data'[top'].type >= t'
    BY <1>1, <1>3, <1>4, <1>8, <2>1, <2>2, <2>3, <2>5
  <2>7. \A i \in DOMAIN data' : i < bot' /\ data'[i].sid = s' => data'[i].type < t'
    BY <1>1, <1>2, <2>2, <2>5 DEF Bisected, s, t
  <2> QED
    BY <2>4, <2>5, <2>6, <2>7 DEF Bisected, s, t
<1>11. s' = s
  BY <1>1, <1>9, <1>10
<1>12. Found(Change!Seeds \ (sids \union {s}))'
  <2>1. Found(Change!Seeds \ (sids \union {s}))
    BY <1>1 DEF ChangeInv
  <2>2. \A u, v, i : First(u, v, i)' = First(u, v, i) /\ Candidate(u, v, i)' = Candidate(u, v, i)
    BY <1>1 DEF First, Candidate, Change!Free
  <2> HIDE DEF First, Candidate, s
  <2> QED
    BY <1>1, <1>8, <1>11, <2>1, <2>2 DEF Found
<1>13. TriedBefore'
  BY <1>1, <1>6 DEF TriedBefore, Change!Tried, Change!FreeOfType, Change!Free
<1>14. Bisected'
  BY <1>9, <1>10
<1>15. UNCHANGED <<data, mmtype, labels, exclude, step, types, picked, sids, res>> /\ step = "bisect"
  BY <1>1
<1> HIDE DEF s, t
<1> QED
  BY <1>6, <1>8, <1>12, <1>13, <1>14, <1>15 DEF ChangeInv, Change!Sorted, Change!PicksFirstUnused, s

(* At its end the bisection has the first entry of the list, if there is   *)
(* one.                                                                    *)
LEMMA AtTheFirst ==
    ASSUME Change!ChangeAssumption, ChangeInv, step = "bisect", bot = top
    PROVE  LET s == data[top].sid
               t == Head(types) IN
           \A i \in DOMAIN data : data[i].sid = s /\ data[i].type = t => bot <= i /\ data[bot].type = t
<1> DEFINE s == data[top].sid
           t == Head(types)
<1>1. Bisected /\ TriedBefore /\ types # <<>>
  BY DEF ChangeInv
<1>2. t \in Nat
  <2>1. types \in Seq(Types) /\ Types \subseteq Nat
    BY <1>1 DEF TriedBefore, Change!ChangeAssumption
  <2>2. Head(types) \in Types
    BY <1>1, <2>1, HeadTailProperties
  <2> QED
    BY <2>1, <2>2
<1>3. ASSUME NEW i \in DOMAIN data, data[i].sid = s, data[i].type = t
      PROVE  bot <= i /\ data[bot].type = t
  <2>1. i \in Nat /\ bot \in Nat /\ bot \in DOMAIN data /\ data[bot].type \in Nat /\ s # 99
    BY <1>1, DataTyped DEF Bisected, Change!Seeds, Change!Foreign
  <2>2. bot <= i
    BY <1>1, <1>2, <1>3, <2>1 DEF Bisected
  <2>3. CASE i = bot
    BY <1>3, <2>2, <2>3
  <2>4. CASE i # bot
    <3>1. data[top].type >= t
      BY <1>1, <1>3, <2>1, <2>2, <2>4 DEF Bisected
    <3>2. data[bot].type <= data[i].type
      BY <1>3, <2>1, <2>2, <2>4, DataTyped DEF ChangeInv, Change!Sorted, Change!Foreign
    <3> QED
      BY <1>2, <1>3, <2>1, <2>2, <3>1, <3>2
  <2> QED
    BY <2>3, <2>4
<1> HIDE DEF s, t
<1> QED
  BY <1>3 DEF s, t

(* What one seed has to offer is added.                                    *)
LEMMA ScanStep ==
    ASSUME Change!ChangeAssumption, ChangeInv, Change!Scan PROVE ChangeInv'
<1> DEFINE s == data[top].sid
           t == Head(types)
           beyond == {i \in bot .. Len(data) : Change!InList(data[i], s, t)}
           free == {i \in beyond : Change!Free(data[i])}
           new == IF ~Change!InList(data[bot], s, t) THEN {}
                  ELSE IF free = {} THEN {NoAddr}
                  ELSE {data[CHOOSE i \in free : \A j \in free : i <= j]}
<1>1. /\ step = "bisect" /\ bot = top /\ step' = "seed" /\ res' = res \union new
      /\ UNCHANGED <<data, mmtype, labels, exclude, types, picked, sids>>
  BY DEF Change!Scan, Change!Sid
<1>2. /\ Bisected /\ TriedBefore /\ types # <<>> /\ sids \subseteq Change!Seeds
      /\ Found(Change!Seeds \ (sids \union {s}))
  BY <1>1 DEF ChangeInv
<1>3. /\ bot \in DOMAIN data /\ bot \in Nat /\ 1 <= bot /\ s \in Change!Seeds \ sids
      /\ DOMAIN data = 1 .. Len(data) /\ Len(data) \in Nat
  BY <1>1, <1>2, DataTyped DEF Bisected
<1>4. \A i \in DOMAIN data : data[i].sid = s /\ data[i].type = t => bot <= i /\ data[bot].type = t
  BY <1>1, AtTheFirst
<1>5. \A i : i \in free <=> Candidate(s, t, i)
  <2>1. ASSUME NEW i, i \in free PROVE Candidate(s, t, i)
    BY <1>3, <2>1 DEF Candidate, Change!InList
  <2>2. ASSUME NEW i, Candidate(s, t, i) PROVE i \in free
    <3>1. i \in DOMAIN data /\ bot <= i
      BY <1>4, <2>2 DEF Candidate
    <3> QED
      BY <1>3, <2>2, <3>1 DEF Candidate, Change!InList
  <2> QED
    BY <2>1, <2>2
<1>6. free # {} => Change!InList(data[bot], s, t)
  BY <1>1, <1>4, <1>5 DEF Candidate, Change!InList
<1> HIDE DEF free, beyond
<1>7. ASSUME free # {}
      PROVE  \E m \in DOMAIN data : First(s, t, m) /\ new = {data[m]}
  <2>1. free \subseteq Nat /\ free \subseteq DOMAIN data
    BY <1>3, <1>5 DEF Candidate
  <2>2. PICK m \in free : \A j \in free : m <= j
    BY <1>7, <2>1, Least
  <2>3. (CHOOSE i \in free : \A j \in free : i <= j) = m
    <3>1. ASSUME NEW i \in free, \A j \in free : i <= j PROVE i = m
      <4>1. i <= m /\ m <= i /\ i \in Nat /\ m \in Nat
        BY <2>1, <2>2, <3>1
      <4> QED
        BY <4>1
    <3> QED
      BY <2>2, <3>1
  <2>4. First(s, t, m)
    BY <1>5, <2>2 DEF First
  <2> QED
    BY <1>6, <1>7, <2>1, <2>2, <2>3, <2>4
<1>8. free = {} => new \subseteq {NoAddr}
  OBVIOUS
<1> HIDE DEF new, s, t
<1>9. \A u, v, i : First(u, v, i)' = First(u, v, i) /\ Candidate(u, v, i)' = Candidate(u, v, i)
  BY <1>1 DEF First, Candidate, Change!Free
<1>10. Change!Seeds' = Change!Seeds /\ Head(types)' = t
  BY <1>1 DEF Change!Seeds, t
<1> HIDE DEF First, Candidate
<1>11. ASSUME NEW e \in res' \ {NoAddr}
       PROVE  \E u \in Change!Seeds : \E i \in DOMAIN data : First(u, t, i) /\ data[i] = e
  <2>1. CASE e \in res
    BY <1>2, <2>1 DEF Found, t
  <2>2. CASE e \in new
    BY <1>3, <1>7, <1>8, <2>2
  <2> QED
    BY <1>1, <2>1, <2>2
<1>12. ASSUME NEW u \in Change!Seeds \ sids, NEW i \in DOMAIN data, Candidate(u, t, i)
       PROVE  \E j \in DOMAIN data : First(u, t, j) /\ data[j] \in res'
  <2>1. CASE u = s
    BY <1>1, <1>5, <1>7, <1>12, <2>1
  <2>2. CASE u # s
    BY <1>1, <1>2, <1>12, <2>2 DEF Found, t
  <2> QED
    BY <2>1, <2>2
<1>13. Found(Change!Seeds \ sids)'
  BY <1>1, <1>9, <1>10, <1>11, <1>12 DEF Found
<1>14. TriedBefore'
  BY <1>1, <1>2 DEF TriedBefore, Change!Tried, Change!FreeOfType, Change!Free
<1> QED
  BY <1>1, <1>2, <1>10, <1>13, <1>14 DEF ChangeInv, Change!Sorted, Change!PicksFirstUnused

LEMMA ChooseStep ==
    ASSUME Change!ChangeAssumption, ChangeInv, Change!Choose PROVE ChangeInv'
<1> DEFINE t == Head(types)
           off == Len(Change!Tried) - Len(types)
<1>1. /\ step = "seed" /\ sids = {}
      /\ UNCHANGED <<data, mmtype, labels, exclude, sids, res>>
      /\ IF res \ {NoAddr} # {}
         THEN picked' \in res \ {NoAddr} /\ step' = "done" /\ types' = types
         ELSE picked' = picked /\ step' = "type" /\ types' = Tail(types)
  BY DEF Change!Choose
<1>2. /\ TriedBefore /\ types # <<>> /\ Found(Change!Seeds) /\ picked = NoAddr
  BY <1>1 DEF ChangeInv
<1>3. off \in Nat /\ off + 1 \in DOMAIN Change!Tried /\ t = Change!Tried[off + 1]
  BY <1>2, Trying
<1>4. \A i : i \in Change!FreeOfType(t) <=> i \in DOMAIN data /\ data[i].sid # Change!Foreign /\ Candidate(data[i].sid, t, i)
  BY DEF Change!FreeOfType, Candidate
<1>5. /\ Change!Tried' = Change!Tried
      /\ \A v : Change!FreeOfType(v)' = Change!FreeOfType(v)
  BY <1>1 DEF Change!Tried, Change!FreeOfType, Change!Free
<1>6. \A h \in 1 .. off : Change!FreeOfType(Change!Tried[h]) = {}
  BY <1>2 DEF TriedBefore
<1>7. CASE res \ {NoAddr} # {}
  <2>1. picked' \in res \ {NoAddr} /\ step' = "done"
    BY <1>1, <1>7
  <2>2. PICK s \in Change!Seeds : \E i \in DOMAIN data : First(s, t, i) /\ data[i] = picked'
    BY <1>2, <2>1 DEF Found
  <2>3. PICK i \in DOMAIN data : First(s, t, i) /\ data[i] = picked'
    BY <2>2
  <2>4. data[i].sid = s /\ s # Change!Foreign /\ i \in Change!FreeOfType(t)
    BY <1>4, <2>3 DEF First, Candidate, Change!Seeds
  <2>5. \A j \in Change!FreeOfType(t) : data[j].sid = picked'.sid => i <= j
    BY <1>4, <2>3, <2>4 DEF First
  <2> HIDE DEF off, t
  <2>6. \A h \in 1 .. ((off + 1) - 1) : Change!FreeOfType(Change!Tried[h]) = {}
    <3>1. (off + 1) - 1 = off
      BY <1>3
    <3> QED
      BY <1>6, <3>1
  <2>7. \E k \in DOMAIN Change!Tried : \E m \in Change!FreeOfType(Change!Tried[k]) :
            /\ data[m] = picked'
            /\ \A j \in Change!FreeOfType(Change!Tried[k]) : data[j].sid = picked'.sid => m <= j
            /\ \A h \in 1 .. (k - 1) : Change!FreeOfType(Change!Tried[h]) = {}
    BY <1>3, <2>3, <2>4, <2>5, <2>6
  <2>8. Change!PicksFirstUnused'
    BY <1>1, <1>5, <2>1, <2>7 DEF Change!PicksFirstUnused
  <2> QED
    BY <1>1, <2>1, <2>8 DEF ChangeInv, Change!Sorted
<1>8. CASE res \ {NoAddr} = {}
  <2>1. /\ picked' = NoAddr /\ step' = "type" /\ types' = Tail(types)
        /\ UNCHANGED <<data, mmtype, labels, exclude, sids, res>>
    BY <1>1, <1>2, <1>8
  <2>2. Change!FreeOfType(t) = {}
    <3> SUFFICES ASSUME NEW i, i \in Change!FreeOfType(t) PROVE FALSE
      OBVIOUS
    <3>1. i \in DOMAIN data /\ Candidate(data[i].sid, t, i) /\ data[i].sid \in Change!Seeds
      BY <1>4 DEF Change!Seeds
    <3>2. PICK j \in DOMAIN data : data[j] \in res
      BY <1>2, <3>1 DEF Found
    <3>3. data[j] \in Change!Entry
      BY DataTyped
    <3> QED
      BY <1>8, <3>2, <3>3 DEF Change!ChangeAssumption
  <2>3. /\ types \in Seq(Types) /\ Tail(types) \in Seq(Types) /\ Len(Tail(types)) = Len(types) - 1
        /\ Len(types) \in Nat /\ \A i \in 1 .. Len(Tail(types)) : Tail(types)[i] = types[i + 1]
    BY <1>2, HeadTailProperties DEF TriedBefore
  <2>4. Change!Tried \in Seq(Types) /\ Len(Change!Tried) \in Nat
    BY <1>2 DEF TriedBefore
  <2>5. Len(Change!Tried) - Len(Tail(types)) = off + 1 /\ off + 1 \in Nat
    BY <1>3, <2>3, <2>4
  <2>6. \A i \in DOMAIN types : types[i] = Change!Tried[off + i]
    BY <1>2 DEF TriedBefore
  <2>7. ASSUME NEW i \in DOMAIN Tail(types) PROVE Tail(types)[i] = Change!Tried[(off + 1) + i]
    <3>1. i \in 1 .. Len(Tail(types)) /\ i + 1 \in DOMAIN types /\ i \in Nat
      BY <2>3
    <3>2. off + (i + 1) = (off + 1) + i
      BY <1>3, <3>1
    <3> QED
      BY <2>3, <2>6, <3>1, <3>2
  <2>8. \A h \in 1 .. (off + 1) : Change!FreeOfType(Change!Tried[h]) = {}
    <3>1. \A h \in 1 .. (off + 1) : h \in 1 .. off \/ h = off + 1
      BY <1>3
    <3> QED
      BY <1>3, <1>6, <2>2, <3>1
  <2> HIDE DEF off, t
  <2>9. TriedBefore'
    BY <1>5, <2>1, <2>3, <2>4, <2>5, <2>7, <2>8 DEF TriedBefore
  <2> QED
    BY <2>1, <2>9 DEF ChangeInv, Change!Sorted, Change!PicksFirstUnused
<1> QED
  BY <1>7, <1>8

(* The address picked is the first unused one of its list, of the type     *)
(* preferred most that has any; and none is picked only if none is unused, *)
(* whatever is in the wallet: the bisection misses no entry.               *)
THEOREM FirstUnusedPicked ==
    ASSUME Change!ChangeAssumption
    PROVE  Change!Spec => []Change!PicksFirstUnused
<1>1. Change!Init => ChangeInv
  <2> SUFFICES ASSUME Change!Init PROVE ChangeInv
    OBVIOUS
  <2>1. data \in Seq(Change!Entry) /\ Change!Sorted(data)
    BY DEF Change!Init, Change!ChangeAssumption
  <2>2. types = Change!Tried /\ types \in Seq(Types)
    BY DEF Change!Init, Change!Tried, Change!ChangeAssumption
  <2>3. TriedBefore
    <3>1. Len(types) \in Nat /\ Len(types) - Len(types) = 0 /\ DOMAIN types = 1 .. Len(types)
      BY <2>2
    <3>2. \A i \in DOMAIN types : 0 + i = i
      BY <3>1
    <3> QED
      BY <2>2, <3>1, <3>2 DEF TriedBefore
  <2> QED
    BY <2>1, <2>3 DEF ChangeInv, Change!Init, Change!PicksFirstUnused
<1>2. ChangeInv /\ [Change!Next]_Change!vars => ChangeInv'
  <2> SUFFICES ASSUME ChangeInv, [Change!Next]_Change!vars PROVE ChangeInv'
    OBVIOUS
  <2>1. CASE UNCHANGED Change!vars
    <3>1. TriedBefore' = TriedBefore /\ Bisected' = Bisected /\ Change!Seeds' = Change!Seeds
      BY <2>1 DEF TriedBefore, Bisected, Change!Tried, Change!FreeOfType, Change!Free, Change!Seeds
    <3>2. \A done : Found(done)' = Found(done)
      BY <2>1 DEF Found, First, Candidate, Change!Free, Change!Seeds
    <3>3. Change!PicksFirstUnused' = Change!PicksFirstUnused
      BY <2>1 DEF Change!PicksFirstUnused, Change!Tried, Change!FreeOfType, Change!Free
    <3> QED
      BY <2>1, <3>1, <3>2, <3>3 DEF ChangeInv, Change!Sorted
  <2> QED
    BY <2>1, NextChoice, NextOfSeeds, BisectStep, ScanStep, ChooseStep DEF Change!Next
<1>3. ChangeInv => Change!PicksFirstUnused
  BY DEF ChangeInv
<1> QED
  BY <1>1, <1>2, <1>3, PTL DEF Change!Spec

----------------------------------------------------------------------------
(* The making of a transaction and its replacement (TxCreate).  The sums   *)
(* of inputs and of outputs are folds over sets: that such a fold exists,  *)
(* is typed and may be taken in any order is proved first.                 *)
(* The function by which a sum over a set of weights w is computed.        *)
FirstOf(s) == CHOOSE y \in s : TRUE

SumOf(h, w, s) == IF s = {} THEN 0 ELSE w[FirstOf(s)] + h[s \ {FirstOf(s)}]

Sums(h, w, T) == h = [s \in SUBSET T |-> SumOf(h, w, s)]

LEMMA Smaller ==
    ASSUME NEW T, IsFiniteSet(T), NEW s \in SUBSET T, NEW x \in s
    PROVE  /\ IsFiniteSet(s) /\ Cardinality(s) \in Nat
           /\ s \ {x} \in SUBSET T /\ Cardinality(s \ {x}) \in Nat
           /\ Cardinality(s \ {x}) = Cardinality(s) - 1
<1>1. IsFiniteSet(s) /\ Cardinality(s) \in Nat
  BY FS_Subset, FS_CardinalityType
<1>2. IsFiniteSet(s \ {x}) /\ Cardinality(s \ {x}) = Cardinality(s) - 1
  BY <1>1, FS_RemoveElement
<1> QED
  BY <1>1, <1>2, FS_CardinalityType

LEMMA Firsts == ASSUME NEW s, s # {} PROVE FirstOf(s) \in s
BY DEF FirstOf

(* A set of exceptions among the subsets of a finite set has one of least  *)
(* size.                                                                   *)
LEMMA LeastSubset ==
    ASSUME NEW T, IsFiniteSet(T), NEW B, B \subseteq SUBSET T, B # {}
    PROVE  \E s \in B : \A x \in s : s \ {x} \notin B
<1> DEFINE N == {Cardinality(s) : s \in B}
<1>1. \A s \in B : Cardinality(s) \in Nat
  BY FS_Subset, FS_CardinalityType
<1>2. N \subseteq Nat /\ N # {}
  BY <1>1
<1>3. PICK m \in N : \A j \in N : m <= j
  <2> HIDE DEF N
  <2> QED
    BY <1>2, Least
<1>4. PICK s \in B : Cardinality(s) = m
  OBVIOUS
<1>5. ASSUME NEW x \in s, s \ {x} \in B PROVE FALSE
  <2>1. Cardinality(s \ {x}) \in N
    BY <1>5
  <2>2. Cardinality(s \ {x}) = Cardinality(s) - 1
    BY <1>5, Smaller
  <2> QED
    BY <1>1, <1>3, <1>4, <2>1, <2>2
<1> QED
  BY <1>5

LEMMA SumsTyped ==
    ASSUME NEW T, IsFiniteSet(T), NEW w, \A x \in T : w[x] \in Int, NEW h, Sums(h, w, T)
    PROVE  \A s \in SUBSET T : h[s] \in Int /\ \A x \in s : h[s] = w[x] + h[s \ {x}]
<1> DEFINE Adds(s) == h[s] \in Int /\ \A x \in s : h[s \ {x}] \in Int /\ h[s] = w[x] + h[s \ {x}]
           B == {s \in SUBSET T : ~Adds(s)}
<1>1. ASSUME NEW s \in SUBSET T, \A x \in s : Adds(s \ {x}) PROVE Adds(s)
  <2>1. h[s] = SumOf(h, w, s)
    BY DEF Sums
  <2>2. CASE s = {}
    BY <2>1, <2>2 DEF SumOf
  <2>3. CASE s # {}
    <3>1. PICK c \in s : c = FirstOf(s)
      BY <2>3, Firsts
    <3>2. h[s] = w[c] + h[s \ {c}] /\ h[s \ {c}] \in Int /\ w[c] \in Int
      BY <1>1, <2>1, <2>3, <3>1 DEF SumOf
    <3>3. ASSUME NEW x \in s, x # c PROVE h[s] = w[x] + h[s \ {x}]
      <4>1. h[s \ {c}] = w[x] + h[(s \ {c}) \ {x}] /\ h[(s \ {c}) \ {x}] \in Int
        BY <1>1, <3>3
      <4>2. h[s \ {x}] = w[c] + h[(s \ {x}) \ {c}] /\ h[s \ {x}] \in Int
        BY <1>1, <3>3
      <4>3. PICK r : r = (s \ {c}) \ {x}
        OBVIOUS
      <4>4. (s \ {x}) \ {c} = r
        BY <4>3
      <4>5. w[x] \in Int
        OBVIOUS
      <4>6. PICK z : z = h[r]
        OBVIOUS
      <4>7. h[s \ {c}] = w[x] + z /\ h[s \ {x}] = w[c] + z /\ z \in Int
        BY <4>1, <4>2, <4>3, <4>4, <4>6
      <4> QED
        BY <3>2, <4>5, <4>7
    <3>4. h[s] \in Int
      BY <3>2
    <3>5. \A x \in s : h[s \ {x}] \in Int
      BY <1>1
    <3> QED
      BY <3>2, <3>3, <3>4, <3>5
  <2> QED
    BY <2>2, <2>3
<1> HIDE DEF Adds
<1>2. CASE B # {}
  <2>1. PICK s \in B : \A x \in s : s \ {x} \notin B
    BY <1>2, LeastSubset
  <2>2. \A x \in s : Adds(s \ {x})
    BY <2>1
  <2> QED
    BY <1>1, <2>1, <2>2
<1>3. CASE B = {}
  <2>1. \A s \in SUBSET T : Adds(s)
    BY <1>3
  <2> QED
    BY <2>1 DEF Adds
<1> QED
  BY <1>2, <1>3

(* A sum depends on the weights of the members alone.                      *)
LEMMA SumsAgree ==
    ASSUME NEW T, IsFiniteSet(T), NEW w, NEW h, Sums(h, w, T),
           NEW U, T \subseteq U, NEW v, NEW g, Sums(g, v, U), \A x \in T : w[x] = v[x]
    PROVE  \A s \in SUBSET T : h[s] = g[s]
<1> DEFINE B == {s \in SUBSET T : h[s] # g[s]}
<1>1. ASSUME NEW s \in SUBSET T, \A x \in s : h[s \ {x}] = g[s \ {x}] PROVE h[s] = g[s]
  <2>1. h[s] = SumOf(h, w, s) /\ g[s] = SumOf(g, v, s)
    BY DEF Sums
  <2>2. SumOf(h, w, s) = SumOf(g, v, s)
    BY <1>1, Firsts DEF SumOf
  <2> QED
    BY <2>1, <2>2
<1>2. CASE B # {}
  <2>1. PICK s \in B : \A x \in s : s \ {x} \notin B
    BY <1>2, LeastSubset
  <2> QED
    BY <1>1, <2>1
<1> QED
  BY <1>2

(* There is such a function, since a set that is finite is used up by      *)
(* taking away one member after another.                                   *)
SumsUpTo(h, w, T, size) == \A s \in SUBSET T : Cardinality(s) <= size => h[s] = SumOf(h, w, s)

LEMMA SumsExist ==
    ASSUME NEW T, IsFiniteSet(T), NEW w
    PROVE  \E h : Sums(h, w, T)
<1> DEFINE B == {size \in Nat : ~ \E h : DOMAIN h = SUBSET T /\ SumsUpTo(h, w, T, size)}
<1>0. \A s \in SUBSET T : IsFiniteSet(s) /\ Cardinality(s) \in Nat
  BY FS_Subset, FS_CardinalityType
<1>1. 0 \notin B
  <2>1. PICK h : h = [s \in SUBSET T |-> 0]
    OBVIOUS
  <2>2. ASSUME NEW s \in SUBSET T, Cardinality(s) <= 0 PROVE h[s] = SumOf(h, w, s)
    <3>1. s = {}
      BY <1>0, <2>2, FS_EmptySet
    <3> QED
      BY <2>1, <3>1 DEF SumOf
  <2> QED
    BY <2>1, <2>2 DEF SumsUpTo
<1>2. ASSUME NEW size \in Nat, NEW h, DOMAIN h = SUBSET T, SumsUpTo(h, w, T, size)
      PROVE  \E g : DOMAIN g = SUBSET T /\ SumsUpTo(g, w, T, size + 1)
  <2>1. PICK g : g = [s \in SUBSET T |-> SumOf(h, w, s)]
    OBVIOUS
  <2>2. ASSUME NEW s \in SUBSET T, Cardinality(s) <= size + 1 PROVE g[s] = SumOf(g, w, s)
    <3>1. CASE s = {}
      BY <2>1, <3>1 DEF SumOf
    <3>2. CASE s # {}
      <4>1. PICK c \in s : c = FirstOf(s)
        BY <3>2, Firsts
      <4>2. s \ {c} \in SUBSET T /\ Cardinality(s \ {c}) <= size
        BY <1>0, <2>2, Smaller
      <4>3. h[s \ {c}] = g[s \ {c}]
        BY <1>2, <2>1, <4>2 DEF SumsUpTo
      <4>4. g[s] = w[c] + h[s \ {c}]
        BY <2>1, <3>2, <4>1 DEF SumOf
      <4> QED
        BY <3>2, <4>1, <4>3, <4>4 DEF SumOf
    <3> QED
      BY <3>1, <3>2
  <2> QED
    BY <2>1, <2>2 DEF SumsUpTo
<1>3. CASE B # {}
  <2>1. PICK m \in B : \A j \in B : m <= j
    <3>1. B \subseteq Nat
      OBVIOUS
    <3> HIDE DEF B
    <3> QED
      BY <1>3, <3>1, Least
  <2>2. m # 0 /\ m - 1 \in Nat /\ m - 1 \notin B
    <3>1. m \in Nat /\ m # 0
      BY <1>1
    <3>2. \A j \in B : m <= j
      BY <2>1
    <3> HIDE DEF B
    <3> QED
      BY <3>1, <3>2
  <2>3. PICK size \in Nat : size = m - 1 /\ size + 1 = m /\ size \notin B
    <3> HIDE DEF B
    <3>1. m \in Nat
      BY DEF B
    <3>2. m - 1 \in Nat /\ (m - 1) + 1 = m
      BY <2>2, <3>1
    <3> QED
      BY <2>2, <3>2
  <2>4. PICK h : DOMAIN h = SUBSET T /\ SumsUpTo(h, w, T, size)
    BY <2>3
  <2>5. \E g : DOMAIN g = SUBSET T /\ SumsUpTo(g, w, T, size + 1)
    BY <1>2, <2>4
  <2> QED
    BY <2>3, <2>5
<1>4. CASE B = {}
  <2>1. Cardinality(T) \in Nat
    BY <1>0
  <2>2. PICK h : DOMAIN h = SUBSET T /\ SumsUpTo(h, w, T, Cardinality(T))
    BY <1>4, <2>1
  <2>3. \A s \in SUBSET T : Cardinality(s) <= Cardinality(T)
    BY FS_Subset
  <2>4. \A s \in SUBSET T : h[s] = SumOf(h, w, s)
    BY <2>2, <2>3 DEF SumsUpTo
  <2>5. PICK g : g = [s \in SUBSET T |-> SumOf(h, w, s)]
    OBVIOUS
  <2>6. \A s \in SUBSET T : SumOf(h, w, s) = SumOf(g, w, s)
    BY <2>4, <2>5, Firsts DEF SumOf
  <2> QED
    BY <2>5, <2>6 DEF Sums
<1> QED
  BY <1>3, <1>4

LEMMA CreateCounted == ASSUME NEW T PROVE Creating!Cardinality(T) = Cardinality(T)
BY DEF Creating!Cardinality, Cardinality

LEMMA CreateFinite == ASSUME NEW T PROVE Creating!IsFiniteSet(T) <=> IsFiniteSet(T)
BY DEF Creating!IsFiniteSet, IsFiniteSet

LEMMA InputsSummed ==
    ASSUME NEW T, IsFiniteSet(T), NEW h, Sums(h, Value, T)
    PROVE  Creating!SumInputs(T) = h[T]
<1> DEFINE Is(g) == g = [s \in SUBSET T |-> IF s = {} THEN 0
                          ELSE Value[CHOOSE y \in s : TRUE] + g[s \ {CHOOSE y \in s : TRUE}]]
<1>1. Is(h)
  BY DEF Sums, SumOf, FirstOf
<1>2. Creating!SumInputs(T) = (CHOOSE g : Is(g))[T]
  BY DEF Creating!SumInputs, Creating!MapThenSumSet, Creating!MapThenFoldSet
<1>3. ASSUME NEW g, Is(g) PROVE Sums(g, Value, T)
  BY <1>3 DEF Sums, SumOf, FirstOf
<1> HIDE DEF Is
<1>4. PICK g : g = (CHOOSE k : Is(k)) /\ Is(g)
  BY <1>1
<1>5. g[T] = h[T]
  BY <1>3, <1>4, SumsAgree
<1> QED
  BY <1>2, <1>4, <1>5

Amounts(os) == [o \in os |-> o.amt]

LEMMA OutputsSummed ==
    ASSUME NEW T, IsFiniteSet(T), NEW h, Sums(h, Amounts(T), T)
    PROVE  Creating!SumOutputs(T) = h[T]
<1> DEFINE Is(g) == g = [s \in SUBSET T |-> IF s = {} THEN 0
                          ELSE (CHOOSE y \in s : TRUE).amt + g[s \ {CHOOSE y \in s : TRUE}]]
<1>1. \A s \in SUBSET T : s # {} => Amounts(T)[FirstOf(s)] = (CHOOSE y \in s : TRUE).amt
  <2>1. ASSUME NEW s \in SUBSET T, s # {} PROVE FirstOf(s) \in T
    BY <2>1, Firsts
  <2> QED
    BY <2>1 DEF Amounts, FirstOf
<1>2. Is(h)
  BY <1>1 DEF Sums, SumOf, FirstOf
<1>3. Creating!SumOutputs(T) = (CHOOSE g : Is(g))[T]
  BY DEF Creating!SumOutputs, Creating!MapThenSumSet, Creating!MapThenFoldSet
<1>4. ASSUME NEW g, Is(g) PROVE Sums(g, Amounts(T), T)
  BY <1>1, <1>4 DEF Sums, SumOf, FirstOf
<1> HIDE DEF Is
<1>5. PICK g : g = (CHOOSE k : Is(k)) /\ Is(g)
  BY <1>2
<1>6. g[T] = h[T]
  BY <1>4, <1>5, SumsAgree
<1> QED
  BY <1>3, <1>5, <1>6

(* What the inputs hold is an integer, and what the outputs hold is what   *)
(* one of them holds and what the others do.                               *)
LEMMA InputsHold ==
    ASSUME NEW is, IsFiniteSet(is), \A c \in is : Value[c] \in Int
    PROVE  Creating!SumInputs(is) \in Int
<1>1. PICK h : Sums(h, Value, is)
  BY SumsExist
<1>2. h[is] \in Int
  BY <1>1, SumsTyped
<1> QED
  BY <1>1, <1>2, InputsSummed

LEMMA OutputsHold ==
    ASSUME NEW os, IsFiniteSet(os), \A o \in os : o.amt \in Int
    PROVE  /\ Creating!SumOutputs(os) \in Int
           /\ \A o \in os : /\ Creating!SumOutputs(os \ {o}) \in Int
                            /\ Creating!SumOutputs(os) = o.amt + Creating!SumOutputs(os \ {o})
<1>0. \A o \in os : Amounts(os)[o] = o.amt /\ Amounts(os)[o] \in Int
  BY DEF Amounts
<1>1. PICK h : Sums(h, Amounts(os), os)
  BY SumsExist
<1>2. h[os] \in Int /\ \A o \in os : h[os \ {o}] \in Int /\ h[os] = Amounts(os)[o] + h[os \ {o}]
  BY <1>0, <1>1, SumsTyped
<1>3. Creating!SumOutputs(os) = h[os]
  BY <1>1, OutputsSummed
<1>4. ASSUME NEW o \in os PROVE Creating!SumOutputs(os \ {o}) = h[os \ {o}]
  <2>1. PICK r : r = os \ {o}
    OBVIOUS
  <2>2. r \subseteq os /\ IsFiniteSet(r)
    BY <2>1, FS_Subset
  <2>3. PICK g : Sums(g, Amounts(r), r)
    BY <2>2, SumsExist
  <2>4. \A x \in r : Amounts(r)[x] = Amounts(os)[x]
    BY <2>2 DEF Amounts
  <2>5. g[r] = h[r]
    BY <1>1, <2>2, <2>3, <2>4, SumsAgree
  <2>6. Creating!SumOutputs(r) = g[r]
    BY <2>2, <2>3, OutputsSummed
  <2> QED
    BY <2>1, <2>5, <2>6
<1> QED
  BY <1>0, <1>2, <1>3, <1>4

LEMMA NothingOut == Creating!SumOutputs({}) = 0
<1>1. PICK h : Sums(h, Amounts({}), {})
  BY SumsExist, FS_EmptySet
<1>2. h[{}] = 0
  BY <1>1 DEF Sums, SumOf
<1> QED
  BY <1>1, <1>2, OutputsSummed, FS_EmptySet

----------------------------------------------------------------------------
(* Outputs that are records, of different addresses.                       *)
OutputOk(o) == o = Creating!Output(o.to, o.amt, o.chg) /\ o.to # NoAmt /\ o.amt \in Int /\ o.chg \in BOOLEAN

Shape(os) == IsFiniteSet(os) /\ (\A o \in os : OutputOk(o)) /\ \A o, p \in os : o.to = p.to => o = p

Kinds == {"btc", "vm", "token"}

JobOk(j) ==
    /\ j = [kind |-> j.kind, args |-> j.args, rbf |-> j.rbf]
    /\ j.kind \in Kinds /\ IsFiniteSet(j.args)
    /\ \A a \in j.args : a[1] # NoAmt /\ (a[2] # NoAmt => a[2] \in Nat)

ArgsFit(k, args) ==
    IF k = "btc"
    THEN /\ Cardinality({a \in args : a[2] = NoAmt /\ a[1] # Data}) = 1
         /\ \A a, b \in args : a[1] = b[1] => a = b
    ELSE Cardinality(args) = 1 /\ \A a \in args : a[1] # Data

Paid(args, os) == \A a \in args : a[2] # NoAmt => \E o \in os : o.to = a[1] /\ o.amt = a[2]

Arg(a) == Creating!Output(a[1], IF a[2] = NoAmt THEN 0 ELSE a[2], a[2] = NoAmt /\ a[1] # Data)

LEMMA ArgIs ==
    ASSUME NEW a, a[1] # NoAmt, a[2] # NoAmt => a[2] \in Nat
    PROVE  /\ OutputOk(Arg(a)) /\ Arg(a).to = a[1]
           /\ a[2] # NoAmt => Arg(a).amt = a[2] /\ ~Arg(a).chg
           /\ Arg(a).chg => a[2] = NoAmt /\ a[1] # Data /\ Arg(a).amt = 0
           /\ a[2] = NoAmt /\ a[1] # Data => Arg(a).chg
<1>1. PICK m : m = IF a[2] = NoAmt THEN 0 ELSE a[2]
  OBVIOUS
<1>2. PICK g \in BOOLEAN : g <=> a[2] = NoAmt /\ a[1] # Data
  OBVIOUS
<1>3. Arg(a) = [to |-> a[1], amt |-> m, chg |-> g]
  BY <1>1, <1>2, Zenon DEF Arg, Creating!Output
<1>4. m \in Int
  BY <1>1
<1>5. PICK t : t = a[1]
  OBVIOUS
<1>6. Arg(a).to = t /\ Arg(a).amt = m /\ Arg(a).chg = g
  BY <1>3, <1>5
<1>7. OutputOk(Arg(a))
  BY <1>3, <1>4, <1>5, <1>6 DEF OutputOk, Creating!Output
<1> QED
  BY <1>1, <1>2, <1>5, <1>6, <1>7

(* The outputs of arguments that pass the test.                            *)
LEMMA Requested ==
    ASSUME NEW j, JobOk(j), ArgsFit(j.kind, j.args), NEW os, os = Creating!Outputs(j.args)
    PROVE  /\ Shape(os)
           /\ \A a \in j.args : a[2] # NoAmt => \E o \in os : o.to = a[1] /\ o.amt = a[2] /\ ~o.chg
           /\ \A o \in os : o.chg => o.amt = 0
           /\ j.kind = "btc" => \E c \in os : Creating!Change(os) = {c}
           /\ j.kind # "btc" => \E c \in os : os = {c}
<1> DEFINE A == j.args
<1>1. os = {Arg(a) : a \in A}
  BY DEF Creating!Outputs, Arg
<1>2. \A a \in A : a[1] # NoAmt /\ (a[2] # NoAmt => a[2] \in Nat)
  BY DEF JobOk
<1>3. IsFiniteSet(os)
  <2>1. PICK g : g = [a \in A |-> Arg(a)]
    OBVIOUS
  <2>2. g \in Surjection(A, os)
    BY <1>1, <2>1 DEF Surjection
  <2> QED
    BY <2>2, FS_Surjection DEF JobOk
<1>4. \A a, b \in A : a[1] = b[1] => a = b
  <2>1. CASE j.kind = "btc"
    BY <2>1 DEF ArgsFit
  <2>2. CASE j.kind # "btc"
    <3>1. \E a : A = {a}
      BY <2>2, FS_Singleton DEF ArgsFit, JobOk
    <3> QED
      BY <3>1
  <2> QED
    BY <2>1, <2>2
<1>5. \A o \in os : OutputOk(o) /\ (o.chg => o.amt = 0)
  BY <1>1, <1>2, ArgIs
<1>6. ASSUME NEW o \in os, NEW p \in os, o.to = p.to PROVE o = p
  <2>1. PICK a \in A : o = Arg(a)
    BY <1>1
  <2>2. PICK b \in A : p = Arg(b)
    BY <1>1
  <2>3. a[1] = b[1]
    BY <1>2, <1>6, <2>1, <2>2, ArgIs
  <2> QED
    BY <1>4, <2>1, <2>2, <2>3
<1>7. ASSUME NEW a \in A, a[2] # NoAmt PROVE \E o \in os : o.to = a[1] /\ o.amt = a[2] /\ ~o.chg
  <2>1. Arg(a) \in os
    BY <1>1
  <2>2. Arg(a).to = a[1] /\ Arg(a).amt = a[2] /\ ~Arg(a).chg
    BY <1>2, <1>7, ArgIs
  <2> QED
    BY <2>1, <2>2
<1>8. ASSUME j.kind = "btc" PROVE \E c \in os : Creating!Change(os) = {c}
  <2> DEFINE C == {a \in A : a[2] = NoAmt /\ a[1] # Data}
  <2>1. IsFiniteSet(C)
    BY FS_Subset DEF JobOk
  <2>2. PICK a : C = {a}
    BY <1>8, <2>1, FS_Singleton DEF ArgsFit
  <2>3. a \in A /\ a[2] = NoAmt /\ a[1] # Data
    BY <2>2
  <2>4. Arg(a) \in os /\ Arg(a).chg
    BY <1>1, <1>2, <2>3, ArgIs
  <2>5. ASSUME NEW o \in os, o.chg PROVE o = Arg(a)
    <3>1. PICK b \in A : o = Arg(b)
      BY <1>1
    <3>2. b \in C
      BY <1>2, <2>5, <3>1, ArgIs
    <3> QED
      BY <2>2, <3>1, <3>2
  <2> QED
    BY <2>4, <2>5 DEF Creating!Change
<1>9. ASSUME j.kind # "btc" PROVE \E c \in os : os = {c}
  <2>1. PICK a : A = {a}
    BY <1>9, FS_Singleton DEF ArgsFit, JobOk
  <2> QED
    BY <1>1, <2>1
<1> QED
  BY <1>3, <1>5, <1>6, <1>7, <1>8, <1>9 DEF Shape

(* An output of which only the amount is changed, and one taken away.      *)
InPlace(os, o, m, W) == \E p \in W : p.to = o.to /\ p.amt = m /\ W \ {p} = os \ {o}

LEMMA Altered ==
    ASSUME NEW os, Shape(os), NEW o \in os, NEW m \in Int, NEW W, W = Creating!WithAmt(os, o, m)
    PROVE  /\ Shape(W) /\ Cardinality(W) = Cardinality(os)
           /\ \A q \in os : q # o => q \in W
           /\ Creating!SumOutputs(W) = Creating!SumOutputs(os) - o.amt + m
           /\ InPlace(os, o, m, W)
<1>1. o = [to |-> o.to, amt |-> o.amt, chg |-> o.chg]
  BY DEF Shape, OutputOk, Creating!Output
<1>2. PICK p : p = [o EXCEPT !.amt = m]
  OBVIOUS
<1>3. p = [to |-> o.to, amt |-> m, chg |-> o.chg]
  BY <1>1, <1>2
<1>4. p.to = o.to /\ p.amt = m /\ p.chg = o.chg
  BY <1>3
<1>5. OutputOk(p)
  <2>1. OutputOk(o)
    BY DEF Shape
  <2>2. p = Creating!Output(p.to, p.amt, p.chg)
    BY <1>3, <1>4 DEF Creating!Output
  <2> QED
    BY <1>4, <2>1, <2>2 DEF OutputOk
<1>6. W = (os \ {o}) \union {p}
  BY <1>2 DEF Creating!WithAmt
<1>7. p \notin os \ {o}
  BY <1>4 DEF Shape
<1>8. W \ {p} = os \ {o}
  BY <1>6, <1>7
<1>9. Shape(W)
  <2>1. IsFiniteSet(W)
    <3>1. IsFiniteSet(os)
      BY DEF Shape
    <3>2. IsFiniteSet(os \ {o})
      BY <3>1, FS_RemoveElement
    <3> QED
      BY <1>6, <3>2, FS_AddElement
  <2>2. \A q \in W : OutputOk(q)
    BY <1>5, <1>6 DEF Shape
  <2>3. ASSUME NEW x \in W, NEW y \in W, x.to = y.to PROVE x = y
    <3>1. \A q \in os \ {o} : q.to # o.to
      BY DEF Shape
    <3> QED
      BY <1>4, <1>6, <2>3, <3>1 DEF Shape
  <2> QED
    BY <2>1, <2>2, <2>3 DEF Shape
<1>10. Cardinality(W) = Cardinality(os)
  <2>1. IsFiniteSet(os) /\ Cardinality(os) \in Nat
    BY FS_CardinalityType DEF Shape
  <2>2. IsFiniteSet(os \ {o}) /\ Cardinality(os \ {o}) = Cardinality(os) - 1
    BY <2>1, FS_RemoveElement
  <2>3. Cardinality(W) = Cardinality(os \ {o}) + 1
    BY <1>6, <1>7, <2>2, FS_AddElement
  <2> QED
    BY <2>1, <2>2, <2>3
<1>11. Creating!SumOutputs(W) = Creating!SumOutputs(os) - o.amt + m
  <2>1. /\ Creating!SumOutputs(os \ {o}) \in Int
        /\ Creating!SumOutputs(os) = o.amt + Creating!SumOutputs(os \ {o})
    BY OutputsHold DEF Shape, OutputOk
  <2>2. p \in W /\ IsFiniteSet(W) /\ \A q \in W : q.amt \in Int
    BY <1>6, <1>9 DEF Shape, OutputOk
  <2>3. Creating!SumOutputs(W) = p.amt + Creating!SumOutputs(W \ {p})
    BY <2>2, OutputsHold
  <2>4. PICK r : r = Creating!SumOutputs(os \ {o})
    OBVIOUS
  <2>5. Creating!SumOutputs(W) = m + r /\ Creating!SumOutputs(os) = o.amt + r /\ r \in Int
    BY <1>4, <1>8, <2>1, <2>3, <2>4
  <2>6. o.amt \in Int
    BY DEF Shape, OutputOk
  <2> QED
    BY <2>5, <2>6
<1>12. \A q \in os : q # o => q \in W
  BY <1>6
<1>13. InPlace(os, o, m, W)
  BY <1>4, <1>6, <1>8 DEF InPlace
<1> QED
  BY <1>9, <1>10, <1>11, <1>12, <1>13

LEMMA Dropped ==
    ASSUME NEW os, Shape(os), NEW o \in os, NEW W, W = os \ {o}
    PROVE  /\ Shape(W) /\ Cardinality(W) = Cardinality(os) - 1
           /\ Creating!SumOutputs(W) = Creating!SumOutputs(os) - o.amt
<1>1. Shape(W) /\ Cardinality(W) = Cardinality(os) - 1
  BY FS_RemoveElement DEF Shape
<1>2. o.amt \in Int
  BY DEF Shape, OutputOk
<1>3. /\ Creating!SumOutputs(os \ {o}) \in Int
      /\ Creating!SumOutputs(os) = o.amt + Creating!SumOutputs(os \ {o})
  BY OutputsHold DEF Shape, OutputOk
<1> QED
  BY <1>1, <1>2, <1>3

----------------------------------------------------------------------------
(* The model's terms, for a kind of transaction and any inputs, outputs    *)
(* and fee.                                                                *)
Relay(k, is, os) == IF k = "btc" THEN Creating!Size(is, os) \div 2 ELSE 0

Rel(k, f, is, os) == IF k = "btc" THEN f \div Creating!Size(is, os) ELSE f

Left(k, f, is, os) ==
    IF k = "token" THEN Ether - f ELSE Creating!SumInputs(is) - (Creating!SumOutputs(os) + f)

Over(k, is, os) == k = "token" /\ Creating!Change(os) = {} /\ Creating!SumOutputs(os) > Creating!SumInputs(is)

BalancedTx(k, x) ==
    /\ k = "btc" => Creating!SumInputs(x.ins) = Creating!SumOutputs(x.outs) + x.fee
    /\ k = "vm" /\ x.new => Creating!SumInputs(x.ins) >= Creating!SumOutputs(x.outs) + x.fee
    /\ k = "token" /\ x.new => Creating!SumInputs(x.ins) >= Creating!SumOutputs(x.outs)

RightTx(k, args, x) ==
    /\ BalancedTx(k, x)
    /\ x.fee <= MaxFee /\ x.fee >= Relay(k, x.ins, x.outs)
    /\ x.new => Paid(args, x.outs)
    /\ x.raw = Creating!Pairs(x.outs)

ReplacesTx(k, old, new) ==
    /\ new.ins = old.ins
    /\ Rel(k, new.fee, new.ins, new.outs) > Rel(k, old.fee, old.ins, old.outs)
    /\ ~new.new /\ k = "btc" =>
          /\ new.fee >= old.fee + Relay(k, new.ins, new.outs)
          /\ \E o \in old.outs, p \in new.outs :
                /\ new.outs \ {p} = old.outs \ {o}
                /\ p.to = o.to /\ p.amt > 0 /\ p.amt < o.amt

(* The transaction a command is about to make.                             *)
ToMake(is, os, f, r) ==
    [ins |-> is, outs |-> os, fee |-> f, raw |-> Creating!Pairs(os), new |-> r = Creating!NoOutput]

(* What was made before has the inputs in hand.                            *)
MadeBefore(k, is, x) ==
    x # Creating!Unmade =>
        /\ is = x.ins /\ is # {} /\ Shape(x.outs) /\ x.fee \in Nat
        /\ k = "btc" => Creating!SumInputs(x.ins) = Creating!SumOutputs(x.outs) + x.fee

Fresh(j, os) == ArgsFit(j.kind, j.args) /\ os = Creating!Outputs(j.args)

(* A fee that was accepted.                                                *)
Agreed(k, f, is, os, old) ==
    /\ Left(k, f, is, os) >= 0 /\ ~Over(k, is, os)
    /\ f <= MaxFee /\ f >= Relay(k, is, os)
    /\ old # Creating!Unmade => Rel(k, f, is, os) > Rel(k, old.fee, old.ins, old.outs)

Ready(j, is, os, f, r, old) ==
    LET x == ToMake(is, os, f, r) IN
    /\ RightTx(j.kind, j.args, x)
    /\ old # Creating!Unmade => ReplacesTx(j.kind, old, x)

LEMMA Sizes ==
    ASSUME NEW is, IsFiniteSet(is), is # {}, NEW os, IsFiniteSet(os)
    PROVE  /\ Creating!Size(is, os) = Cardinality(is) + Cardinality(os)
           /\ Creating!Size(is, os) \in Nat \ {0}
           /\ os # {} => Creating!Size(is, os) >= 2
<1>1. Creating!Size(is, os) = Cardinality(is) + Cardinality(os)
  BY CreateCounted DEF Creating!Size
<1>2. Cardinality(is) \in Nat /\ Cardinality(is) # 0 /\ Cardinality(os) \in Nat
  BY FS_EmptySet, FS_CardinalityType
<1>3. os # {} => Cardinality(os) # 0
  BY FS_EmptySet
<1> QED
  BY <1>1, <1>2, <1>3

LEMMA DivMore ==
    ASSUME NEW f \in Nat, NEW a \in Nat \ {0}, NEW b \in Nat \ {0}, a <= b
    PROVE  f \div a >= f \div b /\ a \div 2 <= b \div 2
OBVIOUS

(* Fewer outputs make the relay fee lower and the relative fee higher.     *)
LEMMA Fewer ==
    ASSUME NEW is, IsFiniteSet(is), is # {}, NEW os, IsFiniteSet(os),
           NEW W, IsFiniteSet(W), Cardinality(W) <= Cardinality(os), NEW f \in Nat, NEW k
    PROVE  Relay(k, is, W) <= Relay(k, is, os) /\ Rel(k, f, is, W) >= Rel(k, f, is, os)
<1>1. PICK a \in Nat \ {0} : a = Creating!Size(is, W)
  BY Sizes
<1>2. PICK b \in Nat \ {0} : b = Creating!Size(is, os)
  BY Sizes
<1>3. a <= b
  BY <1>1, <1>2, Sizes, FS_CardinalityType
<1>4. f \div a >= f \div b /\ a \div 2 <= b \div 2
  BY <1>3, DivMore
<1> QED
  BY <1>1, <1>2, <1>4 DEF Relay, Rel

(* A candidate with new outputs.                                           *)
LEMMA NewReady ==
    ASSUME NEW j, NEW is, IsFiniteSet(is), is # {}, NEW os, NEW W, IsFiniteSet(W), IsFiniteSet(os),
           Cardinality(W) <= Cardinality(os), NEW f \in Nat, MaxFee \in Nat, NEW old,
           Agreed(j.kind, f, is, os, old), MadeBefore(j.kind, is, old), Paid(j.args, W),
           old # Creating!Unmade => Rel(j.kind, old.fee, old.ins, old.outs) \in Int,
           BalancedTx(j.kind, ToMake(is, W, f, Creating!NoOutput))
    PROVE  Ready(j, is, W, f, Creating!NoOutput, old)
<1> DEFINE x == ToMake(is, W, f, Creating!NoOutput)
<1>1. x.ins = is /\ x.outs = W /\ x.fee = f /\ x.raw = Creating!Pairs(W) /\ x.new = TRUE
  BY DEF ToMake
<1>2. Relay(j.kind, is, W) <= Relay(j.kind, is, os) /\ Rel(j.kind, f, is, W) >= Rel(j.kind, f, is, os)
  BY Fewer
<1>3. Relay(j.kind, is, W) \in Int /\ Relay(j.kind, is, os) \in Int
  BY Sizes DEF Relay
<1>4. Rel(j.kind, f, is, W) \in Int /\ Rel(j.kind, f, is, os) \in Int
  BY Sizes DEF Rel
<1>5. f <= MaxFee /\ f >= Relay(j.kind, is, W)
  BY <1>2, <1>3 DEF Agreed
<1> HIDE DEF x
<1>6. RightTx(j.kind, j.args, x)
  BY <1>1, <1>5 DEF RightTx, x
<1>7. ASSUME old # Creating!Unmade PROVE ReplacesTx(j.kind, old, x)
  <2>1. Rel(j.kind, f, is, W) > Rel(j.kind, old.fee, old.ins, old.outs)
    BY <1>2, <1>4, <1>7 DEF Agreed
  <2>2. is = old.ins
    BY <1>7 DEF MadeBefore
  <2> QED
    BY <1>1, <2>1, <2>2 DEF ReplacesTx
<1> QED
  BY <1>6, <1>7 DEF Ready, x

LEMMA OldFee ==
    ASSUME NEW k, NEW is, IsFiniteSet(is), NEW x, x # Creating!Unmade, MadeBefore(k, is, x)
    PROVE  Rel(k, x.fee, x.ins, x.outs) \in Int
<1>1. x.ins = is /\ is # {} /\ IsFiniteSet(x.outs) /\ x.fee \in Nat
  BY DEF MadeBefore, Shape
<1>2. Creating!Size(x.ins, x.outs) \in Nat \ {0}
  BY <1>1, Sizes
<1> QED
  BY <1>1, <1>2 DEF Rel

(* The constants, as far as sums need them.                                *)
LEMMA CoinsSummed ==
    ASSUME Creating!CreateAssumption, NEW is \in SUBSET Coins
    PROVE  IsFiniteSet(is) /\ Creating!SumInputs(is) \in Int
<1>1. IsFiniteSet(is) /\ \A c \in is : Value[c] \in Int
  <2>1. IsFiniteSet(Coins)
    BY CreateFinite DEF Creating!CreateAssumption
  <2> QED
    BY <2>1, FS_Subset DEF Creating!CreateAssumption
<1> QED
  BY <1>1, InputsHold

(* The change output takes what is left, or is deleted.                    *)
ChangeTo(k, is, os, left, W) ==
    \/ Creating!Change(os) = {} /\ W = os
    \/ k = "btc" /\ left = 0 /\ W = os \ Creating!Change(os)
    \/ /\ Creating!Change(os) # {} /\ ~ (k = "btc" /\ left = 0)
       /\ W = UNION {Creating!WithAmt(os, o, IF k = "token" THEN Creating!SumInputs(is) ELSE left) :
                        o \in Creating!Change(os)}

LEMMA ChangeReady ==
    ASSUME Creating!CreateAssumption, NEW j, JobOk(j), NEW is \in SUBSET Coins, is # {}, NEW f \in Nat,
           NEW old, NEW os, Fresh(j, os), Agreed(j.kind, f, is, os, old), MadeBefore(j.kind, is, old),
           NEW left, left = Left(j.kind, f, is, os), NEW W,
           ChangeTo(j.kind, is, os, left, W)
    PROVE  Shape(W) /\ Ready(j, is, W, f, Creating!NoOutput, old)
<1>1. /\ Shape(os) /\ IsFiniteSet(os)
      /\ \A a \in j.args : a[2] # NoAmt => \E o \in os : o.to = a[1] /\ o.amt = a[2] /\ ~o.chg
      /\ \A o \in os : o.chg => o.amt = 0
      /\ j.kind = "btc" => \E c \in os : Creating!Change(os) = {c}
      /\ j.kind # "btc" => \E c \in os : os = {c}
  <2>1. ArgsFit(j.kind, j.args) /\ os = Creating!Outputs(j.args)
    BY DEF Fresh
  <2>2. Shape(os) => IsFiniteSet(os)
    BY DEF Shape
  <2> QED
    BY <2>1, <2>2, Requested
<1>2. IsFiniteSet(is) /\ Creating!SumInputs(is) \in Int
  BY CoinsSummed
<1>3. Creating!SumOutputs(os) \in Int
  BY <1>1, OutputsHold DEF Shape, OutputOk
<1>4. j.kind \in Kinds /\ MaxFee \in Nat /\ Ether \in Nat
  BY DEF JobOk, Creating!CreateAssumption
<1>5. /\ j.kind = "token" => left = Ether - f
      /\ j.kind # "token" => left = Creating!SumInputs(is) - (Creating!SumOutputs(os) + f)
      /\ left >= 0
  BY DEF Left, Agreed
<1>6. left \in Int
  BY <1>2, <1>3, <1>4, <1>5
<1>7. \A o \in Creating!Change(os) : o \in os /\ o.chg /\ o.amt = 0
  BY <1>1 DEF Creating!Change
<1>8. \A V : BalancedTx(j.kind, ToMake(is, V, f, Creating!NoOutput)) <=>
        /\ j.kind = "btc" => Creating!SumInputs(is) = Creating!SumOutputs(V) + f
        /\ j.kind = "vm" => Creating!SumInputs(is) >= Creating!SumOutputs(V) + f
        /\ j.kind = "token" => Creating!SumInputs(is) >= Creating!SumOutputs(V)
  BY DEF BalancedTx, ToMake
<1>9. \A V : IsFiniteSet(V) /\ Cardinality(V) <= Cardinality(os) /\ Paid(j.args, V)
             /\ BalancedTx(j.kind, ToMake(is, V, f, Creating!NoOutput))
             => Ready(j, is, V, f, Creating!NoOutput, old)
  BY <1>1, <1>2, <1>4, OldFee, NewReady
<1>10. CASE Creating!Change(os) = {} /\ W = os
  <2>1. Paid(j.args, os)
    BY <1>1 DEF Paid
  <2>2. j.kind # "btc"
    BY <1>1, <1>10
  <2>3. j.kind = "token" => Creating!SumInputs(is) >= Creating!SumOutputs(os)
    BY <1>2, <1>3, <1>10 DEF Agreed, Over
  <2>4. j.kind = "vm" => Creating!SumInputs(is) >= Creating!SumOutputs(os) + f
    BY <1>2, <1>3, <1>5
  <2>5. BalancedTx(j.kind, ToMake(is, os, f, Creating!NoOutput))
    BY <1>8, <2>2, <2>3, <2>4
  <2>6. Cardinality(os) <= Cardinality(os)
    BY <1>1, FS_CardinalityType
  <2> QED
    BY <1>1, <1>9, <1>10, <2>1, <2>5, <2>6
<1>11. CASE Creating!Change(os) # {}
  <2>1. PICK c \in os : Creating!Change(os) = {c} /\ c.chg /\ c.amt = 0
    <3>1. PICK c : Creating!Change(os) = {c}
      <4>1. CASE j.kind = "btc"
        BY <1>1, <4>1
      <4>2. CASE j.kind # "btc"
        BY <1>1, <1>7, <1>11, <4>2
      <4> QED
        BY <4>1, <4>2
    <3> QED
      BY <1>7, <3>1
  <2>2. \A a \in j.args : a[2] # NoAmt => \E o \in os \ {c} : o.to = a[1] /\ o.amt = a[2]
    BY <1>1, <2>1
  <2>3. CASE j.kind = "btc" /\ left = 0
    <3>1. W = os \ {c}
      BY <1>11, <2>1, <2>3 DEF ChangeTo
    <3>2. Shape(W) /\ Cardinality(W) = Cardinality(os) - 1
          /\ Creating!SumOutputs(W) = Creating!SumOutputs(os) - c.amt
      BY <1>1, <3>1, Dropped
    <3>3. Cardinality(W) <= Cardinality(os) /\ IsFiniteSet(W)
      BY <1>1, <3>2, FS_CardinalityType DEF Shape
    <3>4. Paid(j.args, W)
      BY <2>2, <3>1 DEF Paid
    <3>5. Creating!SumInputs(is) = Creating!SumOutputs(W) + f
      BY <1>2, <1>3, <1>5, <2>1, <2>3, <3>2
    <3>6. BalancedTx(j.kind, ToMake(is, W, f, Creating!NoOutput))
      BY <1>8, <2>3, <3>5
    <3> QED
      BY <1>9, <3>2, <3>3, <3>4, <3>6
  <2>4. CASE ~ (j.kind = "btc" /\ left = 0)
    <3>1. PICK m \in Int : m = IF j.kind = "token" THEN Creating!SumInputs(is) ELSE left
      BY <1>2, <1>6
    <3>2. W = Creating!WithAmt(os, c, m)
      <4>1. W = UNION {Creating!WithAmt(os, o, m) : o \in {c}}
        BY <1>11, <2>1, <2>4, <3>1 DEF ChangeTo
      <4> QED
        BY <4>1
    <3>3. /\ Shape(W) /\ Cardinality(W) = Cardinality(os)
          /\ \A q \in os : q # c => q \in W
          /\ Creating!SumOutputs(W) = Creating!SumOutputs(os) - c.amt + m
      BY <1>1, <3>2, Altered
    <3>4. Cardinality(W) <= Cardinality(os) /\ IsFiniteSet(W)
      BY <1>1, <3>3, FS_CardinalityType DEF Shape
    <3>5. Paid(j.args, W)
      BY <2>2, <3>3 DEF Paid
    <3>6. CASE j.kind = "token"
      <4>1. os = {c}
        BY <1>1, <3>6
      <4>2. Creating!SumOutputs(os) = 0
        <5>1. /\ Creating!SumOutputs(os \ {c}) \in Int
              /\ Creating!SumOutputs(os) = c.amt + Creating!SumOutputs(os \ {c})
          BY <1>1, <2>1, OutputsHold DEF Shape, OutputOk
        <5>2. os \ {c} = {}
          BY <4>1
        <5>3. Creating!SumOutputs(os \ {c}) = 0
          BY <5>2, NothingOut
        <5> QED
          BY <2>1, <5>1, <5>3
      <4>3. Creating!SumInputs(is) >= Creating!SumOutputs(W)
        BY <1>2, <2>1, <3>1, <3>3, <3>6, <4>2
      <4> QED
        BY <1>8, <1>9, <3>3, <3>4, <3>5, <3>6, <4>3
    <3>7. CASE j.kind # "token"
      <4>1. Creating!SumInputs(is) = Creating!SumOutputs(W) + f /\ Creating!SumOutputs(W) + f \in Int
        BY <1>2, <1>3, <1>5, <2>1, <3>1, <3>3, <3>7
      <4>2. Creating!SumInputs(is) >= Creating!SumOutputs(W) + f
        BY <1>2, <4>1
      <4> QED
        BY <1>8, <1>9, <3>3, <3>4, <3>5, <3>7, <4>1, <4>2
    <3> QED
      BY <3>6, <3>7
  <2> QED
    BY <2>3, <2>4
<1> QED
  BY <1>10, <1>11 DEF ChangeTo

(* One output of the original gives up what a higher fee takes.            *)
LEMMA BumpReady ==
    ASSUME Creating!CreateAssumption, NEW j, JobOk(j), NEW is \in SUBSET Coins, is # {}, NEW os,
           NEW old, old # Creating!Unmade, MadeBefore(j.kind, is, old), os = old.outs, NEW r \in os,
           NEW f \in Nat, f <= MaxFee, f >= Relay(j.kind, is, os),
           Rel(j.kind, f, is, os) > Rel(j.kind, old.fee, old.ins, old.outs),
           j.kind = "btc" => f >= old.fee + Relay(j.kind, is, os) /\ f < r.amt,
           NEW W, W = IF j.kind = "btc"
                      THEN Creating!WithAmt(os, r, Creating!SumInputs(is) - Creating!SumOutputs(os \ {r}) - f)
                      ELSE os
    PROVE  Shape(W) /\ Ready(j, is, W, f, r, old)
<1>1. /\ Shape(os) /\ IsFiniteSet(os) /\ is = old.ins /\ old.fee \in Nat
      /\ j.kind = "btc" => Creating!SumInputs(is) = Creating!SumOutputs(os) + old.fee
  BY DEF MadeBefore, Shape
<1>2. r # Creating!NoOutput
  <2>1. r.to # NoAmt
    BY <1>1 DEF Shape, OutputOk
  <2>2. Creating!NoOutput.to = NoAmt
    BY DEF Creating!NoOutput, Creating!Output
  <2> QED
    BY <2>1, <2>2
<1> DEFINE x == ToMake(is, W, f, r)
<1>3. x.ins = is /\ x.outs = W /\ x.fee = f /\ x.raw = Creating!Pairs(W) /\ x.new = FALSE
  BY <1>2 DEF ToMake
<1>4. CASE j.kind # "btc"
  <2>1. W = os
    BY <1>4
  <2>2. BalancedTx(j.kind, x)
    BY <1>3, <1>4 DEF BalancedTx
  <2> HIDE DEF x
  <2>3. RightTx(j.kind, j.args, x)
    BY <1>3, <2>1, <2>2 DEF RightTx
  <2>4. ReplacesTx(j.kind, old, x)
    BY <1>1, <1>3, <1>4, <2>1 DEF ReplacesTx
  <2> QED
    BY <1>1, <2>1, <2>3, <2>4 DEF Ready, x
<1>5. CASE j.kind = "btc"
  <2>1. IsFiniteSet(is) /\ Creating!SumInputs(is) \in Int
    BY CoinsSummed
  <2>2. /\ Creating!SumOutputs(os \ {r}) \in Int /\ r.amt \in Int
        /\ Creating!SumOutputs(os) = r.amt + Creating!SumOutputs(os \ {r})
    BY <1>1, OutputsHold DEF Shape, OutputOk
  <2>3. PICK m \in Int : m = Creating!SumInputs(is) - Creating!SumOutputs(os \ {r}) - f
    BY <2>1, <2>2
  <2>4. m = r.amt + old.fee - f
    BY <1>1, <1>5, <2>2, <2>3
  <2>5. W = Creating!WithAmt(os, r, m)
    BY <1>5, <2>3
  <2>6. /\ Shape(W) /\ Cardinality(W) = Cardinality(os)
        /\ Creating!SumOutputs(W) = Creating!SumOutputs(os) - r.amt + m
    BY <1>1, <2>5, Altered
  <2>7. PICK p \in W : p.to = r.to /\ p.amt = m /\ W \ {p} = os \ {r}
    <3>1. InPlace(os, r, m, W)
      BY <1>1, <2>5, Altered
    <3> QED
      BY <3>1 DEF InPlace
  <2>8. Creating!Size(is, os) = Creating!Size(is, W) /\ Creating!Size(is, os) \in Nat /\ Creating!Size(is, os) >= 2
    BY <1>1, <2>1, <2>6, Sizes DEF Shape
  <2>9. Relay(j.kind, is, W) = Relay(j.kind, is, os) /\ Relay(j.kind, is, os) \in Nat /\ Relay(j.kind, is, os) > 0
    BY <1>5, <2>8 DEF Relay
  <2>10. Rel(j.kind, f, is, W) = Rel(j.kind, f, is, os)
    BY <2>8 DEF Rel
  <2>11. m > 0 /\ m < r.amt
    BY <1>1, <1>5, <2>2, <2>4, <2>9
  <2>12. Creating!SumInputs(is) = Creating!SumOutputs(W) + f
    BY <2>1, <2>2, <2>3, <2>6
  <2> HIDE DEF x
  <2>13. BalancedTx(j.kind, x)
    BY <1>3, <1>5, <2>12 DEF BalancedTx
  <2>14. RightTx(j.kind, j.args, x)
    BY <1>3, <2>9, <2>13 DEF RightTx
  <2>15. ReplacesTx(j.kind, old, x)
    <3>1. x.ins = old.ins /\ Rel(j.kind, x.fee, x.ins, x.outs) > Rel(j.kind, old.fee, old.ins, old.outs)
      BY <1>1, <1>3, <2>10
    <3>2. x.fee >= old.fee + Relay(j.kind, x.ins, x.outs)
      BY <1>3, <1>5, <2>9
    <3>3. \E o \in old.outs, q \in x.outs :
             /\ x.outs \ {q} = old.outs \ {o}
             /\ q.to = o.to /\ q.amt > 0 /\ q.amt < o.amt
      BY <1>3, <2>7, <2>11
    <3> QED
      BY <3>1, <3>2, <3>3 DEF ReplacesTx
  <2> QED
    BY <2>6, <2>14, <2>15 DEF Ready, x
<1> QED
  BY <1>4, <1>5

----------------------------------------------------------------------------
(* What a command knows at each prompt.                                    *)
USE DEF Creating!vars

CreateInv ==
    /\ JobOk(job) /\ ins \in SUBSET Coins /\ Shape(outs) /\ fee \in Nat
    /\ MadeBefore(job.kind, ins, tx)
    /\ step \in {"args", "inputs", "fee", "change"} => reduced = Creating!NoOutput
    /\ step \in {"inputs", "fee", "change"} => Fresh(job, outs)
    /\ step \in {"fee", "change", "raw"} => ins # {}
    /\ step = "change" => Agreed(job.kind, fee, ins, outs, tx)
    /\ step = "raw" => Ready(job, ins, outs, fee, reduced, tx)
    /\ step \in {"made", "choose", "bumpfee"} => tx # Creating!Unmade /\ outs = tx.outs
    /\ step = "made" => RightTx(job.kind, job.args, tx)
    /\ step = "bumpfee" => reduced \in outs

LEMMA KindTerms ==
    /\ \A is, os : Creating!RelayFee(is, os) = Relay(job.kind, is, os)
    /\ \A f, is, os : Creating!RelFee(f, is, os) = Rel(job.kind, f, is, os)
    /\ \A f : Creating!FundsLeft(f) = Left(job.kind, f, ins, outs)
    /\ Creating!Overdrawn <=> Over(job.kind, ins, outs)
    /\ \A args : Creating!ArgsOk(args) <=> ArgsFit(job.kind, args)
<1>1. /\ \A is, os : Creating!RelayFee(is, os) = Relay(job.kind, is, os)
      /\ \A f, is, os : Creating!RelFee(f, is, os) = Rel(job.kind, f, is, os)
      /\ \A f : Creating!FundsLeft(f) = Left(job.kind, f, ins, outs)
      /\ Creating!Overdrawn <=> Over(job.kind, ins, outs)
  BY DEF Creating!RelayFee, Relay, Creating!RelFee, Rel, Creating!FundsLeft, Left, Creating!Overdrawn, Over
<1>2. \A args : Creating!ArgsOk(args) <=> ArgsFit(job.kind, args)
  BY CreateCounted DEF Creating!ArgsOk, ArgsFit
<1> QED
  BY <1>1, <1>2

LEMMA CreateInit == Creating!CreateAssumption /\ Creating!Init => CreateInv
<1> SUFFICES ASSUME Creating!CreateAssumption, Creating!Init PROVE CreateInv
  OBVIOUS
<1>1. JobOk(job)
  <2>1. /\ job = [kind |-> job.kind, args |-> job.args, rbf |-> job.rbf]
        /\ job.kind \in Kinds
        /\ \A a \in job.args : a[1] # NoAmt /\ (a[2] # NoAmt => a[2] \in Nat)
    BY DEF Creating!Init, Creating!CreateAssumption, Kinds
  <2>2. IsFiniteSet(job.args)
    BY CreateFinite DEF Creating!Init, Creating!CreateAssumption
  <2> QED
    BY <2>1, <2>2 DEF JobOk
<1>2. Shape(outs)
  BY FS_EmptySet DEF Creating!Init, Shape
<1>3. MadeBefore(job.kind, ins, tx)
  BY DEF Creating!Init, MadeBefore
<1> QED
  BY <1>1, <1>2, <1>3 DEF Creating!Init, CreateInv

LEMMA CreateNext == Creating!CreateAssumption /\ CreateInv /\ [Creating!Next]_Creating!vars => CreateInv'
<1> SUFFICES ASSUME Creating!CreateAssumption, CreateInv, [Creating!Next]_Creating!vars PROVE CreateInv'
  OBVIOUS
<1>0. JobOk(job) /\ ins \in SUBSET Coins /\ Shape(outs) /\ fee \in Nat /\ MadeBefore(job.kind, ins, tx)
  BY DEF CreateInv
<1>1. CASE Creating!ProcessCmdlineArgs
  <2>1. UNCHANGED <<job, ins, fee, reduced, tx>> /\ step = "args" /\ reduced = Creating!NoOutput
    BY <1>1 DEF Creating!ProcessCmdlineArgs, CreateInv
  <2>2. CASE Creating!ArgsOk(job.args)
    <3>1. outs' = Creating!Outputs(job.args) /\ step' = "inputs"
      BY <1>1, <2>2 DEF Creating!ProcessCmdlineArgs
    <3>2. ArgsFit(job.kind, job.args)
      BY <2>2, KindTerms
    <3>3. Fresh(job, outs')
      BY <3>1, <3>2 DEF Fresh
    <3>4. Shape(outs')
      BY <1>0, <3>1, <3>2, Requested
    <3> QED
      BY <1>0, <2>1, <3>1, <3>3, <3>4 DEF CreateInv
  <2>3. CASE ~Creating!ArgsOk(job.args)
    <3>1. outs' = outs /\ step' = "died"
      BY <1>1, <2>3 DEF Creating!ProcessCmdlineArgs
    <3> QED
      BY <1>0, <2>1, <3>1 DEF CreateInv
  <2> QED
    BY <2>2, <2>3
<1>2. CASE Creating!GetInputs
  <2>1. /\ UNCHANGED <<job, outs, fee, reduced, tx>> /\ step' = "fee" /\ step = "inputs"
        /\ ins' \in SUBSET Coins /\ ins' # {}
        /\ tx # Creating!Unmade => ins' = ins
    <3>0. UNCHANGED <<job, outs, fee, reduced, tx>> /\ step' = "fee" /\ step = "inputs"
      BY <1>2 DEF Creating!GetInputs
    <3>1. CASE tx # Creating!Unmade
      <4>1. ins # {}
        BY <1>0, <3>1 DEF MadeBefore
      <4> QED
        BY <1>0, <1>2, <3>0, <3>1, <4>1 DEF Creating!GetInputs, Creating!Bumping
    <3>2. CASE tx = Creating!Unmade
      <4>1. PICK is \in (SUBSET Coins) \ {{}} : ins' = is
        BY <1>2, <3>2 DEF Creating!GetInputs, Creating!Bumping
      <4> QED
        BY <3>0, <3>2, <4>1
    <3> QED
      BY <3>1, <3>2
  <2>2. MadeBefore(job.kind, ins', tx)
    BY <1>0, <2>1 DEF MadeBefore
  <2>3. reduced = Creating!NoOutput /\ Fresh(job, outs)
    BY <2>1 DEF CreateInv
  <2> QED
    BY <1>0, <2>1, <2>2, <2>3 DEF CreateInv
<1>3. ASSUME NEW f \in Fees, Creating!GetFee(f) PROVE CreateInv'
  <2>1. /\ UNCHANGED <<job, ins, outs, reduced, tx>> /\ step = "fee" /\ fee' = f /\ f \in Nat
        /\ step' \in {"inputs", "crashed", "change"}
    BY <1>3 DEF Creating!GetFee, Creating!CreateAssumption
  <2>2. reduced = Creating!NoOutput /\ Fresh(job, outs) /\ ins # {}
    BY <2>1 DEF CreateInv
  <2>3. ASSUME step' = "change" PROVE Agreed(job.kind, f, ins, outs, tx)
    <3>1. ~ (Creating!FundsLeft(f) < 0) /\ ~ (Creating!FundsLeft(f) >= 0 /\ Creating!Overdrawn)
      BY <1>3, <2>3 DEF Creating!GetFee
    <3>2. Left(job.kind, f, ins, outs) \in Int
      <4>1. Creating!SumInputs(ins) \in Int /\ Creating!SumOutputs(outs) \in Int
        BY <1>0, CoinsSummed, OutputsHold DEF Shape, OutputOk
      <4> QED
        BY <2>1, <4>1 DEF Left, Creating!CreateAssumption
    <3>3. Left(job.kind, f, ins, outs) >= 0 /\ ~Over(job.kind, ins, outs)
      BY <3>1, <3>2, KindTerms
    <3>4. f <= MaxFee /\ f >= Relay(job.kind, ins, outs)
      BY <1>3, KindTerms DEF Creating!GetFee, Creating!ConvertAndCheckFee
    <3>5. tx # Creating!Unmade => Rel(job.kind, f, ins, outs) > Rel(job.kind, tx.fee, tx.ins, tx.outs)
      BY <1>3, KindTerms DEF Creating!GetFee, Creating!CheckBumpedFee, Creating!Bumping
    <3> QED
      BY <3>3, <3>4, <3>5 DEF Agreed
  <2> QED
    BY <1>0, <2>1, <2>2, <2>3 DEF CreateInv
<1>4. CASE Creating!UpdateChange
  <2>1. /\ UNCHANGED <<job, ins, fee, reduced, tx>> /\ step = "change"
        /\ step' \in {"raw", "crashed", "quit"}
    BY <1>4 DEF Creating!UpdateChange
  <2>2. reduced = Creating!NoOutput /\ Fresh(job, outs) /\ ins # {} /\ Agreed(job.kind, fee, ins, outs, tx)
    BY <2>1 DEF CreateInv
  <2>3. PICK left : left = Left(job.kind, fee, ins, outs)
    OBVIOUS
  <2>4. Creating!FundsLeft(fee) = left
    BY <2>3, KindTerms
  <2>5. PICK W : W = outs'
    OBVIOUS
  <2>6. ChangeTo(job.kind, ins, outs, left, W)
    BY <1>4, <2>4, <2>5 DEF Creating!UpdateChange, ChangeTo
  <2>7. Shape(W) /\ Ready(job, ins, W, fee, Creating!NoOutput, tx)
    BY <1>0, <2>2, <2>3, <2>6, ChangeReady
  <2> QED
    BY <1>0, <2>1, <2>2, <2>5, <2>7 DEF CreateInv
<1>5. CASE Creating!BumpFee
  <2>1. /\ UNCHANGED <<job, ins, outs, fee, reduced, tx>> /\ step = "made" /\ step' \in {"choose", "died"}
    BY <1>5 DEF Creating!BumpFee
  <2> QED
    BY <1>0, <2>1 DEF CreateInv
<1>6. CASE Creating!Quit
  BY <1>0, <1>6 DEF Creating!Quit, CreateInv
<1>7. ASSUME NEW f \in Fees, Creating!BumpFeeTo(f) PROVE CreateInv'
  <2>1. /\ UNCHANGED <<job, ins, reduced, tx>> /\ step = "bumpfee" /\ step' = "raw" /\ fee' = f /\ f \in Nat
    BY <1>7 DEF Creating!BumpFeeTo, Creating!CreateAssumption
  <2>2. tx # Creating!Unmade /\ outs = tx.outs /\ reduced \in outs
    BY <2>1 DEF CreateInv
  <2>3. ins # {} /\ ins = tx.ins
    BY <1>0, <2>2 DEF MadeBefore
  <2>4. f <= MaxFee /\ f >= Relay(job.kind, ins, outs)
    BY <1>7, KindTerms DEF Creating!BumpFeeTo, Creating!ConvertAndCheckFee
  <2>5. Rel(job.kind, f, ins, outs) > Rel(job.kind, tx.fee, tx.ins, tx.outs)
    BY <1>7, <2>2, KindTerms DEF Creating!BumpFeeTo, Creating!CheckBumpedFee, Creating!Bumping
  <2>6. job.kind = "btc" => f >= tx.fee + Relay(job.kind, ins, outs) /\ f < reduced.amt
    <3>1. job.kind = "btc" => f >= Creating!MinFee /\ f < reduced.amt
      BY <1>7 DEF Creating!BumpFeeTo, Creating!BumpBounds
    <3>2. job.kind = "btc" => Creating!MinFee = tx.fee + Creating!RelayFee(tx.ins, tx.outs)
      BY DEF Creating!MinFee
    <3>3. Creating!RelayFee(tx.ins, tx.outs) = Relay(job.kind, ins, outs)
      BY <2>2, <2>3, KindTerms
    <3> QED
      BY <3>1, <3>2, <3>3
  <2>7. PICK W : W = outs'
    OBVIOUS
  <2>8. W = IF job.kind = "btc"
            THEN Creating!WithAmt(outs, reduced, Creating!SumInputs(ins) - Creating!SumOutputs(outs \ {reduced}) - f)
            ELSE outs
    BY <1>7, <2>7 DEF Creating!BumpFeeTo, Creating!BumpedOutputs
  <2>9. Shape(W) /\ Ready(job, ins, W, f, reduced, tx)
    BY <1>0, <2>1, <2>2, <2>3, <2>4, <2>5, <2>6, <2>8, BumpReady
  <2> QED
    BY <1>0, <2>1, <2>3, <2>7, <2>9 DEF CreateInv
<1>8. ASSUME NEW rw, Creating!CreateSerialized(rw) PROVE CreateInv'
  <2>1. UNCHANGED <<job, ins, outs, fee, reduced>> /\ step = "raw" /\ step' \in {"made", "died"}
    BY <1>8 DEF Creating!CreateSerialized
  <2>2. ins # {} /\ Ready(job, ins, outs, fee, reduced, tx)
    BY <2>1 DEF CreateInv
  <2>3. CASE step' = "died"
    <3>1. tx' = tx
      BY <1>8, <2>3 DEF Creating!CreateSerialized
    <3> QED
      BY <1>0, <2>1, <2>3, <3>1 DEF CreateInv
  <2>4. CASE step' = "made"
    <3>1. PICK x : x = ToMake(ins, outs, fee, reduced)
      OBVIOUS
    <3>2. tx' = x
      BY <1>8, <2>4, <3>1 DEF Creating!CreateSerialized, Creating!CheckSerializedIntegrity, ToMake
    <3>3. RightTx(job.kind, job.args, x)
      BY <2>2, <3>1 DEF Ready
    <3>4. x.ins = ins /\ x.outs = outs /\ x.fee = fee
      BY <3>1 DEF ToMake
    <3>5. x # Creating!Unmade
      <4>1. Creating!Unmade.ins = {}
        BY DEF Creating!Unmade
      <4> QED
        BY <2>2, <3>4, <4>1
    <3>6. MadeBefore(job.kind, ins, x)
      BY <1>0, <2>2, <3>3, <3>4 DEF MadeBefore, RightTx, BalancedTx
    <3> QED
      BY <1>0, <2>1, <2>4, <3>2, <3>3, <3>4, <3>5, <3>6 DEF CreateInv
  <2> QED
    BY <2>1, <2>3, <2>4
<1>9. ASSUME NEW j \in CreateJobs, j.kind = job.kind, Creating!BumpNew(j.args) PROVE CreateInv'
  <2>1. /\ job' = [job EXCEPT !.args = j.args] /\ step = "made" /\ step' = "args" /\ reduced' = Creating!NoOutput
        /\ UNCHANGED <<ins, outs, fee, tx>>
    BY <1>9 DEF Creating!BumpNew
  <2>2. IsFiniteSet(j.args) /\ \A a \in j.args : a[1] # NoAmt /\ (a[2] # NoAmt => a[2] \in Nat)
    BY CreateFinite DEF Creating!CreateAssumption
  <2>3. PICK k : k = [kind |-> job.kind, args |-> j.args, rbf |-> job.rbf]
    OBVIOUS
  <2>4. job' = k /\ k.kind = job.kind /\ k.args = j.args /\ k.rbf = job.rbf
    BY <1>0, <2>1, <2>3 DEF JobOk
  <2>5. JobOk(k)
    BY <1>0, <2>2, <2>3, <2>4 DEF JobOk
  <2>6. MadeBefore(k.kind, ins, tx)
    BY <1>0, <2>4
  <2> QED
    BY <1>0, <2>1, <2>4, <2>5, <2>6 DEF CreateInv
<1>10. ASSUME NEW o \in outs, Creating!ChooseOutput(o) PROVE CreateInv'
  <2>1. UNCHANGED <<job, ins, outs, fee, tx>> /\ step = "choose" /\ step' = "bumpfee" /\ reduced' = o
    BY <1>10 DEF Creating!ChooseOutput
  <2> QED
    BY <1>0, <1>10, <2>1 DEF CreateInv
<1>11. CASE UNCHANGED Creating!vars
  BY <1>11 DEF CreateInv
<1> QED
  BY <1>1, <1>2, <1>3, <1>4, <1>5, <1>6, <1>7, <1>8, <1>9, <1>10, <1>11 DEF Creating!Next

(* Every transaction that is made spends its inputs on its outputs and its *)
(* fee, pays what was asked for, and has a fee within the bounds, however  *)
(* often inputs and fees were asked for and the transaction was replaced.  *)
THEOREM MadeInBalance == ASSUME Creating!CreateAssumption PROVE Creating!Spec => []Creating!MadeRight
<1>1. Creating!Init => CreateInv
  BY CreateInit
<1>2. CreateInv /\ [Creating!Next]_Creating!vars => CreateInv'
  BY CreateNext
<1>3. CreateInv => Creating!MadeRight
  <2> SUFFICES ASSUME CreateInv, step = "made" PROVE Creating!MadeRight
    BY DEF Creating!MadeRight
  <2>1. RightTx(job.kind, job.args, tx) /\ JobOk(job) /\ MadeBefore(job.kind, ins, tx) /\ tx # Creating!Unmade
    BY DEF CreateInv
  <2>2. Creating!AsAsked /\ tx.raw = Creating!Pairs(tx.outs)
    BY <2>1 DEF RightTx, Paid, Creating!AsAsked
  <2>3. Creating!FeeInBounds
    BY <2>1, KindTerms DEF RightTx, Creating!FeeInBounds
  <2>4. Creating!SumOutputs(tx.outs) \in Int
    BY <2>1, OutputsHold DEF MadeBefore, Shape, OutputOk
  <2>5. Creating!Balanced
    BY <2>1, <2>4 DEF RightTx, BalancedTx, JobOk, Kinds, Creating!Balanced
  <2> QED
    BY <2>2, <2>3, <2>5 DEF Creating!MadeRight
<1> QED
  BY <1>1, <1>2, <1>3, PTL DEF Creating!Spec

(* A replacement spends the same inputs at a higher relative fee; and with *)
(* the outputs of the original it takes the difference from one of them,   *)
(* which is still worth something.                                         *)
THEOREM ReplacedForMore == ASSUME Creating!CreateAssumption PROVE Creating!Spec => Creating!BumpReplaces
<1>1. Creating!Init => CreateInv
  BY CreateInit
<1>2. CreateInv /\ [Creating!Next]_Creating!vars => CreateInv'
  BY CreateNext
<1>3. CreateInv /\ [Creating!Next]_Creating!vars => [Creating!Replacing]_Creating!vars
  <2> SUFFICES ASSUME CreateInv, Creating!Next, tx # Creating!Unmade, tx' # tx PROVE Creating!Replaces(tx, tx')
    BY DEF Creating!Replacing
  <2>1. PICK rw : Creating!CreateSerialized(rw)
    BY DEF Creating!Next, Creating!ProcessCmdlineArgs, Creating!GetInputs, Creating!UpdateChange, Creating!BumpFee,
           Creating!Quit, Creating!GetFee, Creating!BumpFeeTo, Creating!BumpNew, Creating!ChooseOutput
  <2>2. PICK x : x = ToMake(ins, outs, fee, reduced)
    OBVIOUS
  <2>3. step = "raw" /\ tx' = x
    BY <2>1, <2>2 DEF Creating!CreateSerialized, Creating!CheckSerializedIntegrity, ToMake
  <2>4. ReplacesTx(job.kind, tx, x)
    BY <2>2, <2>3 DEF CreateInv, Ready
  <2>5. Creating!Replaces(tx, x)
    BY <2>4, KindTerms DEF ReplacesTx, Creating!Replaces
  <2> QED
    BY <2>3, <2>5
<1> QED
  BY <1>1, <1>2, <1>3, PTL DEF Creating!Spec, Creating!BumpReplaces
-----------------------------------------------------------------------------
(* How a command gets its configuration (Config).                          *)
USE DEF Options!vars, Options!attrs, Options!files

OptName == DOMAIN Options!All

Samples == {"missing", "torn", "unmarked", "altered", "older", "current"}

(* Options are given by name, with a value that somebody wrote; what the   *)
(* user wrote in the file stays there.                                     *)
ConfigTyped ==
    /\ job \in Starts
    /\ idx \in Nat \ {0}
    /\ opts \subseteq DOMAIN Option
    /\ DOMAIN uopts \subseteq OptName
    /\ \A o \in DOMAIN uopts : uopts[o] # Options!Unset
    /\ sample \in Samples
    /\ step \in {"user file", "write user", "lines", "auto", "sets", "conflicts", "check", "done"} => sample = "current"
    /\ job.lines # <<>> => usr = "lines"
    /\ step = "write user" => usr = "empty"

LEMMA StartFacts ==
    ASSUME Options!ConfigAssumption, job \in Starts
    PROVE  /\ Len(job.argv) \in Nat /\ DOMAIN job.argv = 1 .. Len(job.argv)
           /\ \A k \in DOMAIN job.argv :
                 /\ job.argv[k].text # Options!Unset
                 /\ job.argv[k].form = "short" => /\ job.argv[k].word \in Seq(Options!Range(job.argv[k].word))
                                                  /\ job.argv[k].word # <<>>
           /\ DOMAIN job.env \subseteq OptName /\ \A o \in DOMAIN job.env : job.env[o].text # Options!Unset
           /\ Len(job.lines) \in Nat /\ DOMAIN job.lines = 1 .. Len(job.lines)
           /\ \A k \in DOMAIN job.lines : job.lines[k].text # Options!Unset
           /\ job.sample \in Samples
<1>1. \A s : \A k \in DOMAIN s : s[k] \in Options!Range(s)
  BY DEF Options!Range
<1>2. job.argv \in Seq(Options!Range(job.argv)) /\ job.lines \in Seq(Options!Range(job.lines))
  BY DEF Options!ConfigAssumption, Options!IsSeq
<1>3. /\ Len(job.argv) \in Nat /\ DOMAIN job.argv = 1 .. Len(job.argv)
      /\ Len(job.lines) \in Nat /\ DOMAIN job.lines = 1 .. Len(job.lines)
  BY <1>2
<1> QED
  BY <1>1, <1>3 DEF Options!ConfigAssumption, Options!Said, Options!IsSeq, OptName, Samples

LEMMA OptionNames ==
    /\ DOMAIN Option \subseteq OptName /\ DOMAIN CoinOption \subseteq OptName
  BY DEF OptName, Options!All

(* What one option more on the command line does.                          *)
Given(o, v, m) == o \in OptName /\ v # Options!Unset /\ uopts' = Options!Assigned(uopts, o, v) /\ idx' = idx + m

OneMore == \/ uopts' = uopts /\ idx' = idx
           \/ \E o, v : Given(o, v, 1) \/ Given(o, v, 2)

LEMMA InArgv ==
    ASSUME Options!ConfigAssumption, ConfigTyped
    PROVE  /\ idx <= Len(job.argv) => idx \in DOMAIN job.argv /\ Options!Arg.text # Options!Unset
           /\ idx < Len(job.argv) => job.argv[idx + 1].text # Options!Unset
<1>1. job \in Starts /\ idx \in Nat \ {0}
  BY DEF ConfigTyped
<1>2. /\ Len(job.argv) \in Nat /\ DOMAIN job.argv = 1 .. Len(job.argv)
      /\ \A k \in DOMAIN job.argv : job.argv[k].text # Options!Unset
  BY <1>1, StartFacts
<1>3. idx <= Len(job.argv) => idx \in DOMAIN job.argv
  BY <1>1, <1>2
<1>4. idx < Len(job.argv) => idx + 1 \in DOMAIN job.argv
  BY <1>1, <1>2
<1> QED
  BY <1>2, <1>3, <1>4 DEF Options!Arg

LEMMA TakeParms ==
    ASSUME Options!ConfigAssumption, ConfigTyped, idx <= Len(job.argv), NEW o \in OptName, NEW v, v # Options!Unset,
           Options!TakeParm(o, v)
    PROVE  OneMore /\ step' \in {step, "died"}
<1>2. idx < Len(job.argv) => job.argv[idx + 1].text # Options!Unset
  BY InArgv
<1> QED
  BY <1>2 DEF Options!TakeParm, Options!Give, Options!Die, OneMore, Given, Options!NextIsParm

LEMMA TakeFlags ==
    ASSUME NEW o \in OptName, NEW v \in {"true", "false"}, Options!TakeFlag(o, v)
    PROVE  OneMore /\ step' \in {step, "died"}
  BY DEF Options!TakeFlag, Options!Give, Options!Die, OneMore, Given, Options!Unset

LEMMA LongOptions ==
    ASSUME Options!ConfigAssumption, ConfigTyped, Options!LongOption
    PROVE  OneMore /\ step' \in {step, "died"}
<1>1. idx <= Len(job.argv)
  BY DEF Options!LongOption
<1>2. Options!Arg.text # Options!Unset
  BY <1>1, InArgv
<1>3. CASE Options!Die
  BY <1>3 DEF Options!Die, OneMore
<1>4. ASSUME NEW o \in OptName, Options!TakeParm(o, Options!Arg.text) PROVE OneMore /\ step' \in {step, "died"}
  BY <1>1, <1>2, <1>4, TakeParms
<1>5. ASSUME NEW o \in OptName, NEW v \in {"true", "false"}, Options!TakeFlag(o, v) PROVE OneMore /\ step' \in {step, "died"}
  BY <1>5, TakeFlags
<1>6. ASSUME NEW o \in DOMAIN CoinOption, Options!TakeCoinOption(o) PROVE OneMore /\ step' \in {step, "died"}
  <2>1. o \in OptName
    BY OptionNames
  <2>2. Options!TakeFlag(o, "true") \/ Options!Die \/ Options!TakeParm(o, Options!Arg.text)
    BY <1>6 DEF Options!TakeCoinOption
  <2> QED
    BY <1>3, <1>4, <1>5, <2>1, <2>2
<1>7. \A o : o \in Options!Named(Options!Arg.word, opts) => o \in OptName
  <2>1. opts \subseteq OptName
    BY OptionNames DEF ConfigTyped
  <2> QED
    BY <2>1 DEF Options!Named
<1>8. \A o : o \in Options!NamedNegated(Options!Arg.word) => o \in OptName
  <2>1. opts \subseteq OptName
    BY OptionNames DEF ConfigTyped
  <2> QED
    BY <2>1 DEF Options!NamedNegated, Options!Flags
<1>9. \/ Options!Die
      \/ \E o \in Options!Named(Options!Arg.word, opts) :
            Options!TakeParm(o, Options!Arg.text) \/ Options!TakeFlag(o, "true")
      \/ \E o \in Options!NamedNegated(Options!Arg.word) : Options!TakeFlag(o, "false")
      \/ \E o \in DOMAIN CoinOption : Options!TakeCoinOption(o)
  BY DEF Options!LongOption
<1> QED
  BY <1>3, <1>4, <1>5, <1>6, <1>7, <1>8, <1>9

(* Several letters give several options at once.                           *)
LEMMA ShortOption ==
    ASSUME Options!ConfigAssumption, ConfigTyped, Options!ShortOptions
    PROVE  /\ DOMAIN uopts' \subseteq OptName
           /\ \A o \in DOMAIN uopts' : uopts'[o] # Options!Unset
           /\ idx' \in Nat \ {0} /\ step' \in {step, "died"}
<1> DEFINE A == Options!Arg
           Pick(x) == CHOOSE o \in Options!Letter(x) : TRUE
           given == [k \in DOMAIN A.word |-> Pick(A.word[k])]
           flags == {given[k] : k \in {x \in DOMAIN given : ~ Option[given[x]].parm}}
           last == given[Len(given)]
           rest == IF A.text # Options!Empty THEN A.text
                   ELSE IF Options!NextIsParm THEN job.argv[idx + 1].text ELSE Options!Bad
<1>1. idx <= Len(job.argv) /\ A.form = "short"
  BY DEF Options!ShortOptions
<1>2. idx \in DOMAIN job.argv
  BY <1>1, InArgv
<1>3. A.text # Options!Unset /\ A.word \in Seq(Options!Range(A.word)) /\ A.word # <<>>
  BY <1>1, <1>2, StartFacts DEF ConfigTyped, Options!Arg
<1>4. rest # Options!Unset
  <2>1. idx < Len(job.argv) => job.argv[idx + 1].text # Options!Unset
    BY InArgv
  <2> QED
    BY <1>3, <2>1 DEF Options!NextIsParm, Options!Bad, Options!Unset
<1>5. CASE Options!Die
  BY <1>5 DEF Options!Die, ConfigTyped
<1>6. CASE ~ \E k \in DOMAIN A.word : Options!Letter(A.word[k]) = {}
  <2>1. \A k \in DOMAIN A.word : given[k] \in opts
    BY <1>6 DEF Options!Letter
  <2>2. Len(given) \in DOMAIN A.word
    <3>1. PICK m \in Nat : DOMAIN A.word = 1 .. m /\ Len(A.word) = m
      BY <1>3
    <3>2. m # 0
      BY <1>3, <3>1
    <3>3. given \in [1 .. m -> opts]
      BY <2>1, <3>1
    <3>4. Len(given) = m
      BY <3>1, <3>3
    <3> QED
      BY <3>1, <3>2, <3>4
  <2>3. last \in OptName /\ flags \subseteq OptName
    BY <2>1, <2>2, OptionNames DEF ConfigTyped
  <2>4. \/ Options!Die
        \/ /\ uopts' = [x \in DOMAIN uopts \union flags |-> IF x \in flags THEN "true" ELSE uopts[x]]
           /\ idx' = idx + 1 /\ step' = step
        \/ /\ uopts' = [x \in DOMAIN uopts \union flags \union {last} |->
                           IF x = last THEN rest ELSE IF x \in flags THEN "true" ELSE uopts[x]]
           /\ idx' = idx + (IF A.text # Options!Empty THEN 1 ELSE 2) /\ step' = step
    BY <1>6 DEF Options!ShortOptions
  <2> HIDE DEF flags, last, rest
  <2>5. "true" # Options!Unset
    BY DEF Options!Unset
  <2>6. idx \in Nat \ {0} /\ DOMAIN uopts \subseteq OptName /\ \A o \in DOMAIN uopts : uopts[o] # Options!Unset
    BY DEF ConfigTyped
  <2>7. ASSUME uopts' = [x \in DOMAIN uopts \union flags |-> IF x \in flags THEN "true" ELSE uopts[x]]
        PROVE  DOMAIN uopts' \subseteq OptName /\ \A o \in DOMAIN uopts' : uopts'[o] # Options!Unset
    BY <2>3, <2>5, <2>6, <2>7
  <2>8. ASSUME uopts' = [x \in DOMAIN uopts \union flags \union {last} |->
                           IF x = last THEN rest ELSE IF x \in flags THEN "true" ELSE uopts[x]]
        PROVE  DOMAIN uopts' \subseteq OptName /\ \A o \in DOMAIN uopts' : uopts'[o] # Options!Unset
    BY <1>4, <2>3, <2>5, <2>6, <2>8
  <2>9. (idx' \in Nat \ {0} /\ step' \in {step, "died"}) \/ Options!Die
    BY <2>4, <2>6
  <2> QED
    BY <1>5, <2>4, <2>7, <2>8, <2>9
<1>7. CASE \E k \in DOMAIN A.word : Options!Letter(A.word[k]) = {}
  BY <1>5, <1>7 DEF Options!ShortOptions
<1> QED
  BY <1>6, <1>7

LEMMA AssignedTyped ==
    ASSUME NEW f, NEW o, NEW v, NEW g, g = Options!Assigned(f, o, v)
    PROVE  /\ DOMAIN g = DOMAIN f \union {o} /\ g[o] = v
           /\ \A x \in DOMAIN f : x # o => g[x] = f[x]
  BY DEF Options!Assigned

LEMMA ConfigTypedNext ==
    ASSUME Options!ConfigAssumption, ConfigTyped, [Options!Next]_Options!vars
    PROVE  ConfigTyped'
<1>0. idx \in Nat \ {0}
  BY DEF ConfigTyped
<1>a. \A m \in {1, 2} : idx + m \in Nat \ {0}
  BY <1>0
<1>1. CASE Options!LongOption
  <2>1. UNCHANGED <<job, opts, cfg, envopts, nonauto, auto, sample, usr, kills>> /\ step = "args"
    BY <1>1 DEF Options!LongOption, ConfigTyped
  <2>2. OneMore /\ step' \in {"args", "died"}
    BY <1>1, <2>1, LongOptions DEF ConfigTyped
  <2>3. DOMAIN uopts' \subseteq OptName /\ (\A o \in DOMAIN uopts' : uopts'[o] # Options!Unset) /\ idx' \in Nat \ {0}
    <3>1. CASE uopts' = uopts /\ idx' = idx
      BY <3>1 DEF ConfigTyped
    <3>2. ASSUME NEW o, NEW v, Given(o, v, 1) \/ Given(o, v, 2)
          PROVE  DOMAIN uopts' \subseteq OptName /\ (\A x \in DOMAIN uopts' : uopts'[x] # Options!Unset) /\ idx' \in Nat \ {0}
      <4>1. idx' \in Nat \ {0}
        BY <1>a, <3>2 DEF Given
      <4>2. uopts' = Options!Assigned(uopts, o, v) /\ o \in OptName /\ v # Options!Unset
        BY <3>2 DEF Given, ConfigTyped
      <4>3. DOMAIN uopts' = DOMAIN uopts \union {o} /\ uopts'[o] = v /\ \A x \in DOMAIN uopts : x # o => uopts'[x] = uopts[x]
        BY <4>2 DEF Options!Assigned
      <4> QED
        BY <4>1, <4>2, <4>3 DEF ConfigTyped
    <3> QED
      BY <2>2, <3>1, <3>2 DEF OneMore, ConfigTyped
  <2> QED
    BY <2>1, <2>2, <2>3 DEF ConfigTyped
<1>2. CASE Options!ShortOptions
  <2>1. UNCHANGED <<job, opts, cfg, envopts, nonauto, auto, sample, usr, kills>> /\ step = "args"
    BY <1>2 DEF Options!ShortOptions, ConfigTyped
  <2> QED
    BY <1>2, <2>1, ShortOption DEF ConfigTyped
<1>3. CASE Options!GetCoin
  <2>1. UNCHANGED <<job, idx, uopts, cfg, sample, usr>> /\ step' \in {"died", "args"} /\ opts' \subseteq DOMAIN Option
    BY <1>3 DEF Options!GetCoin, ConfigTyped
  <2> QED
    BY <2>1 DEF ConfigTyped
<1>4. CASE Options!SetUserOpts
  BY <1>4 DEF Options!SetUserOpts, ConfigTyped
<1>5. CASE Options!SetFromEnv
  <2>1. UNCHANGED <<job, idx, opts, uopts, sample, usr>> /\ step' \in {"died", "sample"}
    BY <1>5 DEF Options!SetFromEnv, ConfigTyped
  <2> QED
    BY <2>1 DEF ConfigTyped
<1>6. CASE Options!CheckSample \/ Options!WriteSample
  BY <1>6 DEF Options!CheckSample, Options!WriteSample, Samples, Options!Outdated, ConfigTyped
<1>7. CASE Options!OpenUserFile \/ Options!WriteUserFile
  <2>1. /\ UNCHANGED <<job, opts, uopts, sample>> /\ sample = "current"
        /\ step' = "write user" => usr' = "empty"
    BY <1>7 DEF Options!OpenUserFile, Options!WriteUserFile, ConfigTyped
  <2>2. job.lines # <<>> => usr' = "lines"
    <3>1. CASE Options!OpenUserFile
      BY <3>1 DEF Options!OpenUserFile, ConfigTyped
    <3>2. CASE Options!WriteUserFile
      BY <3>2 DEF Options!WriteUserFile, ConfigTyped
    <3> QED
      BY <1>7, <3>1, <3>2 DEF ConfigTyped
  <2>3. idx' = idx \/ idx' = 1
    BY <1>7 DEF Options!OpenUserFile, Options!WriteUserFile
  <2>4. idx' \in Nat \ {0}
    BY <1>0, <2>3
  <2> QED
    BY <2>1, <2>2, <2>4 DEF ConfigTyped
<1>8. CASE Options!ReadLine \/ Options!EndLines
  <2>1. UNCHANGED <<job, opts, uopts, sample, usr>> /\ sample = "current" /\ idx' \in {idx, idx + 1}
    BY <1>8 DEF Options!ReadLine, Options!EndLines, ConfigTyped
  <2>2. step' # "write user"
    BY <1>8 DEF Options!ReadLine, Options!EndLines, ConfigTyped
  <2>3. idx' \in Nat \ {0}
    BY <1>0, <1>a, <2>1
  <2> QED
    BY <2>1, <2>2, <2>3 DEF ConfigTyped
<1>9. CASE Options!SetAutomatic \/ Options!SetImplied \/ Options!DieOnIncompatible \/ Options!CheckOpts
  <2>1. UNCHANGED <<job, idx, opts, uopts, sample, usr>> /\ sample = "current" /\ step' # "write user"
    BY <1>9 DEF Options!SetAutomatic, Options!SetImplied, Options!DieOnIncompatible, Options!CheckOpts, ConfigTyped
  <2> QED
    BY <2>1 DEF ConfigTyped
<1>10. CASE Options!Restart
  <2>1. UNCHANGED <<job, sample, usr>> /\ step' = "start" /\ idx' = 1 /\ opts' = {} /\ uopts' = <<>>
    BY <1>10 DEF Options!Restart, ConfigTyped
  <2>2. DOMAIN uopts' = {}
    BY <2>1
  <2>3. idx' \in Nat \ {0}
    BY <2>1
  <2> QED
    BY <2>1, <2>2, <2>3 DEF ConfigTyped
<1>11. CASE UNCHANGED Options!vars
  BY <1>11 DEF ConfigTyped
<1> QED
  BY <1>1, <1>2, <1>3, <1>4, <1>5, <1>6, <1>7, <1>8, <1>9, <1>10, <1>11 DEF Options!Next

(* What the lines ls before line m make of an option: the last that names  *)
(* it counts, in the configuration c or among the values a kept for later. *)
FromLines(c, a, ls, m, o) ==
    /\ (\A k \in 1 .. m - 1 : ls[k].name # o) => o \notin DOMAIN c /\ o \notin DOMAIN a
    /\ \A k \in 1 .. m - 1 :
          ls[k].name = o /\ (\A x \in k + 1 .. m - 1 : ls[x].name # o) =>
             IF Options!Automatic(o) THEN o \in DOMAIN a /\ a[o] = ls[k].text
                                     ELSE o \in DOMAIN c /\ c[o] = Options!Conv(o, ls[k].text)

(* The command line u comes first, then the environment, then the file.    *)
Have(c, a, u, e, ls, m) ==
    \A o \in OptName :
       /\ Options!Automatic(o) => o \notin DOMAIN c
       /\ o \in DOMAIN u /\ ~ Options!Automatic(o) => o \in DOMAIN c /\ c[o] = Options!Conv(o, u[o])
       /\ o \in e => o \in DOMAIN c /\ c[o] = Options!EnvValue(o) /\ c[o] # Options!Bad /\ ~ Options!Automatic(o)
       /\ o \notin DOMAIN u /\ o \notin e => FromLines(c, a, ls, m, o)

LEMMA OtherLine ==
    ASSUME NEW c, NEW a, NEW c2, NEW a2, NEW ls, NEW m \in Nat \ {0}, NEW o, FromLines(c, a, ls, m, o), ls[m].name # o,
           o \in DOMAIN c2 <=> o \in DOMAIN c, o \in DOMAIN c => c2[o] = c[o],
           o \in DOMAIN a2 <=> o \in DOMAIN a, o \in DOMAIN a => a2[o] = a[o]
    PROVE  FromLines(c2, a2, ls, m + 1, o)
<1>1. 1 .. (m + 1) - 1 = (1 .. m - 1) \union {m}
  OBVIOUS
<1>2. \A k \in 1 .. m - 1 : m \in k + 1 .. (m + 1) - 1 /\ (k + 1 .. m - 1) \subseteq (k + 1 .. (m + 1) - 1)
  OBVIOUS
<1>3. ASSUME \A k \in 1 .. (m + 1) - 1 : ls[k].name # o PROVE o \notin DOMAIN c2 /\ o \notin DOMAIN a2
  <2>1. \A k \in 1 .. m - 1 : ls[k].name # o
    BY <1>1, <1>3
  <2> QED
    BY <2>1 DEF FromLines
<1>4. ASSUME NEW k \in 1 .. (m + 1) - 1, ls[k].name = o, \A x \in k + 1 .. (m + 1) - 1 : ls[x].name # o
      PROVE  IF Options!Automatic(o) THEN o \in DOMAIN a2 /\ a2[o] = ls[k].text
                                     ELSE o \in DOMAIN c2 /\ c2[o] = Options!Conv(o, ls[k].text)
  <2>1. k \in 1 .. m - 1
    BY <1>1, <1>4
  <2>2. \A x \in k + 1 .. m - 1 : ls[x].name # o
    BY <1>2, <1>4, <2>1
  <2> QED
    BY <1>4, <2>1, <2>2 DEF FromLines
<1> QED
  BY <1>3, <1>4 DEF FromLines

LEMMA ThisLine ==
    ASSUME NEW c, NEW a, NEW ls, NEW m \in Nat \ {0}, NEW o, ls[m].name = o,
           IF Options!Automatic(o) THEN o \in DOMAIN a /\ a[o] = ls[m].text
                                   ELSE o \in DOMAIN c /\ c[o] = Options!Conv(o, ls[m].text)
    PROVE  FromLines(c, a, ls, m + 1, o)
<1>1. m \in 1 .. (m + 1) - 1
  OBVIOUS
<1>2. \A k \in 1 .. (m + 1) - 1 : k = m \/ m \in k + 1 .. (m + 1) - 1
  OBVIOUS
<1> QED
  BY <1>1, <1>2 DEF FromLines

(* A line that is read, and accepted.                                      *)
LEMMA LineIsRead ==
    ASSUME Options!ConfigAssumption, ConfigTyped, Options!ReadLine, step' = "lines",
           Have(cfg, auto, uopts, envopts, Options!Lines, idx)
    PROVE  Have(cfg', auto', uopts, envopts, Options!Lines, idx + 1)
<1> DEFINE ls == Options!Lines
           nm == ls[idx].name
           v == ls[idx].text
<1>0. idx \in Nat \ {0}
  BY DEF ConfigTyped
<1>1. nm \in OptName /\ \/ UNCHANGED <<cfg, auto>> /\ nm \in DOMAIN uopts \union envopts
                        \/ /\ nm \notin DOMAIN uopts \union envopts /\ Options!All[nm].attr
                           /\ cfg' = Options!Assigned(cfg, nm, Options!Conv(nm, v)) /\ auto' = auto
                        \/ Options!Automatic(nm) /\ auto' = Options!Assigned(auto, nm, v) /\ cfg' = cfg
  BY DEF Options!ReadLine, OptName, Options!AlreadySet
<1> SUFFICES ASSUME NEW o \in OptName
             PROVE  /\ Options!Automatic(o) => o \notin DOMAIN cfg'
                    /\ o \in DOMAIN uopts /\ ~ Options!Automatic(o) => o \in DOMAIN cfg' /\ cfg'[o] = Options!Conv(o, uopts[o])
                    /\ o \in envopts => /\ o \in DOMAIN cfg' /\ cfg'[o] = Options!EnvValue(o)
                                        /\ cfg'[o] # Options!Bad /\ ~ Options!Automatic(o)
                    /\ o \notin DOMAIN uopts /\ o \notin envopts => FromLines(cfg', auto', ls, idx + 1, o)
  BY DEF Have
<1>2. /\ Options!Automatic(o) => o \notin DOMAIN cfg
      /\ o \in DOMAIN uopts /\ ~ Options!Automatic(o) => o \in DOMAIN cfg /\ cfg[o] = Options!Conv(o, uopts[o])
      /\ o \in envopts => o \in DOMAIN cfg /\ cfg[o] = Options!EnvValue(o) /\ cfg[o] # Options!Bad /\ ~ Options!Automatic(o)
      /\ o \notin DOMAIN uopts /\ o \notin envopts => FromLines(cfg, auto, ls, idx, o)
  BY DEF Have
<1>3. Options!All[nm].attr => ~ Options!Automatic(nm)
  BY <1>1 DEF Options!ConfigAssumption, OptName
<1> HIDE DEF nm, v, ls
<1>4. CASE UNCHANGED <<cfg, auto>> /\ nm \in DOMAIN uopts \union envopts
  <2>1. o \notin DOMAIN uopts /\ o \notin envopts => FromLines(cfg', auto', ls, idx + 1, o)
    BY <1>0, <1>2, <1>4, OtherLine DEF nm
  <2> QED
    BY <1>2, <1>4, <2>1
<1>5. CASE nm \notin DOMAIN uopts \union envopts /\ Options!All[nm].attr /\ auto' = auto
           /\ cfg' = Options!Assigned(cfg, nm, Options!Conv(nm, v))
  <2>1. DOMAIN cfg' = DOMAIN cfg \union {nm} /\ cfg'[nm] = Options!Conv(nm, v) /\ \A x \in DOMAIN cfg : x # nm => cfg'[x] = cfg[x]
    BY <1>5 DEF Options!Assigned
  <2>2. CASE o = nm
    <3>1. FromLines(cfg', auto', ls, idx + 1, o)
      BY <1>0, <1>3, <1>5, <2>1, <2>2, ThisLine DEF nm, v
    <3> QED
      BY <1>3, <1>5, <2>2, <3>1
  <2>3. CASE o # nm
    <3>1. o \notin DOMAIN uopts /\ o \notin envopts => FromLines(cfg', auto', ls, idx + 1, o)
      BY <1>0, <1>2, <1>5, <2>1, <2>3, OtherLine DEF nm
    <3> QED
      BY <1>2, <2>1, <2>3, <3>1
  <2> QED
    BY <2>2, <2>3
<1>6. CASE Options!Automatic(nm) /\ auto' = Options!Assigned(auto, nm, v) /\ cfg' = cfg
  <2>1. DOMAIN auto' = DOMAIN auto \union {nm} /\ auto'[nm] = v /\ \A x \in DOMAIN auto : x # nm => auto'[x] = auto[x]
    BY <1>6 DEF Options!Assigned
  <2>2. CASE o = nm
    <3>1. FromLines(cfg', auto', ls, idx + 1, o)
      BY <1>0, <1>6, <2>1, <2>2, ThisLine DEF nm, v
    <3> QED
      BY <1>2, <1>6, <2>2, <3>1
  <2>3. CASE o # nm
    <3>1. o \notin DOMAIN uopts /\ o \notin envopts => FromLines(cfg', auto', ls, idx + 1, o)
      BY <1>0, <1>2, <1>6, <2>1, <2>3, OtherLine DEF nm
    <3> QED
      BY <1>2, <1>6, <2>3, <3>1
  <2> QED
    BY <2>2, <2>3
<1> QED
  BY <1>1, <1>4, <1>5, <1>6

(* The last of the lines that name an option.                              *)
LEMMA LastNamed ==
    ASSUME NEW ls, NEW m \in Nat, DOMAIN ls = 1 .. m, NEW o,
           NEW k \in 1 .. m, ls[k].name = o, \A x \in k + 1 .. m : ls[x].name # o
    PROVE  LET ns == {j \in DOMAIN ls : ls[j].name = o} IN ns # {} /\ (CHOOSE j \in ns : \A x \in ns : x <= j) = k
<1> DEFINE ns == {j \in DOMAIN ls : ls[j].name = o}
<1>1. k \in ns
  OBVIOUS
<1>2. \A x \in ns : x <= k
  <2> SUFFICES ASSUME NEW x \in ns, ~ (x <= k) PROVE FALSE
    OBVIOUS
  <2>1. x \in 1 .. m /\ ls[x].name = o
    OBVIOUS
  <2>2. x \in k + 1 .. m
    BY <2>1
  <2> QED
    BY <2>1, <2>2
<1>3. \A j \in ns : (\A x \in ns : x <= j) => j = k
  <2> SUFFICES ASSUME NEW j \in ns, \A x \in ns : x <= j PROVE j = k
    OBVIOUS
  <2>1. k <= j /\ j <= k /\ j \in 1 .. m
    BY <1>1, <1>2
  <2> QED
    BY <2>1
<1> QED
  BY <1>1, <1>2, <1>3

SomeLine(ls, m, o) == \E k \in 1 .. m : ls[k].name = o

HasLast(ls, m, o) == \E k \in 1 .. m : ls[k].name = o /\ \A x \in k + 1 .. m : ls[x].name # o

LEMMA SomeNamed == ASSUME NEW ls, NEW m \in Nat, NEW o, SomeLine(ls, m, o) PROVE HasLast(ls, m, o)
<1> DEFINE ns == {j \in 1 .. m : ls[j].name = o}
<1>1. PICK k \in ns : \A j \in ns : k >= j
  <2>1. ns # {} /\ ns \subseteq 0 .. m
    BY DEF SomeLine
  <2> HIDE DEF ns
  <2> QED
    BY <2>1, Greatest
<1>2. \A x \in k + 1 .. m : ls[x].name # o
  <2> SUFFICES ASSUME NEW x \in k + 1 .. m, ls[x].name = o PROVE FALSE
    OBVIOUS
  <2>1. x \in 1 .. m
    BY <1>1
  <2>2. x \in ns /\ ~ (k >= x)
    BY <1>1, <2>1
  <2> QED
    BY <1>1, <2>2
<1> QED
  BY <1>1, <1>2 DEF HasLast

(* The value that an option has when nothing implies it.                   *)
Due(o) ==
    IF Options!Source(o) = Options!Unset
    THEN IF Options!All[o].type = "auto" THEN Head(Options!All[o].choices) ELSE Options!All[o].dflt
    ELSE IF Options!All[o].type = "auto" THEN CHOOSE c \in Options!Chosen(o, Options!Source(o)) : TRUE
                                         ELSE Options!Conv(o, Options!Source(o))

(* What the file says of an option that nobody else gives.                 *)
LEMMA FileSource ==
    ASSUME Options!ConfigAssumption, ConfigTyped, envopts = Options!EnvNames, NEW o \in OptName,
           Have(cfg, auto, uopts, envopts, Options!Lines, Len(Options!Lines) + 1),
           o \notin DOMAIN uopts, o \notin envopts
    PROVE  \/ Options!Source(o) = Options!Unset /\ o \notin DOMAIN cfg /\ o \notin DOMAIN auto
           \/ /\ Options!Source(o) # Options!Unset
              /\ IF Options!Automatic(o) THEN o \in DOMAIN auto /\ auto[o] = Options!Source(o)
                                         ELSE o \in DOMAIN cfg /\ cfg[o] = Options!Conv(o, Options!Source(o))
<1>1. job \in Starts
  BY DEF ConfigTyped
<1>2. /\ Len(job.lines) \in Nat /\ DOMAIN job.lines = 1 .. Len(job.lines)
      /\ \A k \in DOMAIN job.lines : job.lines[k].text # Options!Unset
  BY <1>1, StartFacts
<1>3. Options!Source(o) = Options!LastLine(o)
  BY DEF Options!Source, Options!EnvNames
<1>4. FromLines(cfg, auto, Options!Lines, Len(Options!Lines) + 1, o)
  BY DEF Have
<1>5. CASE usr # "lines"
  <2>1. Options!Lines = <<>> /\ Len(Options!Lines) = 0
    BY <1>5 DEF Options!Lines
  <2>2. FromLines(cfg, auto, Options!Lines, 1, o)
    BY <1>4, <2>1
  <2>3. 1 .. 1 - 1 = {}
    OBVIOUS
  <2>4. o \notin DOMAIN cfg /\ o \notin DOMAIN auto
    BY <2>2, <2>3 DEF FromLines
  <2> QED
    BY <1>3, <1>5, <2>4 DEF Options!LastLine
<1>6. CASE usr = "lines"
  <2> DEFINE m == Len(job.lines)
  <2>1. Options!Lines = job.lines
    BY <1>6 DEF Options!Lines
  <2>2. m \in Nat /\ (m + 1) - 1 = m
    BY <1>2
  <2>3. CASE \A k \in 1 .. m : job.lines[k].name # o
    <3>1. Options!Source(o) = Options!Unset
      BY <1>2, <1>3, <1>6, <2>3 DEF Options!LastLine
    <3> QED
      BY <1>4, <2>1, <2>2, <2>3, <3>1 DEF FromLines
  <2>4. CASE \E k \in 1 .. m : job.lines[k].name = o
    <3>1. PICK k \in 1 .. m : job.lines[k].name = o /\ \A x \in k + 1 .. m : job.lines[x].name # o
      <4> HIDE DEF m
      <4>1. PICK ls : ls = job.lines
        OBVIOUS
      <4>2. \E k \in 1 .. m : ls[k].name = o
        BY <2>4, <4>1
      <4>3. \E k \in 1 .. m : ls[k].name = o /\ \A x \in k + 1 .. m : ls[x].name # o
        <5>1. m \in Nat
          BY <2>2
        <5>2. PICK i \in Nat : i = m
          BY <5>1
        <5>3. SomeLine(ls, i, o)
          BY <4>2, <5>2 DEF SomeLine
        <5>4. HasLast(ls, i, o)
          BY <5>3, SomeNamed
        <5> QED
          BY <5>2, <5>4 DEF HasLast
      <4> QED
        BY <4>1, <4>3
    <3> DEFINE ns == {j \in DOMAIN job.lines : job.lines[j].name = o}
    <3>2. ns # {} /\ (CHOOSE j \in ns : \A x \in ns : x <= j) = k
      BY <1>2, <2>2, <3>1, LastNamed
    <3>3. Options!Source(o) = job.lines[k].text
      BY <1>3, <1>6, <3>2 DEF Options!LastLine
    <3>4. job.lines[k].text # Options!Unset
      BY <1>2
    <3>5. IF Options!Automatic(o) THEN o \in DOMAIN auto /\ auto[o] = job.lines[k].text
                                  ELSE o \in DOMAIN cfg /\ cfg[o] = Options!Conv(o, job.lines[k].text)
      BY <1>4, <2>1, <2>2, <3>1 DEF FromLines
    <3> QED
      BY <3>3, <3>4, <3>5
  <2> QED
    BY <2>3, <2>4
<1> QED
  BY <1>5, <1>6

LEMMA EnvFacts ==
    ASSUME Options!ConfigAssumption, NEW o \in OptName, Options!EnvValue(o) # Options!Bad,
           job.env[o].text # Options!Unset
    PROVE  Options!EnvValue(o) # Options!Unset /\ Options!Conv(o, Options!EnvValue(o)) = Options!EnvValue(o)
<1>1. PICK v : v = Options!EnvValue(o)
  OBVIOUS
<1>2. CASE Options!All[o].type = "bool"
  <2>1. v \in {"true", "false"}
    BY <1>1, <1>2 DEF Options!EnvValue, Options!Conv, Options!Inverted, Options!Bad
  <2> QED
    BY <1>1, <1>2, <2>1 DEF Options!Conv, Options!Yes, Options!No, Options!Unset
<1>3. CASE Options!All[o].type = "int"
  <2>1. Options!Number(v)
    BY <1>1, <1>3 DEF Options!EnvValue, Options!Conv, Options!Inverted, Options!Bad, Options!Number
  <2> QED
    BY <1>1, <1>3, <2>1 DEF Options!Conv, Options!Number, Options!Unset
<1>4. CASE Options!All[o].type \notin {"bool", "int"}
  <2>1. v \in {job.env[o].text, "true", "false"}
    BY <1>1, <1>4 DEF Options!EnvValue, Options!Conv, Options!Inverted
  <2> QED
    BY <1>1, <1>4, <2>1 DEF Options!Conv, Options!Unset
<1> QED
  BY <1>2, <1>3, <1>4

(* The value set automatically is the one due; if it stands for none, it   *)
(* is not set.                                                             *)
LEMMA AutoDue ==
    ASSUME Options!ConfigAssumption, NEW o \in OptName, Options!Automatic(o), Options!AutoValue(o) # Options!Bad,
           Options!Wanted(o) = Options!Source(o)
    PROVE  /\ Options!AutoValue(o) # Options!Unset => Options!AutoValue(o) = Due(o)
           /\ Options!AutoValue(o) = Options!Unset => Options!All[o].dflt = Due(o)
<1>1. CASE Options!Source(o) = Options!Unset
  <2>1. Options!All[o].type = "auto" /\ Head(Options!All[o].choices) = Options!Unset => Options!All[o].dflt = Options!Unset
    BY DEF Options!ConfigAssumption, OptName
  <2> QED
    BY <1>1, <2>1 DEF Options!AutoValue, Due, Options!Automatic
<1>2. CASE Options!Source(o) # Options!Unset /\ Options!All[o].type = "typed"
  <2>1. Options!AutoValue(o) = Options!Source(o)
    BY <1>2 DEF Options!AutoValue
  <2> QED
    BY <1>2, <2>1 DEF Due, Options!Conv
<1>3. CASE Options!Source(o) # Options!Unset /\ Options!All[o].type = "auto"
  <2> DEFINE S == Options!Chosen(o, Options!Source(o))
  <2>1. Options!Cardinality(S) = 1 /\ Options!AutoValue(o) = CHOOSE c \in S : TRUE
    BY <1>3 DEF Options!AutoValue
  <2>2. S # {}
    BY <2>1, FS_EmptySet DEF Options!Cardinality, Cardinality
  <2>3. \A c \in S : c # Options!Unset
    BY DEF Options!Chosen, Options!ConfigAssumption
  <2>4. Due(o) = CHOOSE c \in S : TRUE
    BY <1>3 DEF Due
  <2> HIDE DEF S
  <2> QED
    BY <2>1, <2>2, <2>3, <2>4
<1> QED
  BY <1>1, <1>2, <1>3 DEF Options!Automatic

(* When the automatic options are set, every option has what it is due.    *)
LEMMA AllDue ==
    ASSUME Options!ConfigAssumption, ConfigTyped, envopts = Options!EnvNames,
           Have(cfg, auto, uopts, envopts, Options!Lines, Len(Options!Lines) + 1),
           Options!SetAutomatic, step' = "sets"
    PROVE  \A o \in OptName : Options!Get(o)' = Due(o)
<1> DEFINE os == {o \in OptName : Options!Automatic(o) /\ Options!AutoValue(o) # Options!Unset}
<1>1. /\ \A o \in os : Options!AutoValue(o) # Options!Bad
      /\ cfg' = [o \in DOMAIN cfg \union os |-> IF o \in os THEN Options!AutoValue(o) ELSE cfg[o]]
  BY DEF Options!SetAutomatic, OptName
<1> SUFFICES ASSUME NEW o \in OptName PROVE Options!Get(o)' = Due(o)
  OBVIOUS
<1>2. /\ Options!Automatic(o) => o \notin DOMAIN cfg
      /\ o \in DOMAIN uopts /\ ~ Options!Automatic(o) => o \in DOMAIN cfg /\ cfg[o] = Options!Conv(o, uopts[o])
      /\ o \in envopts => o \in DOMAIN cfg /\ cfg[o] = Options!EnvValue(o) /\ cfg[o] # Options!Bad /\ ~ Options!Automatic(o)
  BY DEF Have
<1>3. CASE Options!Automatic(o)
  <2>1. Options!Wanted(o) = Options!Source(o)
    <3>1. CASE o \in DOMAIN uopts
      BY <3>1 DEF Options!Wanted, Options!Source
    <3>2. CASE o \notin DOMAIN uopts
      <4>1. o \notin envopts
        BY <1>2, <1>3
      <4> QED
        BY <1>3, <3>2, <4>1, FileSource DEF Options!Wanted
    <3> QED
      BY <3>1, <3>2
  <2>2. CASE Options!AutoValue(o) = Options!Unset
    <3>1. Options!All[o].dflt = Due(o)
      BY <1>3, <2>1, <2>2, AutoDue DEF Options!Unset, Options!Bad
    <3>2. o \notin DOMAIN cfg'
      BY <1>1, <1>2, <1>3, <2>2
    <3>3. Options!Get(o)' = Options!All[o].dflt
      BY <3>2 DEF Options!Get
    <3> QED
      BY <3>1, <3>3
  <2>3. CASE Options!AutoValue(o) # Options!Unset
    <3>1. o \in os /\ o \in DOMAIN cfg' /\ cfg'[o] = Options!AutoValue(o)
      BY <1>1, <1>3, <2>3
    <3>2. Options!AutoValue(o) = Due(o)
      BY <1>1, <1>3, <2>1, <2>3, <3>1, AutoDue
    <3>3. Options!Get(o)' = cfg'[o]
      BY <3>1 DEF Options!Get
    <3> QED
      BY <3>1, <3>2, <3>3
  <2> QED
    BY <2>2, <2>3
<1>4. CASE ~ Options!Automatic(o)
  <2>1. (o \in DOMAIN cfg' <=> o \in DOMAIN cfg) /\ (o \in DOMAIN cfg => cfg'[o] = cfg[o])
    BY <1>1, <1>4
  <2>2. Options!Get(o)' = Options!Get(o)
    BY <2>1 DEF Options!Get
  <2>3. Options!All[o].type # "auto"
    BY <1>4 DEF Options!Automatic
  <2>4. CASE o \in DOMAIN uopts
    <3>1. Options!Source(o) = uopts[o] /\ uopts[o] # Options!Unset
      BY <2>4 DEF Options!Source, ConfigTyped
    <3> QED
      BY <1>2, <1>4, <2>2, <2>3, <2>4, <3>1 DEF Due, Options!Get
  <2>5. CASE o \in envopts
    <3>1. o \in DOMAIN job.env /\ o \notin DOMAIN uopts /\ job.env[o].text # Options!Empty
      BY <2>5 DEF Options!EnvNames
    <3>2. Options!Source(o) = Options!EnvValue(o)
      BY <3>1 DEF Options!Source
    <3>3. job.env[o].text # Options!Unset
      BY <3>1, StartFacts DEF ConfigTyped
    <3>4. Options!EnvValue(o) # Options!Unset /\ Options!Conv(o, Options!EnvValue(o)) = Options!EnvValue(o)
      BY <1>2, <2>5, <3>3, EnvFacts
    <3> QED
      BY <1>2, <2>2, <2>3, <2>5, <3>2, <3>4 DEF Due, Options!Get
  <2>6. CASE o \notin DOMAIN uopts /\ o \notin envopts
    BY <1>4, <2>2, <2>3, <2>6, FileSource DEF Due, Options!Get
  <2> QED
    BY <2>4, <2>5, <2>6
<1> QED
  BY <1>3, <1>4

Implied == {s[3] : s \in Sets}

Reading == {"sample", "write sample", "user file", "write user", "lines", "auto"}

(* How much of the file has been read.                                     *)
LineInHand == IF step = "lines" THEN idx ELSE IF step = "auto" THEN Len(Options!Lines) + 1 ELSE 1

FromUser == \A o \in OptName : /\ o \in DOMAIN cfg <=> o \in DOMAIN uopts /\ ~ Options!Automatic(o)
                               /\ o \in DOMAIN cfg => cfg[o] = Options!Conv(o, uopts[o])

AllSettled == \A o \in OptName : o \notin Implied => Options!Get(o) = Due(o)

Implies == \A s \in Sets : Options!Get(s[1]) = s[2] => Options!Get(s[3]) = s[4]

Exclusive == \A g \in Groups : ~ (Options!Cardinality(g \intersect DOMAIN cfg) > 1)

(* What each step finds is what the ones before it have set.               *)
ConfigInv ==
    /\ ConfigTyped
    /\ step \in {"start", "args", "env", "sample", "write sample", "user file", "write user"} => DOMAIN auto = {}
    /\ step = "env" => FromUser
    /\ step \in Reading => envopts = Options!EnvNames /\ Have(cfg, auto, uopts, envopts, Options!Lines, LineInHand)
    /\ step = "lines" => idx <= Len(Options!Lines) + 1
    /\ step \in {"sets", "conflicts", "check", "done"} => AllSettled
    /\ step \in {"conflicts", "check", "done"} => Implies
    /\ step \in {"check", "done"} => Exclusive

(* Nothing of the file has been read.                                      *)
LEMMA NoLineYet ==
    ASSUME NEW c, NEW a, NEW ls, NEW o, o \notin DOMAIN c, o \notin DOMAIN a
    PROVE  FromLines(c, a, ls, 1, o)
<1>1. 1 .. 1 - 1 = {}
  OBVIOUS
<1> QED
  BY <1>1 DEF FromLines

LEMMA OtherLines ==
    ASSUME NEW c, NEW a, NEW ls, NEW ls2, NEW o, FromLines(c, a, ls, 1, o)
    PROVE  FromLines(c, a, ls2, 1, o)
<1>1. 1 .. 1 - 1 = {}
  OBVIOUS
<1> QED
  BY <1>1 DEF FromLines

LEMMA LinesLength ==
    ASSUME Options!ConfigAssumption, ConfigTyped
    PROVE  Len(Options!Lines) \in Nat
<1>1. job \in Starts
  BY DEF ConfigTyped
<1>2. Len(job.lines) \in Nat
  BY <1>1, StartFacts
<1>3. Len(<<>>) \in Nat
  OBVIOUS
<1> QED
  BY <1>2, <1>3 DEF Options!Lines

LEMMA TakenFromUser ==
    ASSUME Options!ConfigAssumption, ConfigTyped, Options!SetUserOpts, step' = "env"
    PROVE  FromUser'
<1> DEFINE given == {o \in DOMAIN uopts : ~ Options!Automatic(o)}
           val(o) == IF Options!All[o].attr THEN Options!Conv(o, uopts[o]) ELSE uopts[o]
<1>1. cfg' = [o \in given |-> val(o)] /\ uopts' = uopts
  BY DEF Options!SetUserOpts
<1>2. \A o \in OptName : val(o) = Options!Conv(o, uopts[o])
  BY DEF Options!ConfigAssumption, OptName, Options!Conv
<1>3. given \subseteq OptName
  BY DEF ConfigTyped
<1> HIDE DEF val
<1>4. DOMAIN cfg' = given /\ \A o \in given : cfg'[o] = val(o)
  BY <1>1
<1> QED
  BY <1>1, <1>2, <1>3, <1>4 DEF FromUser

LEMMA TakenFromEnv ==
    ASSUME Options!ConfigAssumption, ConfigTyped, FromUser, DOMAIN auto = {}, Options!SetFromEnv, step' = "sample"
    PROVE  envopts' = Options!EnvNames /\ Have(cfg', auto, uopts, envopts', Options!Lines, 1)
<1>1. /\ \A o \in Options!EnvNames : Options!All[o].attr /\ Options!EnvValue(o) # Options!Bad
      /\ envopts' = Options!EnvNames
      /\ cfg' = [o \in DOMAIN cfg \union Options!EnvNames |-> IF o \in Options!EnvNames THEN Options!EnvValue(o) ELSE cfg[o]]
  BY DEF Options!SetFromEnv
<1>2. \A o \in Options!EnvNames : o \in OptName /\ o \notin DOMAIN uopts
  BY StartFacts DEF ConfigTyped, Options!EnvNames
<1>3. \A o \in Options!EnvNames : ~ Options!Automatic(o)
  BY <1>1, <1>2 DEF Options!ConfigAssumption, OptName
<1> SUFFICES ASSUME NEW o \in OptName
             PROVE  /\ Options!Automatic(o) => o \notin DOMAIN cfg'
                    /\ o \in DOMAIN uopts /\ ~ Options!Automatic(o) => o \in DOMAIN cfg' /\ cfg'[o] = Options!Conv(o, uopts[o])
                    /\ o \in envopts' => /\ o \in DOMAIN cfg' /\ cfg'[o] = Options!EnvValue(o)
                                         /\ cfg'[o] # Options!Bad /\ ~ Options!Automatic(o)
                    /\ o \notin DOMAIN uopts /\ o \notin envopts' => FromLines(cfg', auto, Options!Lines, 1, o)
  BY <1>1 DEF Have
<1>4. /\ o \in DOMAIN cfg <=> o \in DOMAIN uopts /\ ~ Options!Automatic(o)
      /\ o \in DOMAIN cfg => cfg[o] = Options!Conv(o, uopts[o])
  BY DEF FromUser
<1>5. CASE o \in Options!EnvNames
  BY <1>1, <1>2, <1>3, <1>5
<1>6. CASE o \notin Options!EnvNames
  <2>1. (o \in DOMAIN cfg' <=> o \in DOMAIN cfg) /\ (o \in DOMAIN cfg => cfg'[o] = cfg[o])
    BY <1>1, <1>6
  <2>2. o \notin DOMAIN uopts => FromLines(cfg', auto, Options!Lines, 1, o)
    BY <1>4, <2>1, NoLineYet
  <2> QED
    BY <1>1, <1>4, <1>6, <2>1, <2>2
<1> QED
  BY <1>5, <1>6

(* An option that is implied implies no other.                             *)
LEMMA TakenFromSets ==
    ASSUME Options!ConfigAssumption, ConfigTyped, AllSettled, Options!SetImplied, step' = "conflicts"
    PROVE  AllSettled' /\ Implies'
<1> DEFINE due == {s \in Sets : Options!Get(s[1]) = s[2]}
           more == {s[3] : s \in due}
           SetTo(o) == (CHOOSE s \in due : s[3] = o)[4]
<1>1. /\ cfg' = [o \in DOMAIN cfg \union more |-> IF \E s \in due : s[3] = o THEN SetTo(o) ELSE cfg[o]]
      /\ uopts' = uopts /\ job' = job /\ usr' = usr
  BY DEF Options!SetImplied
<1>2. \A s \in due : SetTo(s[3]) = s[4]
  <2> TAKE s \in due
  <2>1. PICK t : t = CHOOSE u \in due : u[3] = s[3]
    OBVIOUS
  <2>2. t \in due /\ t[3] = s[3]
    BY <2>1
  <2>3. t[4] = s[4]
    BY <2>2 DEF Options!ConfigAssumption
  <2> QED
    BY <2>1, <2>3
<1> HIDE DEF SetTo
<1>3. \A o : o \notin more => Options!Get(o)' = Options!Get(o)
  <2> TAKE o
  <2> HAVE o \notin more
  <2>1. (o \in DOMAIN cfg' <=> o \in DOMAIN cfg) /\ (o \in DOMAIN cfg => cfg'[o] = cfg[o])
    BY <1>1
  <2> QED
    BY <2>1 DEF Options!Get
<1>4. \A s \in due : Options!Get(s[3])' = s[4]
  <2> TAKE s \in due
  <2>1. s[3] \in DOMAIN cfg' /\ cfg'[s[3]] = SetTo(s[3])
    BY <1>1
  <2> QED
    BY <1>2, <2>1 DEF Options!Get
<1>5. more \subseteq Implied
  BY DEF Implied
<1>6. \A o : Due(o)' = Due(o)
  BY <1>1 DEF Due, Options!Source, Options!LastLine, Options!EnvValue, Options!Conv, Options!Chosen
<1>7. AllSettled'
  BY <1>3, <1>5, <1>6 DEF AllSettled
<1>8. Implies'
  <2> SUFFICES ASSUME NEW s \in Sets, Options!Get(s[1])' = s[2] PROVE Options!Get(s[3])' = s[4]
    BY DEF Implies
  <2>1. s[1] \notin more
    BY DEF Options!ConfigAssumption
  <2>2. s \in due
    BY <1>3, <2>1
  <2> QED
    BY <1>4, <2>2
<1> QED
  BY <1>7, <1>8

LEMMA ConfigInit == Options!ConfigAssumption /\ Options!Init => ConfigInv
<1> SUFFICES ASSUME Options!ConfigAssumption, Options!Init PROVE ConfigInv
  OBVIOUS
<1>1. job \in Starts /\ step = "start" /\ idx = 1 /\ opts = {} /\ DOMAIN uopts = {} /\ DOMAIN auto = {} /\ sample = job.sample
  BY DEF Options!Init
<1>2. sample \in Samples
  BY <1>1, StartFacts
<1>3. job.lines # <<>> => usr = "lines"
  BY DEF Options!Init
<1>4. idx \in Nat \ {0}
  BY <1>1
<1>5. ConfigTyped
  BY <1>1, <1>2, <1>3, <1>4 DEF ConfigTyped
<1> QED
  BY <1>1, <1>5 DEF ConfigInv, Reading

LEMMA SameConfig ==
    ASSUME UNCHANGED <<job, uopts, cfg, envopts, auto, usr>>
    PROVE  /\ Options!EnvNames' = Options!EnvNames /\ Options!Lines' = Options!Lines
           /\ AllSettled' = AllSettled
           /\ Implies' = Implies
           /\ Exclusive' = Exclusive
           /\ FromUser' = FromUser
<1>1. Options!EnvNames' = Options!EnvNames /\ Options!Lines' = Options!Lines
  BY DEF Options!EnvNames, Options!Lines
<1>2. \A o : Options!Get(o)' = Options!Get(o) /\ Due(o)' = Due(o)
  BY DEF Options!Get, Due, Options!Source, Options!LastLine, Options!EnvValue, Options!Conv, Options!Chosen
<1>3. AllSettled' = AllSettled
  BY <1>2, Zenon DEF AllSettled
<1>4. Implies' = Implies
  BY <1>2, Zenon DEF Implies
<1>5. Exclusive' = Exclusive
  BY DEF Exclusive
<1>6. FromUser' = FromUser
  BY DEF FromUser
<1> QED
  BY <1>1, <1>3, <1>4, <1>5, <1>6

LEMMA HaveNext ==
    ASSUME job' = job, NEW m, Have(cfg', auto', uopts', envopts', Options!Lines', m), LineInHand' = m
    PROVE  Have(cfg, auto, uopts, envopts, Options!Lines, LineInHand)'
<1>1. \A o : Options!EnvValue(o)' = Options!EnvValue(o)
  BY DEF Options!EnvValue, Options!Conv
<1> QED
  BY <1>1 DEF Have

LEMMA SameHave ==
    ASSUME UNCHANGED <<job, uopts, cfg, envopts, auto>>, Have(cfg, auto, uopts, envopts, Options!Lines, LineInHand),
           LineInHand = 1, LineInHand' = 1
    PROVE  Have(cfg, auto, uopts, envopts, Options!Lines, LineInHand)'
<1>1. Have(cfg, auto, uopts, envopts, Options!Lines', 1)
  BY OtherLines DEF Have
<1>2. Have(cfg', auto', uopts', envopts', Options!Lines', 1)
  BY <1>1
<1> QED
  BY <1>2, HaveNext

LEMMA ConfigNext ==
    ASSUME Options!ConfigAssumption, ConfigInv, [Options!Next]_Options!vars
    PROVE  ConfigInv'
<1>0. ConfigTyped /\ ConfigTyped'
  BY ConfigTypedNext DEF ConfigInv
<1>1. CASE Options!GetCoin \/ Options!LongOption \/ Options!ShortOptions
  <2>1. step' \in {"args", "died"} /\ auto' = auto /\ step \in {"start", "args"}
    <3>1. CASE Options!GetCoin
      BY <3>1 DEF Options!GetCoin
    <3>2. CASE Options!LongOption
      BY <1>0, <3>2, LongOptions DEF Options!LongOption
    <3>3. CASE Options!ShortOptions
      BY <1>0, <3>3, ShortOption DEF Options!ShortOptions
    <3> QED
      BY <1>1, <3>1, <3>2, <3>3
  <2> QED
    BY <1>0, <2>1 DEF ConfigInv, Reading
<1>2. CASE Options!SetUserOpts
  <2>1. step' \in {"env", "died"} /\ auto' = auto /\ step = "args"
    BY <1>2 DEF Options!SetUserOpts
  <2>2. step' = "env" => FromUser'
    BY <1>0, <1>2, TakenFromUser
  <2> QED
    BY <1>0, <2>1, <2>2 DEF ConfigInv, Reading
<1>3. CASE Options!SetFromEnv
  <2>1. step' \in {"sample", "died"} /\ UNCHANGED <<auto, uopts, job, usr>> /\ step = "env"
    BY <1>3 DEF Options!SetFromEnv
  <2>2. FromUser /\ DOMAIN auto = {}
    BY <2>1 DEF ConfigInv
  <2>3. CASE step' = "sample"
    <3>1. envopts' = Options!EnvNames /\ Have(cfg', auto, uopts, envopts', Options!Lines, 1)
      BY <1>0, <1>3, <2>2, <2>3, TakenFromEnv
    <3>2. Options!EnvNames' = Options!EnvNames /\ Options!Lines' = Options!Lines
      BY <2>1 DEF Options!EnvNames, Options!Lines
    <3>3. LineInHand' = 1
      BY <2>3 DEF LineInHand
    <3>4. Have(cfg, auto, uopts, envopts, Options!Lines, LineInHand)'
      BY <2>1, <3>1, <3>2, <3>3, HaveNext
    <3> QED
      BY <1>0, <2>1, <2>2, <2>3, <3>1, <3>2, <3>4 DEF ConfigInv, Reading
  <2> QED
    BY <1>0, <2>1, <2>3 DEF ConfigInv, Reading
<1>4. CASE Options!CheckSample \/ Options!WriteSample
  <2>1. /\ step \in {"sample", "write sample"} /\ step' \in {"write sample", "user file"}
        /\ UNCHANGED <<job, uopts, cfg, envopts, auto, usr>>
    BY <1>4 DEF Options!CheckSample, Options!WriteSample
  <2>2. LineInHand = 1 /\ LineInHand' = 1
    BY <2>1 DEF LineInHand
  <2>3. Have(cfg, auto, uopts, envopts, Options!Lines, LineInHand)'
    BY <2>1, <2>2, SameHave DEF ConfigInv, Reading
  <2>4. Options!EnvNames' = Options!EnvNames
    BY <2>1, SameConfig
  <2> QED
    BY <1>0, <2>1, <2>3, <2>4 DEF ConfigInv, Reading
<1>5. CASE Options!OpenUserFile
  <2>1. /\ step = "user file" /\ step' \in {"write user", "lines"} /\ idx' = 1
        /\ UNCHANGED <<job, uopts, cfg, envopts, auto>>
    BY <1>5 DEF Options!OpenUserFile
  <2>2. LineInHand = 1 /\ LineInHand' = 1
    BY <2>1 DEF LineInHand
  <2>3. Have(cfg, auto, uopts, envopts, Options!Lines, LineInHand)'
    BY <2>1, <2>2, SameHave DEF ConfigInv, Reading
  <2>4. Options!EnvNames' = Options!EnvNames
    BY <2>1 DEF Options!EnvNames
  <2>5. idx' <= Len(Options!Lines') + 1
    <3>1. PICK k : k = Len(Options!Lines')
      OBVIOUS
    <3>2. k \in Nat
      <4>1. job' \in Starts
        BY <1>0 DEF ConfigTyped
      <4>2. Len(job'.lines) \in Nat
        BY <2>1, <4>1, StartFacts
      <4>3. Options!Lines' \in {job'.lines, <<>>}
        BY DEF Options!Lines
      <4> QED
        BY <3>1, <4>2, <4>3
    <3>3. idx' = 1
      BY <2>1
    <3> QED
      BY <3>1, <3>2, <3>3
  <2> QED
    BY <1>0, <2>1, <2>3, <2>4, <2>5 DEF ConfigInv, Reading
<1>6. CASE Options!WriteUserFile
  <2>1. step = "write user" /\ step' = "auto" /\ usr' = "comments" /\ UNCHANGED <<job, uopts, cfg, envopts, auto>>
    BY <1>6 DEF Options!WriteUserFile
  <2>2. LineInHand = 1
    BY <2>1 DEF LineInHand
  <2>3. LineInHand' = 1
    <3>1. Options!Lines' = <<>>
      BY <2>1 DEF Options!Lines
    <3>2. Len(Options!Lines') + 1 = 1
      BY <3>1
    <3> QED
      BY <2>1, <3>2 DEF LineInHand
  <2>4. Have(cfg, auto, uopts, envopts, Options!Lines, LineInHand)'
    BY <2>1, <2>2, <2>3, SameHave DEF ConfigInv, Reading
  <2>5. Options!EnvNames' = Options!EnvNames
    BY <2>1 DEF Options!EnvNames
  <2> QED
    BY <1>0, <2>1, <2>4, <2>5 DEF ConfigInv, Reading
<1>7. CASE Options!ReadLine
  <2>1. /\ step = "lines" /\ UNCHANGED <<job, uopts, envopts, usr>> /\ step' \in {"lines", "died", "crashed"}
        /\ idx <= Len(Options!Lines) /\ idx' = idx + 1
    BY <1>7 DEF Options!ReadLine
  <2>2. CASE step' = "lines"
    <3>1. envopts = Options!EnvNames /\ Have(cfg, auto, uopts, envopts, Options!Lines, idx)
      BY <2>1 DEF ConfigInv, Reading, LineInHand
    <3>2. Have(cfg', auto', uopts, envopts, Options!Lines, idx + 1)
      BY <1>0, <1>7, <2>2, <3>1, LineIsRead
    <3>3. Options!EnvNames' = Options!EnvNames /\ Options!Lines' = Options!Lines
      BY <2>1 DEF Options!EnvNames, Options!Lines
    <3>4. LineInHand' = idx + 1
      BY <2>1, <2>2 DEF LineInHand
    <3>5. Have(cfg, auto, uopts, envopts, Options!Lines, LineInHand)'
      BY <2>1, <3>2, <3>3, <3>4, HaveNext
    <3>6. idx' <= Len(Options!Lines') + 1
      <4>1. Len(Options!Lines) \in Nat /\ idx \in Nat
        BY <1>0, LinesLength DEF ConfigTyped
      <4> QED
        BY <2>1, <3>3, <4>1
    <3> QED
      BY <1>0, <2>1, <2>2, <3>1, <3>3, <3>5, <3>6 DEF ConfigInv, Reading
  <2> QED
    BY <1>0, <2>1, <2>2 DEF ConfigInv, Reading
<1>8. CASE Options!EndLines
  <2>1. step = "lines" /\ step' = "auto" /\ UNCHANGED <<job, uopts, cfg, envopts, auto, usr>> /\ idx > Len(Options!Lines)
    BY <1>8 DEF Options!EndLines
  <2>2. idx = Len(Options!Lines) + 1
    <3>1. Len(Options!Lines) \in Nat /\ idx \in Nat
      BY <1>0, LinesLength DEF ConfigTyped
    <3>2. idx <= Len(Options!Lines) + 1
      BY <2>1 DEF ConfigInv
    <3> QED
      BY <2>1, <3>1, <3>2
  <2>3. Options!EnvNames' = Options!EnvNames /\ Options!Lines' = Options!Lines
    BY <2>1 DEF Options!EnvNames, Options!Lines
  <2>4. LineInHand = idx /\ LineInHand' = idx
    BY <2>1, <2>2, <2>3 DEF LineInHand
  <2>5. envopts = Options!EnvNames /\ Have(cfg, auto, uopts, envopts, Options!Lines, idx)
    BY <2>1, <2>4 DEF ConfigInv, Reading
  <2>6. Have(cfg, auto, uopts, envopts, Options!Lines, LineInHand)'
    BY <2>1, <2>3, <2>4, <2>5, HaveNext
  <2> QED
    BY <1>0, <2>1, <2>3, <2>5, <2>6 DEF ConfigInv, Reading
<1>9. CASE Options!SetAutomatic
  <2>1. step = "auto" /\ step' \in {"sets", "died"} /\ UNCHANGED <<job, uopts, envopts, auto, usr>>
    BY <1>9 DEF Options!SetAutomatic
  <2>2. CASE step' = "sets"
    <3>1. envopts = Options!EnvNames /\ Have(cfg, auto, uopts, envopts, Options!Lines, Len(Options!Lines) + 1)
      BY <2>1 DEF ConfigInv, Reading, LineInHand
    <3>2. \A o \in OptName : Options!Get(o)' = Due(o)
      BY <1>0, <1>9, <2>2, <3>1, AllDue
    <3>3. \A o : Due(o)' = Due(o)
      BY <2>1 DEF Due, Options!Source, Options!LastLine, Options!EnvValue, Options!Conv, Options!Chosen
    <3>4. AllSettled'
      BY <3>2, <3>3 DEF AllSettled
    <3> QED
      BY <1>0, <2>2, <3>4 DEF ConfigInv, Reading
  <2> QED
    BY <1>0, <2>1, <2>2 DEF ConfigInv, Reading
<1>10. CASE Options!SetImplied
  <2>1. step = "sets" /\ step' \in {"conflicts", "died"}
    BY <1>10 DEF Options!SetImplied
  <2>2. step' = "conflicts" => AllSettled' /\ Implies'
    BY <1>0, <1>10, <2>1, TakenFromSets DEF ConfigInv
  <2> QED
    BY <1>0, <2>1, <2>2 DEF ConfigInv, Reading
<1>11. CASE Options!DieOnIncompatible \/ Options!CheckOpts
  <2>1. /\ UNCHANGED <<job, uopts, cfg, envopts, auto, usr>>
        /\ step \in {"conflicts", "check"} /\ step' \in {"check", "done", "died"}
        /\ step = "conflicts" /\ step' = "check" => Exclusive
        /\ step = "conflicts" => step' # "done"
    BY <1>11 DEF Options!DieOnIncompatible, Options!CheckOpts, Exclusive
  <2>2. AllSettled /\ Implies /\ (step = "check" => Exclusive)
    BY <2>1 DEF ConfigInv
  <2>3. AllSettled' /\ Implies' /\ (step' \in {"check", "done"} => Exclusive')
    BY <2>1, <2>2, SameConfig
  <2> QED
    BY <1>0, <2>1, <2>3 DEF ConfigInv, Reading
<1>12. CASE Options!Restart
  <2>1. step' = "start" /\ auto' = <<>>
    BY <1>12 DEF Options!Restart
  <2>2. DOMAIN auto' = {}
    BY <2>1
  <2> QED
    BY <1>0, <2>1, <2>2 DEF ConfigInv, Reading
<1>13. CASE UNCHANGED Options!vars
  <2>1. UNCHANGED <<job, step, idx, uopts, cfg, envopts, auto, usr>>
    BY <1>13
  <2>2. LineInHand' = LineInHand /\ Options!Lines' = Options!Lines
    BY <2>1 DEF LineInHand, Options!Lines
  <2>3. step \in Reading => Have(cfg, auto, uopts, envopts, Options!Lines, LineInHand)'
    BY <2>1, <2>2, HaveNext DEF ConfigInv
  <2> QED
    BY <1>0, <2>1, <2>2, <2>3, SameConfig DEF ConfigInv, Reading
<1> QED
  BY <1>1, <1>2, <1>3, <1>4, <1>5, <1>6, <1>7, <1>8, <1>9, <1>10, <1>11, <1>12, <1>13 DEF Options!Next

(* An option that nothing implies has the value that the command line, the *)
(* environment, the file or its default gives it, in this order; no two    *)
(* options of a group are in effect, and what an option implies is; and    *)
(* the file of the user is as it was, wherever a start was interrupted.    *)
THEOREM ConfigAsGiven == ASSUME Options!ConfigAssumption PROVE Options!Spec => []Options!ConfigRight
<1>1. Options!Init => ConfigInv
  BY ConfigInit
<1>2. ConfigInv /\ [Options!Next]_Options!vars => ConfigInv'
  BY ConfigNext
<1>3. ConfigInv => Options!ConfigRight
  <2> SUFFICES ASSUME ConfigInv PROVE Options!ConfigRight
    OBVIOUS
  <2>1. Options!Ranked
    <3>1. step = "done" => \A o \in OptName : o \notin Implied => Options!Get(o) = Due(o)
      BY DEF ConfigInv, AllSettled
    <3> QED
      BY <3>1, Zenon DEF Options!Ranked, Due, OptName, Implied
  <2>2. Options!Consistent
    <3> SUFFICES ASSUME step = "done"
                 PROVE  /\ \A g \in Groups : Options!Cardinality({o \in g : ~ Options!IsOff(Options!Get(o)) /\ Options!Get(o) # Options!Empty}) <= 1
                        /\ \A s \in Sets : Options!Get(s[1]) = s[2] => Options!Get(s[3]) = s[4]
      BY DEF Options!Consistent
    <3>1. Implies /\ Exclusive
      BY DEF ConfigInv
    <3>2. ASSUME NEW g \in Groups
          PROVE  Options!Cardinality({o \in g : ~ Options!IsOff(Options!Get(o)) /\ Options!Get(o) # Options!Empty}) <= 1
      <4> DEFINE on == {o \in g : ~ Options!IsOff(Options!Get(o)) /\ Options!Get(o) # Options!Empty}
                 set == g \intersect DOMAIN cfg
      <4>1. on \subseteq set
        BY DEF Options!ConfigAssumption, Options!Get, Options!IsOff
      <4>2. IsFiniteSet(set)
        <5>1. IsFiniteSet(g)
          BY DEF Options!ConfigAssumption, Options!IsFiniteSet, IsFiniteSet
        <5> QED
          BY <5>1, FS_Subset
      <4>3. Cardinality(on) \in Nat /\ Cardinality(set) \in Nat /\ Cardinality(on) <= Cardinality(set)
        BY <4>1, <4>2, FS_Subset, FS_CardinalityType
      <4>4. ~ (Cardinality(set) > 1)
        BY <3>1 DEF Exclusive, Options!Cardinality, Cardinality
      <4>5. Cardinality(on) <= 1
        BY <4>3, <4>4
      <4> QED
        BY <4>5 DEF Options!Cardinality, Cardinality
    <3> QED
      BY <3>1, <3>2 DEF Implies
  <2>3. Options!FilesKept
    BY DEF ConfigInv, ConfigTyped, Options!FilesKept
  <2> QED
    BY <2>1, <2>2, <2>3 DEF Options!ConfigRight
<1> QED
  BY <1>1, <1>2, <1>3, PTL DEF Options!Spec
-----------------------------------------------------------------------------
(* Questions, and the files they are about (Prompts).                      *)
USE DEF Asking!promptVars

(* The sum of the first numbers of a sequence, as a function of how many.  *)
IsSum(f, text) == f = [k \in 0 .. Len(text) |-> IF k = 0 THEN 0 ELSE f[k - 1] + text[k]]

LEMMA SumExists ==
    ASSUME NEW text \in Seq(Nat)
    PROVE  \E f : IsSum(f, text)
<1> DEFINE Upto(m, f) == f = [k \in 0 .. m |-> IF k = 0 THEN 0 ELSE f[k - 1] + text[k]]
           Fails == {m \in 0 .. Len(text) : ~ \E f : Upto(m, f)}
<1>1. Len(text) \in Nat
  OBVIOUS
<1>2. CASE Fails = {}
  <2>1. Len(text) \in 0 .. Len(text)
    BY <1>1
  <2>2. \E f : Upto(Len(text), f)
    BY <1>2, <2>1
  <2> QED
    BY <2>2 DEF IsSum
<1>3. CASE Fails # {}
  <2>1. PICK m \in Fails : \A j \in Fails : m <= j
    <3>1. Fails \subseteq Nat
      BY <1>1
    <3> HIDE DEF Fails
    <3> QED
      BY <1>3, <3>1, Least
  <2>2. m \in 0 .. Len(text) /\ ~ \E f : Upto(m, f)
    BY <2>1
  <2> HIDE DEF Fails
  <2>3. CASE m = 0
    <3>1. 0 .. 0 = {0}
      OBVIOUS
    <3>2. Upto(0, [k \in 0 .. 0 |-> 0])
      BY <3>1
    <3> QED
      BY <2>2, <2>3, <3>2
  <2>4. CASE m # 0
    <3>1. m - 1 \in 0 .. Len(text) /\ m - 1 \notin Fails
      BY <1>1, <2>1, <2>2, <2>4
    <3>2. PICK g : Upto(m - 1, g)
      BY <3>1 DEF Fails
    <3> DEFINE h == [k \in 0 .. m |-> IF k = m THEN g[m - 1] + text[m] ELSE g[k]]
    <3>3. DOMAIN h = 0 .. m /\ h[m] = g[m - 1] + text[m] /\ \A k \in 0 .. m - 1 : h[k] = g[k]
      BY <1>1, <2>2
    <3>4. g[0] = 0 /\ \A k \in 1 .. m - 1 : g[k] = g[k - 1] + text[k]
      BY <1>1, <2>2, <2>4, <3>2
    <3>5. \A k \in 0 .. m : h[k] = IF k = 0 THEN 0 ELSE h[k - 1] + text[k]
      <4> TAKE k \in 0 .. m
      <4>1. CASE k = 0
        BY <1>1, <2>2, <2>4, <3>3, <3>4, <4>1
      <4>2. CASE k = m
        BY <1>1, <2>2, <2>4, <3>3, <4>2
      <4>3. CASE k \in 1 .. m - 1
        <5>1. k - 1 \in 0 .. m - 1 /\ k \in 0 .. m - 1
          BY <1>1, <2>2, <4>3
        <5> QED
          BY <1>1, <2>2, <3>3, <3>4, <4>3, <5>1
      <4> QED
        BY <1>1, <2>2, <4>1, <4>2, <4>3
    <3>6. Upto(m, h)
      <4>1. h = [k \in 0 .. m |-> h[k]]
        BY <3>3
      <4> HIDE DEF h
      <4> QED
        BY <3>5, <4>1
    <3> QED
      BY <2>2, <3>6
  <2> QED
    BY <2>3, <2>4
<1> QED
  BY <1>2, <1>3

(* What the sum of all is: a number, nothing of nothing, and their number  *)
(* if all are one.                                                         *)
LEMMA ByteSum ==
    ASSUME NEW text \in Seq(Nat)
    PROVE  /\ Asking!Bytes(text) \in Nat
           /\ Len(text) = 0 => Asking!Bytes(text) = 0
           /\ (\A k \in 1 .. Len(text) : text[k] = 1) => Asking!Bytes(text) = Len(text)
<1>1. Len(text) \in Nat /\ DOMAIN text = 1 .. Len(text)
  OBVIOUS
<1>2. PICK f : IsSum(f, text) /\ Asking!Bytes(text) = f[Len(text)]
  <2>1. PICK f : f = CHOOSE g : g = [k \in 0 .. Len(text) |-> IF k = 0 THEN 0 ELSE g[k - 1] + text[k]]
    OBVIOUS
  <2>2. IsSum(f, text)
    BY <2>1, SumExists DEF IsSum
  <2>3. Asking!Bytes(text) = f[Len(text)]
    BY <2>1 DEF Asking!Bytes
  <2> QED
    BY <2>2, <2>3
<1>3. f[0] = 0 /\ \A k \in 1 .. Len(text) : f[k] = f[k - 1] + text[k]
  <2>1. \A k \in 0 .. Len(text) : f[k] = IF k = 0 THEN 0 ELSE f[k - 1] + text[k]
    BY <1>2 DEF IsSum
  <2> QED
    BY <1>1, <2>1
<1>4. \A k \in 1 .. Len(text) : text[k] \in Nat
  OBVIOUS
<1>5. f[Len(text)] \in Nat
  <2> DEFINE Fails == {k \in 0 .. Len(text) : f[k] \notin Nat}
  <2>1. CASE Fails = {}
    BY <1>1, <2>1
  <2>2. CASE Fails # {}
    <3>1. PICK m \in Fails : \A j \in Fails : m <= j
      <4>1. Fails \subseteq Nat
        BY <1>1
      <4> HIDE DEF Fails
      <4> QED
        BY <2>2, <4>1, Least
    <3>2. m # 0 /\ m \in 0 .. Len(text) /\ f[m] \notin Nat
      BY <1>3, <3>1
    <3>3. m - 1 \in 0 .. Len(text) /\ m - 1 \notin Fails
      BY <1>1, <3>1, <3>2
    <3>4. f[m - 1] \in Nat /\ m \in 1 .. Len(text)
      BY <1>1, <3>2, <3>3
    <3> QED
      BY <1>3, <1>4, <3>2, <3>4
  <2> QED
    BY <2>1, <2>2
<1>6. ASSUME \A k \in 1 .. Len(text) : text[k] = 1 PROVE f[Len(text)] = Len(text)
  <2> DEFINE Fails == {k \in 0 .. Len(text) : f[k] # k}
  <2>1. CASE Fails = {}
    BY <1>1, <2>1
  <2>2. CASE Fails # {}
    <3>1. PICK m \in Fails : \A j \in Fails : m <= j
      <4>1. Fails \subseteq Nat
        BY <1>1
      <4> HIDE DEF Fails
      <4> QED
        BY <2>2, <4>1, Least
    <3>2. m # 0 /\ m \in 0 .. Len(text) /\ f[m] # m
      BY <1>3, <3>1
    <3>3. m - 1 \in 0 .. Len(text) /\ m - 1 \notin Fails
      BY <1>1, <3>1, <3>2
    <3>4. f[m - 1] = m - 1 /\ m \in 1 .. Len(text)
      BY <1>1, <3>2, <3>3
    <3>5. f[m] = (m - 1) + 1
      BY <1>3, <1>6, <3>4
    <3> QED
      BY <1>1, <3>2, <3>5
  <2> QED
    BY <2>1, <2>2
<1> QED
  BY <1>1, <1>2, <1>3, <1>5, <1>6

LEMMA Prefixes ==
    ASSUME NEW text \in Seq(Nat), NEW k \in 0 .. Len(text)
    PROVE  LET s == SubSeq(text, 1, k)
           IN s \in Seq(Nat) /\ Len(s) = k /\ \A j \in 1 .. k : s[j] = text[j]
<1>1. Len(text) \in Nat
  OBVIOUS
<1>2. \A j \in 1 .. k : 1 <= j /\ j <= Len(text)
  BY <1>1
<1>3. SubSeq(text, 1, k) \in Seq(Nat)
  BY <1>1, <1>2, SubSeqProperties
<1>4. Len(SubSeq(text, 1, k)) = k
  BY <1>1, SubSeqProperties
<1>5. \A j \in 1 .. k : SubSeq(text, 1, k)[j] = text[j]
  BY <1>1, SubSeqProperties
<1> QED
  BY <1>3, <1>4, <1>5

(* A file of which one byte more than the maximum is read.                 *)
LEMMA ReadFacts ==
    ASSUME MaxSize \in Nat, NEW text \in Seq(Nat \ {0}), NEW binary \in BOOLEAN
    PROVE  LET r == Asking!get_data_from_file(text, binary)
           IN /\ r = "whole" => Asking!Bytes(text) <= MaxSize + Len(text)
              /\ (\A k \in 1 .. Len(text) : text[k] = 1) \/ binary =>
                     r = IF Asking!Bytes(text) <= MaxSize THEN "whole" ELSE "too long"
<1> DEFINE all == Asking!Bytes(text)
           piece(k) == Asking!Bytes(SubSeq(text, 1, k))
           W == Asking!Whole(text)
           most == CHOOSE k \in W : \A j \in W : j <= k
           bytes == IF all > MaxSize + 1 THEN MaxSize + 1 ELSE all
           r == Asking!get_data_from_file(text, binary)
<1>1. text \in Seq(Nat) /\ Len(text) \in Nat
  OBVIOUS
<1>2. all \in Nat /\ (Len(text) = 0 => all = 0) /\ ((\A k \in 1 .. Len(text) : text[k] = 1) => all = Len(text))
  BY <1>1, ByteSum
<1>3. W = {k \in 0 .. Len(text) : piece(k) <= MaxSize + 1}
  BY DEF Asking!Whole
<1>4. \A k \in 0 .. Len(text) : piece(k) \in Nat /\ (k = 0 => piece(k) = 0)
  <2> TAKE k \in 0 .. Len(text)
  <2>1. SubSeq(text, 1, k) \in Seq(Nat) /\ Len(SubSeq(text, 1, k)) = k
    BY <1>1, Prefixes
  <2> QED
    BY <2>1, ByteSum
<1>5. most \in W /\ \A j \in W : j <= most
  <2>1. 0 \in W /\ W \subseteq 0 .. Len(text)
    BY <1>1, <1>3, <1>4
  <2> HIDE DEF W
  <2>2. PICK k \in W : \A j \in W : k >= j
    BY <1>1, <2>1, Greatest
  <2>3. \A j \in W : j <= k
    BY <1>1, <2>1, <2>2
  <2> QED
    BY <2>3
<1>6. r = IF binary THEN IF bytes = MaxSize + 1 THEN "too long" ELSE "whole"
          ELSE IF piece(most) # bytes THEN "undecodable"
          ELSE IF most = MaxSize + 1 THEN "too long"
          ELSE IF most = Len(text) THEN "whole" ELSE "cut off"
  BY DEF Asking!get_data_from_file
<1>7. piece(Len(text)) = all
  <2>1. SubSeq(text, 1, Len(text)) = text
    BY <1>1, SubSeqFull
  <2> QED
    BY <2>1
<1> HIDE DEF all, piece, W, most, r
<1>8. r = "whole" => all <= MaxSize + Len(text)
  <2>1. CASE binary
    <3>1. r = "whole" => bytes # MaxSize + 1
      BY <1>6, <2>1
    <3> QED
      BY <1>1, <1>2, <3>1
  <2>2. CASE ~binary /\ Len(text) = 0
    BY <1>2, <2>2
  <2>3. CASE ~binary /\ Len(text) # 0
    <3>1. r = "whole" => all = bytes
      BY <1>6, <1>7, <2>3
    <3> QED
      BY <1>1, <1>2, <2>3, <3>1
  <2> QED
    BY <2>1, <2>2, <2>3
<1>9. ASSUME binary PROVE r = IF all <= MaxSize THEN "whole" ELSE "too long"
  <2>1. bytes = MaxSize + 1 <=> ~ (all <= MaxSize)
    BY <1>2
  <2> QED
    BY <1>6, <1>9, <2>1
<1>10. ASSUME \A k \in 1 .. Len(text) : text[k] = 1, ~binary PROVE r = IF all <= MaxSize THEN "whole" ELSE "too long"
  <2>1. \A k \in 0 .. Len(text) : piece(k) = k
    <3> TAKE k \in 0 .. Len(text)
    <3> DEFINE s == SubSeq(text, 1, k)
    <3>1. s \in Seq(Nat) /\ Len(s) = k /\ \A j \in 1 .. k : s[j] = text[j]
      BY <1>1, Prefixes
    <3>2. \A j \in 1 .. Len(s) : s[j] = 1
      BY <1>1, <1>10, <3>1
    <3> HIDE DEF s
    <3>3. Asking!Bytes(s) = Len(s)
      BY <3>1, <3>2, ByteSum
    <3> QED
      BY <3>1, <3>3 DEF piece, s
  <2>2. all = Len(text)
    BY <1>2, <1>10
  <2>3. most \in 0 .. Len(text) /\ most <= MaxSize + 1 /\ \A j \in 0 .. Len(text) : j <= MaxSize + 1 => j <= most
    BY <1>3, <1>5, <2>1
  <2>4. CASE Len(text) <= MaxSize
    <3>1. most = Len(text) /\ piece(most) = bytes /\ most # MaxSize + 1
      BY <1>1, <2>1, <2>2, <2>3, <2>4
    <3> QED
      BY <1>6, <1>10, <2>2, <2>4, <3>1
  <2>5. CASE ~ (Len(text) <= MaxSize)
    <3>1. most = MaxSize + 1 /\ piece(most) = bytes
      BY <1>1, <2>1, <2>2, <2>3, <2>5
    <3> QED
      BY <1>6, <1>10, <2>2, <2>5, <3>1
  <2> QED
    BY <2>4, <2>5
<1> QED
  BY <1>8, <1>9, <1>10 DEF all, r

(* A key is pressed once, and may be read several times while it is held.  *)
Entry == [ch : Asking!Key \union {"none"}, press : Nat]

Later(k) == {x \in Entry : x.press > k}

Keyboard == [held : Entry, wait : Nat, presses : Nat, buf : Seq(Entry)]

PromptTyped ==
    /\ job \in PromptJobs
    /\ kb \in Keyboard
    /\ kb.held # Asking!None => kb.wait \in 1 .. Timeout
    /\ kb.held.press <= kb.presses
    /\ timer \in Nat /\ shown \in Nat /\ shown <= kb.presses
    /\ got \in Seq(Entry)

(* On a terminal that is protected, what is read after a question was      *)
(* pressed after it was shown: the keys held before are repeated while the *)
(* program discards them, or not at all.                                   *)
Protected ==
    job.kind = "write" /\ job.tty /\ Asking!hold_protect =>
        /\ step \in {"pre", "hold"} /\ kb.buf = <<>> => kb.held = Asking!None \/ kb.wait <= timer
        /\ step \in {"read", "line"} => kb.buf \in Seq(Later(shown)) /\ (kb.held = Asking!None \/ kb.held.press > shown)
        /\ step \in {"post", "hold2", "decide"} => got \in Seq(Later(shown))
        /\ \A x \in answers : x.press > x.since

(* The terminal is being asked.                                            *)
Asked == step \in {"pre", "read", "post", "hold", "line", "hold2", "decide"}

(* The file is opened after the question, if there is a reason for it.     *)
Permitted ==
    \/ file.known = "absent" \/ job.quiet
    \/ \E x \in answers : x.at = "overwrite"

LEMMA LaterTyped == ASSUME NEW k PROVE Later(k) \subseteq Entry
  BY DEF Later

LEMMA SeqsOfLater == ASSUME NEW s, NEW k, s \in Seq(Later(k)) PROVE s \in Seq(Entry)
  BY DEF Later

(* What a question finds.                                                  *)
LEMMA AskTyped ==
    ASSUME Asking!PromptAssumption, PromptTyped, NEW q, Asking!Ask(q), kb' = kb, job' = job
    PROVE  PromptTyped'
<1>1. timer' = Timeout /\ shown' = kb.presses /\ got' = <<>>
  BY DEF Asking!Ask
<1>2. Timeout \in Nat
  BY DEF Asking!PromptAssumption
<1>3. kb.presses \in Nat
  BY DEF PromptTyped, Keyboard
<1>4. got' \in Seq(Entry)
  BY <1>1
<1>5. shown' \in Nat /\ shown' <= kb.presses
  BY <1>1, <1>3
<1> QED
  BY <1>1, <1>2, <1>4, <1>5 DEF PromptTyped

LEMMA AskProtected ==
    ASSUME Asking!PromptAssumption, PromptTyped, NEW q, Asking!Ask(q), kb' = kb, job' = job,
           job.kind = "write" /\ job.tty /\ Asking!hold_protect => \A x \in answers' : x.press > x.since
    PROVE  Protected'
<1> SUFFICES ASSUME job.kind = "write", job.tty, Asking!hold_protect
             PROVE  /\ step' \in {"pre", "hold"} /\ kb'.buf = <<>> => kb'.held = Asking!None \/ kb'.wait <= timer'
                    /\ step' \in {"read", "line"} => kb'.buf \in Seq(Later(shown')) /\ (kb'.held = Asking!None \/ kb'.held.press > shown')
                    /\ step' \in {"post", "hold2", "decide"} => got' \in Seq(Later(shown'))
                    /\ \A x \in answers' : x.press > x.since
  BY DEF Protected, Asking!hold_protect
<1>1. step' \in {"pre", "hold", "decide"} /\ timer' = Timeout /\ got' = <<>>
  BY DEF Asking!Ask
<1>2. kb'.held = Asking!None \/ kb'.wait <= timer'
  <2>1. kb.held # Asking!None => kb.wait \in 1 .. Timeout
    BY DEF PromptTyped
  <2>2. Timeout \in Nat
    BY DEF Asking!PromptAssumption
  <2>3. kb.held # Asking!None => kb.wait <= Timeout
    BY <2>1, <2>2
  <2> QED
    BY <1>1, <2>3
<1>3. got' \in Seq(Later(shown'))
  BY <1>1
<1> QED
  BY <1>1, <1>2, <1>3

(* Keys that are pressed, released and repeated.                           *)
LEMMA BufferTyped ==
    ASSUME Asking!PromptAssumption, PromptTyped, NEW x \in Entry
    PROVE  /\ Asking!Typed(x) \in Seq(Entry)
           /\ kb.buf = <<>> => Asking!Typed(x) # <<>>
           /\ \A k : x.press > k /\ kb.buf \in Seq(Later(k)) => Asking!Typed(x) \in Seq(Later(k))
<1>1. kb.buf \in Seq(Entry)
  BY DEF PromptTyped, Keyboard
<1>2. MaxBuf \in Nat \ {0}
  BY DEF Asking!PromptAssumption
<1>3. CASE Len(kb.buf) < MaxBuf
  <2>1. Asking!Typed(x) = Append(kb.buf, x)
    BY <1>3 DEF Asking!Typed
  <2>2. Append(kb.buf, x) \in Seq(Entry) /\ Len(Append(kb.buf, x)) = Len(kb.buf) + 1 /\ Len(kb.buf) \in Nat
    BY <1>1
  <2>3. Append(kb.buf, x) # <<>>
    BY <1>1, <2>2
  <2>4. \A k : x.press > k /\ kb.buf \in Seq(Later(k)) => Append(kb.buf, x) \in Seq(Later(k))
    <3> TAKE k
    <3> HAVE x.press > k /\ kb.buf \in Seq(Later(k))
    <3>1. x \in Later(k)
      BY DEF Later
    <3> QED
      BY <3>1, AppendProperties
  <2> QED
    BY <2>1, <2>2, <2>3, <2>4
<1>4. CASE ~ (Len(kb.buf) < MaxBuf)
  <2>1. Asking!Typed(x) = kb.buf
    BY <1>4 DEF Asking!Typed
  <2>2. kb.buf # <<>>
    BY <1>1, <1>2, <1>4
  <2> QED
    BY <1>1, <2>1, <2>2
<1> QED
  BY <1>3, <1>4

(* The keyboard, and time.                                                 *)
LEMMA KeysTyped ==
    ASSUME Asking!PromptAssumption, PromptTyped, Protected, Asking!Next,
           (\E ch \in Asking!Key : Asking!Press(ch)) \/ Asking!Release \/ Asking!Tick
    PROVE  PromptTyped' /\ Protected'
<1>1. /\ Timeout \in Nat /\ Delay \in 1 .. Timeout /\ Repeat \in 1 .. Timeout
      /\ Delay \in Nat /\ Repeat \in Nat /\ Delay <= Timeout /\ Repeat <= Timeout
  BY DEF Asking!PromptAssumption
<1>2. /\ kb \in Keyboard /\ timer \in Nat /\ shown \in Nat /\ shown <= kb.presses /\ got \in Seq(Entry)
      /\ kb.held # Asking!None => kb.wait \in 1 .. Timeout
      /\ kb.held.press <= kb.presses
  BY DEF PromptTyped
<1>3. /\ kb.held \in Entry /\ kb.wait \in Nat /\ kb.presses \in Nat /\ kb.buf \in Seq(Entry)
      /\ kb.held.press \in Nat
  BY <1>2 DEF Keyboard, Entry
<1>4. Asking!None \in Entry /\ Asking!None.press = 0
  BY DEF Asking!None, Entry
<1> DEFINE P == job.kind = "write" /\ job.tty /\ Asking!hold_protect
<1>5. ASSUME P
      PROVE  /\ step \in {"pre", "hold"} /\ kb.buf = <<>> => kb.held = Asking!None \/ kb.wait <= timer
             /\ step \in {"read", "line"} => kb.buf \in Seq(Later(shown)) /\ (kb.held = Asking!None \/ kb.held.press > shown)
             /\ step \in {"post", "hold2", "decide"} => got \in Seq(Later(shown))
             /\ \A x \in answers : x.press > x.since
  BY <1>5 DEF Protected
<1>6. ASSUME UNCHANGED <<job, step, at, got, shown, mode, answers, file>>,
             P => /\ step \in {"pre", "hold"} /\ kb'.buf = <<>> => kb'.held = Asking!None \/ kb'.wait <= timer'
                  /\ step \in {"read", "line"} => kb'.buf \in Seq(Later(shown)) /\ (kb'.held = Asking!None \/ kb'.held.press > shown)
      PROVE  Protected'
  BY <1>5, <1>6 DEF Protected, Asking!hold_protect
<1>7. ASSUME NEW ch \in Asking!Key, Asking!Press(ch) PROVE PromptTyped' /\ Protected'
  <2> DEFINE x == [ch |-> ch, press |-> kb.presses + 1]
  <2>1. /\ UNCHANGED <<job, step, at, timer, got, shown, mode, answers, file>>
        /\ kb' = [held |-> x, wait |-> Delay, presses |-> kb.presses + 1, buf |-> Asking!Typed(x)]
    BY <1>7 DEF Asking!Press
  <2>2. x \in Entry /\ x.press = kb.presses + 1
    BY <1>3 DEF Entry
  <2>3. x.press > shown /\ shown <= kb.presses + 1 /\ x.press <= kb.presses + 1
    BY <1>2, <1>3, <2>2
  <2> HIDE DEF x
  <2>4. /\ Asking!Typed(x) \in Seq(Entry)
        /\ kb.buf = <<>> => Asking!Typed(x) # <<>>
        /\ kb.buf \in Seq(Later(shown)) => Asking!Typed(x) \in Seq(Later(shown))
    BY <2>2, <2>3, BufferTyped
  <2>5. kb'.held = x /\ kb'.wait = Delay /\ kb'.presses = kb.presses + 1 /\ kb'.buf = Asking!Typed(x)
    BY <2>1
  <2>6. kb' \in Keyboard
    <3>1. kb.presses + 1 \in Nat
      BY <1>3
    <3> QED
      BY <1>1, <2>1, <2>2, <2>4, <3>1 DEF Keyboard
  <2>7. PromptTyped'
    BY <1>1, <1>2, <2>1, <2>3, <2>5, <2>6 DEF PromptTyped
  <2>8. step \in {"pre", "hold"} => kb.buf = <<>>
    BY <1>7 DEF Asking!Press, Asking!Blocked, Asking!Selecting
  <2>9. Protected'
    BY <1>5, <1>6, <2>1, <2>3, <2>4, <2>5, <2>8
  <2> QED
    BY <2>7, <2>9
<1>8. CASE Asking!Release
  <2>1. /\ UNCHANGED <<job, step, at, timer, got, shown, mode, answers, file>>
        /\ kb' = [kb EXCEPT !.held = Asking!None, !.wait = 0]
    BY <1>8 DEF Asking!Release
  <2>2. kb'.held = Asking!None /\ kb'.presses = kb.presses /\ kb'.buf = kb.buf
    BY <1>2, <2>1 DEF Keyboard
  <2>3. kb' \in Keyboard
    BY <1>2, <1>4, <2>1 DEF Keyboard
  <2>4. 0 <= kb.presses
    BY <1>3
  <2>5. PromptTyped'
    BY <1>2, <1>4, <2>1, <2>2, <2>3, <2>4 DEF PromptTyped
  <2>6. Protected'
    BY <1>5, <1>6, <2>1, <2>2
  <2> QED
    BY <2>5, <2>6
<1>9. CASE Asking!Tick
  <2>1. /\ UNCHANGED <<job, step, at, got, shown, mode, answers, file>>
        /\ timer' = IF Asking!Selecting THEN timer - 1 ELSE timer
        /\ kb' = IF kb.held = Asking!None THEN kb
                 ELSE IF kb.wait > 1 THEN [kb EXCEPT !.wait = kb.wait - 1]
                 ELSE [kb EXCEPT !.wait = Repeat, !.buf = Asking!Typed(kb.held)]
    BY <1>9 DEF Asking!Tick
  <2>2. Asking!Selecting => timer > 0 /\ kb.buf = <<>>
    BY <1>9 DEF Asking!Tick, Asking!Blocked, Asking!Selecting
  <2>3. timer' \in Nat
    BY <1>2, <2>1, <2>2
  <2>4. step \in {"pre", "hold"} => Asking!Selecting
    BY DEF Asking!Selecting
  <2>5. /\ Asking!Typed(kb.held) \in Seq(Entry)
        /\ kb.buf = <<>> => Asking!Typed(kb.held) # <<>>
        /\ kb.held.press > shown /\ kb.buf \in Seq(Later(shown)) => Asking!Typed(kb.held) \in Seq(Later(shown))
    BY <1>3, BufferTyped
  <2>6. CASE kb.held = Asking!None
    <3>1. kb' = kb
      BY <2>1, <2>6
    <3>2. PromptTyped'
      BY <1>2, <2>1, <2>3, <3>1 DEF PromptTyped
    <3>3. Protected'
      BY <1>5, <1>6, <2>1, <2>6, <3>1
    <3> QED
      BY <3>2, <3>3
  <2>7. CASE kb.held # Asking!None /\ kb.wait > 1
    <3>1. kb' = [kb EXCEPT !.wait = kb.wait - 1]
      BY <2>1, <2>7
    <3>2. kb'.held = kb.held /\ kb'.presses = kb.presses /\ kb'.buf = kb.buf /\ kb'.wait = kb.wait - 1
      BY <1>2, <3>1 DEF Keyboard
    <3>3. kb.wait - 1 \in 1 .. Timeout /\ kb.wait - 1 \in Nat
      BY <1>1, <1>2, <1>3, <2>7
    <3>4. kb' \in Keyboard
      BY <1>2, <3>1, <3>3 DEF Keyboard
    <3>5. PromptTyped'
      BY <1>2, <2>1, <2>3, <3>2, <3>3, <3>4 DEF PromptTyped
    <3>6. step \in {"pre", "hold"} /\ kb.wait <= timer => kb'.wait <= timer'
      <4>1. step \in {"pre", "hold"} => timer' = timer - 1
        BY <2>1, <2>4
      <4> QED
        BY <1>2, <1>3, <3>2, <4>1
    <3>7. Protected'
      BY <1>5, <1>6, <2>1, <3>2, <3>6
    <3> QED
      BY <3>5, <3>7
  <2>8. CASE kb.held # Asking!None /\ ~ (kb.wait > 1)
    <3>1. kb' = [kb EXCEPT !.wait = Repeat, !.buf = Asking!Typed(kb.held)]
      BY <2>1, <2>8
    <3>2. kb'.held = kb.held /\ kb'.presses = kb.presses /\ kb'.buf = Asking!Typed(kb.held) /\ kb'.wait = Repeat
      BY <1>2, <3>1 DEF Keyboard
    <3>3. kb' \in Keyboard
      BY <1>1, <1>2, <2>5, <3>1 DEF Keyboard
    <3>4. PromptTyped'
      BY <1>1, <1>2, <2>1, <2>3, <3>2, <3>3 DEF PromptTyped
    <3>5. Protected'
      BY <1>5, <1>6, <2>1, <2>2, <2>4, <2>5, <2>8, <3>2
    <3> QED
      BY <3>4, <3>5
  <2> QED
    BY <2>6, <2>7, <2>8
<1> QED
  BY <1>7, <1>8, <1>9

(* What the program does with the keys.                                    *)
LEMMA ReadTyped ==
    ASSUME Asking!PromptAssumption, PromptTyped, Protected,
           Asking!Selected \/ Asking!Read \/ Asking!Followed \/ Asking!kb_hold_protect \/ Asking!line_input
    PROVE  PromptTyped' /\ Protected'
<1>1. Timeout \in Nat
  BY DEF Asking!PromptAssumption
<1>2. /\ kb \in Keyboard /\ timer \in Nat /\ shown \in Nat /\ shown <= kb.presses /\ got \in Seq(Entry)
      /\ kb.held # Asking!None => kb.wait \in 1 .. Timeout
      /\ kb.held.press <= kb.presses
  BY DEF PromptTyped
<1>3. kb.presses \in Nat /\ kb.buf \in Seq(Entry)
  BY <1>2 DEF Keyboard
<1>a. kb.held # Asking!None => kb.wait \in Nat /\ kb.wait > 0 /\ kb.wait <= Timeout
  BY <1>1, <1>2
<1> DEFINE P == job.kind = "write" /\ job.tty /\ Asking!hold_protect
           Cleared == [kb EXCEPT !.buf = <<>>]
<1>4. ASSUME P
      PROVE  /\ step \in {"pre", "hold"} /\ kb.buf = <<>> => kb.held = Asking!None \/ kb.wait <= timer
             /\ step \in {"read", "line"} => kb.buf \in Seq(Later(shown)) /\ (kb.held = Asking!None \/ kb.held.press > shown)
             /\ step \in {"post", "hold2", "decide"} => got \in Seq(Later(shown))
             /\ \A x \in answers : x.press > x.since
  BY <1>4 DEF Protected
<1>5. ASSUME job' = job, answers' = answers,
             P => /\ step' \in {"pre", "hold"} /\ kb'.buf = <<>> => kb'.held = Asking!None \/ kb'.wait <= timer'
                  /\ step' \in {"read", "line"} => kb'.buf \in Seq(Later(shown')) /\ (kb'.held = Asking!None \/ kb'.held.press > shown')
                  /\ step' \in {"post", "hold2", "decide"} => got' \in Seq(Later(shown'))
      PROVE  Protected'
  BY <1>4, <1>5 DEF Protected, Asking!hold_protect
<1>6. /\ Cleared \in Keyboard /\ Cleared.held = kb.held /\ Cleared.wait = kb.wait
      /\ Cleared.presses = kb.presses /\ Cleared.buf = <<>>
  <2>1. <<>> \in Seq(Entry)
    OBVIOUS
  <2> QED
    BY <1>2, <2>1 DEF Keyboard
<1> HIDE DEF Cleared
<1>7. ASSUME job' = job, kb' = kb \/ kb' = Cleared, timer' = timer \/ timer' = Timeout,
             shown' = shown \/ shown' = kb.presses, got' \in Seq(Entry)
      PROVE  PromptTyped'
  <2>1. kb' \in Keyboard /\ kb'.held = kb.held /\ kb'.wait = kb.wait /\ kb'.presses = kb.presses
    BY <1>2, <1>6, <1>7
  <2>2. shown' \in Nat /\ shown' <= kb.presses
    BY <1>2, <1>3, <1>7
  <2>3. timer' \in Nat
    BY <1>1, <1>2, <1>7
  <2> QED
    BY <1>2, <1>7, <2>1, <2>2, <2>3 DEF PromptTyped
<1>8. CASE Asking!Selected
  <2>1. step = "pre" /\ UNCHANGED <<job, at, got, shown, mode, answers, file>>
    BY <1>8 DEF Asking!Selected
  <2>2. CASE Asking!Held(kb.buf) /\ kb' = Cleared /\ timer' = Timeout /\ step' = "pre"
    <3>1. PromptTyped'
      BY <1>2, <1>7, <2>1, <2>2
    <3>2. Protected'
      BY <1>a, <1>5, <1>6, <2>1, <2>2
    <3> QED
      BY <3>1, <3>2
  <2>3. CASE ~ Asking!Held(kb.buf) /\ (kb.buf # <<>> \/ timer = 0) /\ step' = "read" /\ UNCHANGED <<kb, timer>>
    <3>1. PromptTyped'
      BY <1>2, <1>7, <2>1, <2>3
    <3>2. ASSUME P PROVE kb.buf = <<>> /\ kb.held = Asking!None
      <4>1. kb.buf = <<>> /\ timer = 0
        BY <2>3, <3>2 DEF Asking!Held
      <4> QED
        BY <1>a, <1>4, <2>1, <3>2, <4>1
    <3>3. Protected'
      <4>1. <<>> \in Seq(Later(shown))
        OBVIOUS
      <4> QED
        BY <1>5, <2>1, <2>3, <3>2, <4>1
    <3> QED
      BY <3>1, <3>3
  <2> QED
    BY <1>8, <2>2, <2>3 DEF Asking!Selected, Cleared
<1>9. CASE Asking!Read
  <2>1. /\ step = "read" /\ UNCHANGED <<job, at, shown, answers, file>>
        /\ got' = kb.buf /\ kb' = Cleared /\ timer' = Timeout /\ step' \in {"decide", "post"}
    BY <1>9 DEF Asking!Read, Cleared
  <2>2. PromptTyped'
    BY <1>3, <1>7, <2>1
  <2>3. Protected'
    BY <1>4, <1>5, <2>1
  <2> QED
    BY <2>2, <2>3
<1>10. CASE Asking!Followed
  <2>1. /\ step = "post" /\ UNCHANGED <<job, at, kb, shown, answers, file, got>>
        /\ (step' = "pre" /\ timer' = Timeout) \/ (step' = "decide" /\ timer' = timer)
    BY <1>10 DEF Asking!Followed
  <2>2. PromptTyped'
    BY <1>2, <1>7, <2>1
  <2>3. Protected'
    BY <1>a, <1>4, <1>5, <2>1
  <2> QED
    BY <2>2, <2>3
<1>11. CASE Asking!kb_hold_protect
  <2>1. step \in {"hold", "hold2"} /\ UNCHANGED <<job, at, answers, file, got>>
    BY <1>11 DEF Asking!kb_hold_protect
  <2>2. CASE kb.buf # <<>> /\ kb' = Cleared /\ timer' = Timeout /\ UNCHANGED <<step, shown, mode>>
    <3>1. PromptTyped'
      BY <1>2, <1>7, <2>1, <2>2
    <3>2. Protected'
      BY <1>a, <1>4, <1>5, <1>6, <2>1, <2>2
    <3> QED
      BY <3>1, <3>2
  <2>3. CASE /\ kb.buf = <<>> /\ timer = 0 /\ UNCHANGED <<kb, timer>>
             /\ IF step = "hold" THEN step' = "line" /\ shown' = kb.presses ELSE step' = "decide" /\ shown' = shown
    <3>1. PromptTyped'
      BY <1>2, <1>7, <2>1, <2>3
    <3>2. P /\ step = "hold" => kb.held = Asking!None
      BY <1>a, <1>4, <2>3
    <3>3. Protected'
      <4>1. <<>> \in Seq(Later(shown'))
        OBVIOUS
      <4> QED
        BY <1>4, <1>5, <2>1, <2>3, <3>2, <4>1
    <3> QED
      BY <3>1, <3>3
  <2> QED
    BY <1>11, <2>2, <2>3 DEF Asking!kb_hold_protect, Cleared
<1>12. CASE Asking!line_input
  <2>1. /\ step = "line" /\ UNCHANGED <<job, at, shown, answers, file>> /\ timer' = Timeout /\ step' \in {"hold2", "decide"}
    BY <1>12 DEF Asking!line_input
  <2>2. PICK k \in DOMAIN kb.buf : /\ got' = SubSeq(kb.buf, 1, k)
                                   /\ kb' = [kb EXCEPT !.buf = SubSeq(kb.buf, k + 1, Len(kb.buf))]
    BY <1>12 DEF Asking!line_input
  <2>3. \A S : kb.buf \in Seq(S) => SubSeq(kb.buf, 1, k) \in Seq(S) /\ SubSeq(kb.buf, k + 1, Len(kb.buf)) \in Seq(S)
    <3> TAKE S
    <3> HAVE kb.buf \in Seq(S)
    <3>1. PICK s \in Seq(S) : s = kb.buf
      OBVIOUS
    <3>2. Len(s) \in Nat /\ k \in 1 .. Len(s)
      BY <3>1
    <3>3. (\A j \in 1 .. k : s[j] \in S) /\ \A j \in k + 1 .. Len(s) : s[j] \in S
      BY <3>2
    <3>4. SubSeq(s, 1, k) \in Seq(S)
      BY <3>2, <3>3, SubSeqProperties
    <3>5. SubSeq(s, k + 1, Len(s)) \in Seq(S)
      BY <3>2, <3>3, SubSeqProperties
    <3> QED
      BY <3>1, <3>4, <3>5
  <2>4. got' \in Seq(Entry) /\ SubSeq(kb.buf, k + 1, Len(kb.buf)) \in Seq(Entry)
    BY <1>3, <2>2, <2>3
  <2>5. kb' \in Keyboard /\ kb'.held = kb.held /\ kb'.wait = kb.wait /\ kb'.presses = kb.presses
    BY <1>2, <2>2, <2>4 DEF Keyboard
  <2>6. PromptTyped'
    BY <1>1, <1>2, <2>1, <2>4, <2>5 DEF PromptTyped
  <2>7. Protected'
    <3>1. P => kb.buf \in Seq(Later(shown))
      BY <1>4, <2>1
    <3>2. P => got' \in Seq(Later(shown))
      BY <2>2, <2>3, <3>1
    <3> QED
      BY <1>5, <2>1, <3>2
  <2> QED
    BY <2>6, <2>7
<1> QED
  BY <1>8, <1>9, <1>10, <1>11, <1>12

(* The program's way from one question to the next.                        *)
LEMMA GoesOn ==
    ASSUME PromptTyped, Protected, UNCHANGED <<job, kb, timer, got, shown>>,
           step' \notin {"pre", "hold", "read", "line", "post", "hold2", "decide"},
           \A x \in answers' : x \in answers \/ (Asking!hold_protect /\ job.tty => x.press > x.since)
    PROVE  PromptTyped' /\ Protected'
<1>1. PromptTyped'
  BY DEF PromptTyped
<1>2. Protected'
  BY DEF Protected, Asking!hold_protect
<1> QED
  BY <1>1, <1>2

(* What the program asks next, or that it goes on or ends.                 *)
LEMMA Answered ==
    ASSUME PromptTyped, Protected, step = "decide"
    PROVE  LET new == IF Asking!Meaning = "again" \/ got = <<>> THEN {}
                      ELSE {[at |-> at, press |-> got[k].press, since |-> shown] : k \in DOMAIN got}
           IN /\ job.kind = "write" /\ job.tty /\ Asking!hold_protect => \A x \in answers \union new : x.press > x.since
              /\ Asking!Meaning = "yes" /\ at = "overwrite" => \E x \in answers \union new : x.at = "overwrite"
<1> DEFINE new == IF Asking!Meaning = "again" \/ got = <<>> THEN {}
                  ELSE {[at |-> at, press |-> got[k].press, since |-> shown] : k \in DOMAIN got}
<1>1. ASSUME job.kind = "write", job.tty, Asking!hold_protect PROVE \A x \in answers \union new : x.press > x.since
  <2>1. got \in Seq(Later(shown)) /\ \A x \in answers : x.press > x.since
    BY <1>1 DEF Protected
  <2>2. \A k \in DOMAIN got : got[k] \in Later(shown)
    BY <2>1
  <2>3. \A k \in DOMAIN got : got[k].press > shown
    BY <2>2 DEF Later
  <2>4. \A x \in new : x.press > x.since
    BY <2>3
  <2> QED
    BY <2>1, <2>4
<1>2. ASSUME Asking!Meaning = "yes", at = "overwrite" PROVE \E x \in answers \union new : x.at = "overwrite"
  <2>1. Asking!Text(got) = <<"y", "enter">>
    BY <1>2 DEF Asking!Meaning, Asking!ByKey
  <2>2. DOMAIN got = DOMAIN Asking!Text(got)
    BY DEF Asking!Text
  <2>3. 1 \in DOMAIN got
    BY <2>1, <2>2
  <2>4. got # <<>>
    BY <2>3
  <2>5. [at |-> at, press |-> got[1].press, since |-> shown] \in new
    BY <1>2, <2>3, <2>4
  <2> QED
    BY <1>2, <2>5
<1> QED
  BY <1>1, <1>2

LEMMA PromptTypedNext ==
    ASSUME Asking!PromptAssumption, PromptTyped, Protected, [Asking!Next]_Asking!promptVars
    PROVE  PromptTyped' /\ Protected'
<1>1. CASE (\E ch \in Asking!Key : Asking!Press(ch)) \/ Asking!Release \/ Asking!Tick
  BY <1>1, KeysTyped DEF Asking!Next
<1>2. CASE Asking!Selected \/ Asking!Read \/ Asking!Followed \/ Asking!kb_hold_protect \/ Asking!line_input
  BY <1>2, ReadTyped
<1>3. ASSUME NEW how \in {"died", "done", "interrupted"}, Asking!Exit(how), UNCHANGED <<job, answers>>
      PROVE  PromptTyped' /\ Protected'
  BY <1>3, GoesOn DEF Asking!Exit
<1>4. ASSUME NEW q, Asking!Ask(q), kb' = kb, job' = job, answers' = answers PROVE PromptTyped' /\ Protected'
  <2>1. job.kind = "write" /\ job.tty /\ Asking!hold_protect => \A x \in answers' : x.press > x.since
    BY <1>4 DEF Protected
  <2> QED
    BY <1>4, <2>1, AskTyped, AskProtected
<1>5. CASE Asking!Interrupt
  BY <1>3, <1>5 DEF Asking!Interrupt
<1>6. CASE Asking!Start
  <2>1. UNCHANGED <<job, kb, answers>>
    BY <1>6 DEF Asking!Start
  <2>2. ASSUME UNCHANGED <<at, kb, timer, got, shown, mode>>, step' \in {"save?", "exists", "open"} PROVE PromptTyped' /\ Protected'
    BY <2>1, <2>2, GoesOn
  <2>3. \/ Asking!Exit("died")
        \/ \E q : Asking!Ask(q)
        \/ UNCHANGED <<at, kb, timer, got, shown, mode>> /\ step' \in {"save?", "exists", "open"}
    BY <1>6 DEF Asking!Start, Asking!Reach
  <2> QED
    BY <1>3, <1>4, <2>1, <2>2, <2>3
<1>7. CASE Asking!decide
  <2> DEFINE new == IF Asking!Meaning = "again" \/ got = <<>> THEN {}
                    ELSE {[at |-> at, press |-> got[k].press, since |-> shown] : k \in DOMAIN got}
  <2>1. step = "decide" /\ UNCHANGED <<job, file>> /\ answers' = answers \union new
    BY <1>7 DEF Asking!decide
  <2>2. job.kind = "write" /\ job.tty /\ Asking!hold_protect => \A x \in answers \union new : x.press > x.since
    BY <2>1, Answered
  <2> HIDE DEF new
  <2>3. \/ Asking!Ask(at) /\ kb' = kb
        \/ step' \in {"died", "done", "save?", "exists", "open"} /\ UNCHANGED <<kb, timer, got, shown>>
    BY <1>7 DEF Asking!decide, Asking!Exit
  <2>4. CASE Asking!Ask(at) /\ kb' = kb
    BY <2>1, <2>2, <2>4, AskTyped, AskProtected
  <2>5. CASE step' \in {"died", "done", "save?", "exists", "open"} /\ UNCHANGED <<kb, timer, got, shown>>
    <3>1. PromptTyped'
      BY <2>1, <2>5 DEF PromptTyped
    <3>2. Protected'
      BY <2>1, <2>2, <2>5 DEF Protected, Asking!hold_protect
    <3> QED
      BY <3>1, <3>2
  <2> QED
    BY <2>3, <2>4, <2>5
<1>8. CASE Asking!Write
  <2>1. UNCHANGED <<job, answers>>
    BY <1>8 DEF Asking!Write
  <2>2. \/ Asking!Exit("died")
        \/ Asking!Ask("next") /\ kb' = kb
        \/ step' = "write" /\ UNCHANGED <<at, kb, timer, got, shown, mode>>
    BY <1>8 DEF Asking!Write
  <2>3. CASE step' = "write" /\ UNCHANGED <<at, kb, timer, got, shown, mode>>
    BY <2>1, <2>3, GoesOn
  <2> QED
    BY <1>3, <1>4, <2>1, <2>2, <2>3
<1>9. CASE Asking!OtherProgram \/ UNCHANGED Asking!promptVars
  <2>1. UNCHANGED <<job, step, at, kb, timer, got, shown, mode, answers>>
    BY <1>9 DEF Asking!OtherProgram
  <2> QED
    BY <2>1 DEF PromptTyped, Protected, Asking!hold_protect
<1> QED
  BY <1>1, <1>2, <1>5, <1>6, <1>7, <1>8, <1>9 DEF Asking!Next

(* What a step changes of the file, and the terminal.                      *)
FileInv ==
    /\ step = "exists" \/ (Asked /\ at = "save") => job.stdout = "no"
    /\ step \in {"start", "save?", "exists"} \/ (Asked /\ at # "next") => file.over = ""
    /\ step \in {"open", "write"} \/ file.over # "" => Permitted
    /\ Asking!NotAltered
    /\ Asking!AsItWas

LEMMA FileNext ==
    ASSUME PromptTyped, Protected, FileInv, DOMAIN file = {"is", "known", "over", "moves"}, [Asking!Next]_Asking!promptVars
    PROVE  FileInv' /\ DOMAIN file' = {"is", "known", "over", "moves"}
<1> USE DEF FileInv, Asking!NotAltered, Asking!AsItWas
<1>1. ASSUME UNCHANGED <<job, step, at, answers, file, mode>> PROVE FileInv' /\ DOMAIN file' = DOMAIN file
  BY <1>1 DEF Asked, Permitted
<1>2. ASSUME UNCHANGED <<job, at, answers, file>>, Asked, Asked' \/ (mode' = "orig" /\ ~Asked' /\ step' \in {"done", "died", "interrupted"})
      PROVE  FileInv' /\ DOMAIN file' = DOMAIN file
  BY <1>2 DEF Asked, Permitted
<1>3. ASSUME NEW how \in {"died", "done", "interrupted"}, Asking!Exit(how), UNCHANGED <<job, file>>, answers \subseteq answers'
      PROVE  FileInv' /\ DOMAIN file' = DOMAIN file
  BY <1>3 DEF Asked, Permitted, Asking!Exit, Asking!Restored
<1>4. CASE (\E ch \in Asking!Key : Asking!Press(ch)) \/ Asking!Release \/ Asking!Tick
  <2>1. UNCHANGED <<job, step, at, answers, file, mode>>
    BY <1>4 DEF Asking!Press, Asking!Release, Asking!Tick
  <2> QED
    BY <1>1, <2>1
<1>5. CASE Asking!Selected \/ Asking!Read \/ Asking!Followed \/ Asking!kb_hold_protect \/ Asking!line_input
  <2>1. UNCHANGED <<job, at, answers, file>> /\ Asked /\ Asked'
    BY <1>5 DEF Asking!Selected, Asking!Read, Asking!Followed, Asking!kb_hold_protect, Asking!line_input, Asked
  <2> QED
    BY <1>2, <2>1
<1>6. CASE Asking!Interrupt
  BY <1>3, <1>6 DEF Asking!Interrupt
<1>7. CASE Asking!Start
  <2>1. UNCHANGED <<job, answers>> /\ step \in {"start", "save?", "exists"} /\ file.over = ""
    BY <1>7 DEF Asking!Start
  <2>2. CASE step # "exists"
    <3>1. file' = file
      BY <1>7, <2>2 DEF Asking!Start
    <3>2. \/ Asking!Exit("died")
          \/ Asking!Ask("next")
          \/ Asking!Ask("screen")
          \/ step' = "save?"
          \/ job.stdout = "no" /\ Asking!Ask("save")
          \/ job.stdout = "no" /\ step' = "exists"
      BY <1>7, <2>2 DEF Asking!Start, Asking!Reach, Asking!Asks
    <3>3. ASSUME NEW q \in {"next", "screen", "save"}, Asking!Ask(q), q = "save" => job.stdout = "no"
          PROVE  FileInv' /\ DOMAIN file' = DOMAIN file
      <4>1. at' = q /\ step' \in {"pre", "read", "decide", "hold", "line"}
        BY <3>3 DEF Asking!Ask
      <4> QED
        BY <2>1, <3>1, <3>3, <4>1
    <3>4. CASE step' = "save?" \/ (job.stdout = "no" /\ step' = "exists")
      BY <2>1, <3>1, <3>4 DEF Asked
    <3> QED
      BY <1>3, <2>1, <3>1, <3>2, <3>3, <3>4
  <2>3. CASE step = "exists"
    <3>1. file' = [file EXCEPT !.known = file.is] /\ job.stdout = "no"
      BY <1>7, <2>3 DEF Asking!Start
    <3>2. file'.known = file.is /\ file'.over = "" /\ DOMAIN file' = DOMAIN file
      BY <2>1, <3>1
    <3>3. \/ Asking!Ask("overwrite")
          \/ step' = "open" /\ (file.is = "absent" \/ job.quiet) /\ UNCHANGED <<at, kb, timer, got, shown, mode>>
      BY <1>7, <2>3, <3>1 DEF Asking!Start, Asking!Reach, Asking!Asks
    <3>4. CASE Asking!Ask("overwrite")
      <4>1. at' = "overwrite" /\ step' \in {"hold", "line"}
        BY <3>4 DEF Asking!Ask, Asking!ByKey
      <4> QED
        BY <2>1, <3>2, <4>1
    <3>5. CASE step' = "open" /\ (file.is = "absent" \/ job.quiet) /\ UNCHANGED <<at, kb, timer, got, shown, mode>>
      BY <2>1, <3>2, <3>5 DEF Asked, Permitted
    <3> QED
      BY <3>3, <3>4, <3>5
  <2> QED
    BY <2>2, <2>3
<1>8. CASE Asking!decide
  <2> DEFINE new == IF Asking!Meaning = "again" \/ got = <<>> THEN {}
                    ELSE {[at |-> at, press |-> got[k].press, since |-> shown] : k \in DOMAIN got}
  <2>1. step = "decide" /\ UNCHANGED <<job, file>> /\ answers' = answers \union new
    BY <1>8 DEF Asking!decide
  <2>2. Asking!Meaning = "yes" /\ at = "overwrite" => \E x \in answers \union new : x.at = "overwrite"
    BY <2>1, Answered
  <2> HIDE DEF new
  <2>3. Asking!Meaning \in {"yes", "no", "again"}
    BY DEF Asking!Meaning
  <2>4. \/ Asking!Ask(at)
        \/ Asking!Exit("died") \/ Asking!Exit("done")
        \/ at = "screen" /\ step' = "save?" /\ UNCHANGED <<at, mode>>
        \/ at = "save" /\ step' = "exists" /\ UNCHANGED <<at, mode>>
        \/ at = "overwrite" /\ step' = "open" /\ Asking!Meaning = "yes" /\ UNCHANGED <<at, mode>>
    BY <1>8, <2>3 DEF Asking!decide
  <2>5. CASE Asking!Ask(at)
    <3>1. at' = at /\ step' \in {"pre", "read", "decide", "hold", "line"}
      BY <2>5 DEF Asking!Ask
    <3> QED
      BY <2>1, <3>1 DEF Asked, Permitted
  <2>6. CASE at \in {"screen", "save"} /\ step' \in {"save?", "exists"} /\ UNCHANGED <<at, mode>> /\ (step' = "exists" => at = "save")
    BY <2>1, <2>6 DEF Asked, Permitted
  <2>7. CASE at = "overwrite" /\ step' = "open" /\ Asking!Meaning = "yes" /\ UNCHANGED <<at, mode>>
    BY <2>1, <2>2, <2>7 DEF Asked, Permitted
  <2> QED
    BY <1>3, <2>1, <2>4, <2>5, <2>6, <2>7
<1>9. CASE Asking!Write
  <2>1. UNCHANGED <<job, answers>>
    BY <1>9 DEF Asking!Write
  <2>2. \/ /\ step = "open" /\ Asking!Unaltered /\ file' = [file EXCEPT !.is = "torn", !.over = file.is]
           /\ step' = "write" /\ UNCHANGED <<at, kb, timer, got, shown, mode>>
        \/ file' = file /\ Asking!Exit("died")
        \/ step = "write" /\ file' = [file EXCEPT !.is = "new"] /\ Asking!Ask("next")
    BY <1>9 DEF Asking!Write
  <2>3. CASE /\ step = "open" /\ Asking!Unaltered /\ file' = [file EXCEPT !.is = "torn", !.over = file.is]
             /\ step' = "write" /\ UNCHANGED <<at, kb, timer, got, shown, mode>>
    <3>1. file'.over = file.is /\ file'.known = file.known /\ DOMAIN file' = DOMAIN file
      BY <2>3
    <3> QED
      BY <2>1, <2>3, <3>1 DEF Asked, Permitted, Asking!Unaltered
  <2>4. CASE step = "write" /\ file' = [file EXCEPT !.is = "new"] /\ Asking!Ask("next")
    <3>1. file'.over = file.over /\ file'.known = file.known /\ DOMAIN file' = DOMAIN file
      BY <2>4
    <3>2. at' = "next" /\ step' \in {"pre", "read", "decide", "hold", "line"}
      BY <2>4 DEF Asking!Ask
    <3> QED
      BY <2>1, <2>4, <3>1, <3>2 DEF Asked, Permitted
  <2> QED
    BY <1>3, <2>1, <2>2, <2>3, <2>4
<1>10. CASE Asking!OtherProgram
  <2>1. /\ UNCHANGED <<job, step, at, answers, mode>>
        /\ file' = [file EXCEPT !.is = "other", !.moves = 1]
    BY <1>10 DEF Asking!OtherProgram
  <2>2. file'.over = file.over /\ file'.known = file.known /\ DOMAIN file' = DOMAIN file
    BY <2>1
  <2> QED
    BY <2>1, <2>2 DEF Asked, Permitted
<1>11. CASE UNCHANGED Asking!promptVars
  BY <1>1, <1>11
<1> QED
  BY <1>4, <1>5, <1>6, <1>7, <1>8, <1>9, <1>10, <1>11 DEF Asking!Next

LEMMA FilesRead ==
    ASSUME Asking!PromptAssumption, job \in PromptJobs
    PROVE  Asking!FileFacts
<1>1. MaxSize \in Nat
  BY DEF Asking!PromptAssumption
<1>2. ASSUME job.kind = "read"
      PROVE  LET r == Asking!get_data_from_file(job.text, job.binary)
             IN /\ r = "whole" => Asking!Bytes(job.text) <= MaxSize + Len(job.text)
                /\ (\A w \in Asking!Range(job.text) : w = 1) \/ job.binary =>
                       r = IF Asking!Bytes(job.text) <= MaxSize THEN "whole" ELSE "too long"
  <2>1. job.text \in Seq(Nat \ {0}) /\ job.binary \in BOOLEAN
    BY <1>2 DEF Asking!PromptAssumption
  <2>2. (\A w \in Asking!Range(job.text) : w = 1) => \A k \in 1 .. Len(job.text) : job.text[k] = 1
    <3>1. DOMAIN job.text = 1 .. Len(job.text)
      BY <2>1
    <3> QED
      BY <3>1 DEF Asking!Range
  <2>3. PICK text \in Seq(Nat \ {0}), binary \in BOOLEAN : text = job.text /\ binary = job.binary
    BY <2>1
  <2>4. LET r == Asking!get_data_from_file(text, binary)
        IN /\ r = "whole" => Asking!Bytes(text) <= MaxSize + Len(text)
           /\ (\A k \in 1 .. Len(text) : text[k] = 1) \/ binary =>
                  r = IF Asking!Bytes(text) <= MaxSize THEN "whole" ELSE "too long"
    BY <1>1, ReadFacts
  <2> QED
    BY <2>2, <2>3, <2>4
<1>3. ASSUME job.kind = "seed", job.nargs = 1
      PROVE  LET r == Asking!get_seed_file(job.args, 1, job.default, job.opts) IN r = "none" => job.opts
  <2>1. job.args \in Nat
    BY <1>3 DEF Asking!PromptAssumption
  <2>2. CASE job.default \/ job.opts
    BY <2>2 DEF Asking!get_seed_file
  <2>3. CASE ~ (job.default \/ job.opts)
    <3>1. Asking!Given(job.opts \/ job.default) = 0
      BY <2>3 DEF Asking!Given
    <3>2. job.args < 1 - 0 \/ job.args > 0
      BY <2>1
    <3> QED
      BY <3>1, <3>2 DEF Asking!get_seed_file
  <2> QED
    BY <2>2, <2>3
<1> QED
  BY <1>2, <1>3 DEF Asking!FileFacts

PromptInv ==
    /\ PromptTyped
    /\ Protected
    /\ FileInv
    /\ DOMAIN file = {"is", "known", "over", "moves"}

LEMMA PromptInit == Asking!PromptAssumption /\ Asking!Init => PromptInv
<1> SUFFICES ASSUME Asking!PromptAssumption, Asking!Init PROVE PromptInv
  OBVIOUS
<1>1. /\ job \in PromptJobs /\ step \in {"start", "pure"} /\ at = "" /\ timer = 0 /\ got = <<>> /\ shown = 0
      /\ kb = [held |-> Asking!None, wait |-> 0, presses |-> 0, buf |-> <<>>] /\ mode = "orig" /\ answers = {}
      /\ DOMAIN file = {"is", "known", "over", "moves"} /\ file.over = "" /\ file.known = ""
  BY DEF Asking!Init
<1>2. Asking!None \in Entry /\ Asking!None.press = 0
  BY DEF Asking!None, Entry
<1>3. kb.held = Asking!None /\ kb.presses = 0
  BY <1>1
<1>4. got \in Seq(Entry) /\ timer \in Nat /\ shown \in Nat /\ shown <= kb.presses /\ kb.held.press <= kb.presses
  <2>1. got = <<>> /\ timer = 0 /\ shown = 0 /\ kb.presses = 0 /\ kb.held.press = 0
    BY <1>1, <1>2, <1>3
  <2> QED
    BY <2>1
<1>5. kb \in Keyboard
  <2>1. <<>> \in Seq(Entry) /\ 0 \in Nat
    OBVIOUS
  <2> QED
    BY <1>1, <1>2, <2>1 DEF Keyboard
<1>6. PromptTyped
  BY <1>1, <1>3, <1>4, <1>5 DEF PromptTyped
<1>7. Protected
  BY <1>1 DEF Protected
<1>8. FileInv
  BY <1>1 DEF FileInv, Asked, Asking!NotAltered, Asking!AsItWas
<1> QED
  BY <1>1, <1>6, <1>7, <1>8 DEF PromptInv

(* A question on a terminal is answered with keys pressed after it was     *)
(* shown; a file is overwritten only after the question, unless --quiet    *)
(* was given, and the terminal is left as it was; and a file that is read  *)
(* is whole, or refused for being too long.                                *)
THEOREM PromptsAsAnswered == ASSUME Asking!PromptAssumption PROVE Asking!Spec => []Asking!PromptsRight
<1>1. Asking!Init => PromptInv
  BY PromptInit
<1>2. PromptInv /\ [Asking!Next]_Asking!promptVars => PromptInv'
  BY PromptTypedNext, FileNext DEF PromptInv
<1>3. PromptInv => Asking!PromptsRight
  <2> SUFFICES ASSUME PromptInv PROVE Asking!PromptsRight
    OBVIOUS
  <2>1. Asking!FileFacts
    BY FilesRead DEF PromptInv, PromptTyped
  <2>2. Asking!AnsweredOnce
    BY DEF PromptInv, Protected, Asking!AnsweredOnce
  <2>3. Asking!NothingLost
    BY DEF PromptInv, FileInv, Permitted, Asking!NothingLost
  <2>4. Asking!NotAltered /\ Asking!AsItWas
    BY DEF PromptInv, FileInv
  <2> QED
    BY <2>1, <2>2, <2>3, <2>4 DEF Asking!PromptsRight
<1> QED
  BY <1>1, <1>2, <1>3, PTL DEF Asking!Spec

LEMMA HostedOptions == MCSpec => [](subject = "options" => Options!ConfigRight)
<1> DEFINE Here == subject = "options"
<1>1. MCInit /\ Here => Options!Init
  BY DEF MCInit
<1>2. [MCNext \/ ProgramEnded]_allVars /\ Here => Here' /\ [Options!Next]_(Options!vars)
  BY DEF MCNext, ProgramEnded, allVars, optionVars, Options!vars
<1>3. [MCNext \/ ProgramEnded]_allVars /\ ~Here => ~Here'
  BY DEF MCNext, ProgramEnded, allVars
<1>4. Options!Spec => []Options!ConfigRight
  BY ConfigAsGiven, OptionConstants
<1> QED
  BY <1>1, <1>2, <1>3, <1>4, PTL DEF MCSpec, Options!Spec

LEMMA HostedPrompts == MCSpec => [](subject = "prompts" => Asking!PromptsRight)
<1> DEFINE Here == subject = "prompts"
<1>1. MCInit /\ Here => Asking!Init
  BY DEF MCInit
<1>2. [MCNext \/ ProgramEnded]_allVars /\ Here => Here' /\ [Asking!Next]_(Asking!promptVars)
  BY DEF MCNext, ProgramEnded, allVars, promptVars, Asking!promptVars
<1>3. [MCNext \/ ProgramEnded]_allVars /\ ~Here => ~Here'
  BY DEF MCNext, ProgramEnded, allVars
<1>4. Asking!Spec => []Asking!PromptsRight
  BY PromptsAsAnswered, PromptConstants
<1> QED
  BY <1>1, <1>2, <1>3, <1>4, PTL DEF MCSpec, Asking!Spec

(* The same of options and prompts as the run composes them, for any       *)
(* options, texts and files that meet the assumptions.                     *)
THEOREM OptionsAlwaysRight == MCSpec => []OptionsRight
<1>1. (subject = "options" => Options!ConfigRight) /\ (subject = "prompts" => Asking!PromptsRight) => OptionsRight
  BY DEF OptionsRight
<1> QED
  BY <1>1, HostedOptions, HostedPrompts, PTL
-----------------------------------------------------------------------------
(* Swaps: what a memo says is what the command asked for, whatever is      *)
(* quoted and however long it takes.  Numbers are written by their digits: *)
(* that they read back is shown by induction over them.                    *)

(* A set of numbers that a natural number is in if all smaller ones are,   *)
(* has them all.                                                           *)
Below == {ss \in Nat \X Nat : ss[1] < ss[2]}

LEMMA BelowWellFounded == IsWellFoundedOn(Below, Nat)
BY NatLessThanWellFounded DEF OpToRel, Below

LEMMA Smallest == ASSUME NEW T, T \subseteq Nat, T # {} PROVE \E x \in T : \A y \in T : x <= y
<1>1. PICK x \in T : \A y \in T : ~(<<y, x>> \in Below)
  BY BelowWellFounded, WFMin
<1>2. ASSUME NEW y \in T PROVE x <= y
  <2>1. <<y, x>> \in Nat \X Nat /\ <<y, x>>[1] = y /\ <<y, x>>[2] = x
    OBVIOUS
  <2> QED
    BY <1>1, <2>1 DEF Below
<1> QED
  BY <1>2

LEMMA AllNat == ASSUME NEW S, \A num \in Nat : (\A k \in 0 .. num - 1 : k \in S) => num \in S PROVE Nat \subseteq S
<1> SUFFICES ASSUME Nat \ S # {} PROVE FALSE
  OBVIOUS
<1>1. PICK x \in Nat \ S : \A y \in Nat \ S : x <= y
  BY Smallest
<1>2. \A k \in 0 .. x - 1 : k \in S
  BY <1>1
<1> QED
  BY <1>2

(* The digits of a number: what Digits defines, for it is defined.         *)
DigitsTo(f, num) == f = [x \in 0 .. num |-> IF x < 10 THEN <<x>> ELSE Append(f[x \div 10], x % 10)]

LEMMA Parts10 ==
    ASSUME NEW x \in Nat
    PROVE  \E q \in Nat, r \in 0 .. 9 : q = x \div 10 /\ r = x % 10 /\ x = q * 10 + r /\ (x >= 10 => q \in 0 .. x - 1)
<1>1. PICK q \in Int : q = x \div 10
  OBVIOUS
<1>2. PICK r \in Int : r = x % 10
  OBVIOUS
<1>3. x = 10 * q + r /\ r \in 0 .. 9
  BY <1>1, <1>2
<1>4. x = q * 10 + r /\ q \in Nat /\ (x >= 10 => q \in 0 .. x - 1)
  BY <1>3
<1> QED
  BY <1>1, <1>2, <1>3, <1>4, Zenon

LEMMA Halves == ASSUME NEW x \in Nat, x >= 10 PROVE x \div 10 \in 0 .. x - 1
BY Parts10

LEMMA DigitsAt ==
    ASSUME NEW f, NEW num \in Nat, DigitsTo(f, num), NEW x \in 0 .. num
    PROVE  f[x] = IF x < 10 THEN <<x>> ELSE Append(f[x \div 10], x % 10)
<1>1. PICK h : h = [y \in 0 .. num |-> IF y < 10 THEN <<y>> ELSE Append(f[y \div 10], y % 10)]
  OBVIOUS
<1>2. f = h
  BY <1>1 DEF DigitsTo
<1>3. h[x] = IF x < 10 THEN <<x>> ELSE Append(f[x \div 10], x % 10)
  BY <1>1
<1> QED
  BY <1>2, <1>3

LEMMA DigitsThere == \A num \in Nat : \E f : DigitsTo(f, num)
<1>1. PICK S : S = {num \in Nat : \E f : DigitsTo(f, num)}
  OBVIOUS
<1>2. ASSUME NEW num \in Nat, \A k \in 0 .. num - 1 : k \in S PROVE num \in S
  <2>1. CASE num = 0
    <3>1. DigitsTo([x \in 0 .. 0 |-> <<x>>], 0)
      BY DEF DigitsTo
    <3> QED
      BY <1>1, <2>1, <3>1
  <2>2. CASE num # 0
    <3>0. num - 1 \in 0 .. num - 1
      BY <2>2
    <3>1. PICK f : DigitsTo(f, num - 1)
      BY <1>1, <1>2, <3>0
    <3>2. PICK g : g = [x \in 0 .. num |-> IF x < num THEN f[x] ELSE IF x < 10 THEN <<x>> ELSE Append(f[x \div 10], x % 10)]
      OBVIOUS
    <3>3. ASSUME NEW x \in 0 .. num PROVE g[x] = IF x < 10 THEN <<x>> ELSE Append(g[x \div 10], x % 10)
      <4>1. f[x] = (IF x < 10 THEN <<x>> ELSE Append(f[x \div 10], x % 10)) \/ x = num
        <5>1. num - 1 \in Nat /\ (x \in 0 .. num - 1 \/ x = num)
          BY <2>2
        <5> QED
          BY <3>1, <5>1, DigitsAt
      <4>2. x >= 10 => g[x \div 10] = f[x \div 10]
        <5> SUFFICES ASSUME x >= 10 PROVE g[x \div 10] = f[x \div 10]
          OBVIOUS
        <5>1. x \div 10 \in 0 .. num /\ x \div 10 < num
          BY <2>2, <3>3, Halves
        <5> QED
          BY <3>2, <5>1
      <4>3. g[x] = IF x < 10 THEN <<x>> ELSE Append(f[x \div 10], x % 10)
        BY <3>2, <3>3, <4>1
      <4> QED
        BY <4>2, <4>3
    <3>4. DigitsTo(g, num)
      BY <3>2, <3>3 DEF DigitsTo
    <3> QED
      BY <1>1, <3>4
  <2> QED
    BY <2>1, <2>2
<1>3. Nat \subseteq S
  BY <1>2, AllNat
<1> QED
  BY <1>1, <1>3

LEMMA DigitsAgree ==
    ASSUME NEW f, NEW g, NEW m \in Nat, NEW num \in Nat, DigitsTo(f, m), DigitsTo(g, num)
    PROVE  \A x \in Nat : x <= m /\ x <= num => f[x] = g[x]
<1>1. PICK S : S = {x \in Nat : x <= m /\ x <= num => f[x] = g[x]}
  OBVIOUS
<1>2. ASSUME NEW x \in Nat, \A k \in 0 .. x - 1 : k \in S PROVE x \in S
  <2> SUFFICES ASSUME x <= m, x <= num PROVE f[x] = g[x]
    BY <1>1
  <2>1. f[x] = IF x < 10 THEN <<x>> ELSE Append(f[x \div 10], x % 10)
    <3>1. x \in 0 .. m
      OBVIOUS
    <3> QED
      BY <3>1, DigitsAt
  <2>2. g[x] = IF x < 10 THEN <<x>> ELSE Append(g[x \div 10], x % 10)
    <3>1. x \in 0 .. num
      OBVIOUS
    <3> QED
      BY <3>1, DigitsAt
  <2>3. x >= 10 => f[x \div 10] = g[x \div 10]
    BY <1>1, <1>2, Halves
  <2> QED
    BY <2>1, <2>2, <2>3
<1>3. Nat \subseteq S
  BY <1>2, AllNat
<1> QED
  BY <1>1, <1>3

LEMMA DigitsAre ==
    ASSUME NEW num \in Nat
    PROVE  Swap!Digits(num) = IF num < 10 THEN <<num>> ELSE Append(Swap!Digits(num \div 10), num % 10)
<1>1. \A k \in Nat : \E f : DigitsTo(f, k) /\ Swap!Digits(k) = f[k]
  <2> TAKE k \in Nat
  <2>1. PICK f : f = CHOOSE g : DigitsTo(g, k)
    OBVIOUS
  <2>2. DigitsTo(f, k)
    BY <2>1, DigitsThere
  <2>3. Swap!Digits(k) = f[k]
    BY <2>1 DEF Swap!Digits, DigitsTo
  <2> QED
    BY <2>2, <2>3
<1>2. PICK f : DigitsTo(f, num) /\ Swap!Digits(num) = f[num]
  BY <1>1
<1>3. f[num] = IF num < 10 THEN <<num>> ELSE Append(f[num \div 10], num % 10)
  BY <1>2, DigitsAt
<1>4. num >= 10 => f[num \div 10] = Swap!Digits(num \div 10)
  <2> SUFFICES ASSUME num >= 10 PROVE f[num \div 10] = Swap!Digits(num \div 10)
    OBVIOUS
  <2>1. PICK k \in Nat : k = num \div 10 /\ k <= num
    BY Halves
  <2>2. PICK g : DigitsTo(g, k) /\ Swap!Digits(k) = g[k]
    BY <1>1
  <2>3. f[k] = g[k]
    BY <1>2, <2>1, <2>2, DigitsAgree
  <2> QED
    BY <2>1, <2>2, <2>3
<1> QED
  BY <1>2, <1>3, <1>4
Numerals == Seq(0 .. 9) \ {<<>>}

LEMMA DigitsType == \A num \in Nat : Swap!Digits(num) \in Numerals /\ (num >= 10 => Len(Swap!Digits(num)) > 1)
<1>1. PICK S : S = {num \in Nat : Swap!Digits(num) \in Numerals}
  OBVIOUS
<1>2. ASSUME NEW num \in Nat, num >= 10, num \div 10 \in S PROVE Swap!Digits(num) \in Numerals /\ Len(Swap!Digits(num)) > 1
  <2>1. PICK q \in Nat, r \in 0 .. 9 : q = num \div 10 /\ r = num % 10
    BY Parts10
  <2>2. PICK s : s = Swap!Digits(q)
    OBVIOUS
  <2>3. s \in Seq(0 .. 9) /\ Len(s) > 0
    BY <1>1, <1>2, <2>1, <2>2 DEF Numerals
  <2>4. Append(s, r) \in Seq(0 .. 9) /\ Len(Append(s, r)) = Len(s) + 1
    BY <2>3
  <2>5. Swap!Digits(num) = Append(s, r)
    BY <1>2, <2>1, <2>2, DigitsAre
  <2> QED
    BY <2>3, <2>4, <2>5 DEF Numerals
<1>3. ASSUME NEW num \in Nat, \A k \in 0 .. num - 1 : k \in S PROVE num \in S
  <2>1. CASE num < 10
    <3>1. Swap!Digits(num) = <<num>>
      BY <2>1, DigitsAre
    <3>2. <<num>> \in Seq(0 .. 9) /\ <<num>> # <<>>
      BY <2>1
    <3> QED
      BY <1>1, <3>1, <3>2 DEF Numerals
  <2>2. CASE num >= 10
    <3>1. num \div 10 \in S
      BY <1>3, <2>2, Halves
    <3> QED
      BY <1>1, <1>2, <2>2, <3>1
  <2> QED
    BY <2>1, <2>2
<1>4. Nat \subseteq S
  BY <1>3, AllNat
<1>5. ASSUME NEW num \in Nat, num >= 10 PROVE Len(Swap!Digits(num)) > 1
  <2>1. num \div 10 \in S
    BY <1>4, <1>5, Halves
  <2> QED
    BY <1>2, <1>5, <2>1
<1> QED
  BY <1>1, <1>4, <1>5

(* The number that digits are read as.                                     *)
ReadTo(v, s, m) == v = [k \in 0 .. m |-> IF k = 0 THEN 0 ELSE v[k - 1] * 10 + s[k]]

LEMMA ReadAt ==
    ASSUME NEW v, NEW s, NEW m \in Nat, ReadTo(v, s, m)
    PROVE  v[0] = 0 /\ \A k \in 1 .. m : v[k] = v[k - 1] * 10 + s[k]
<1>1. PICK h : h = [k \in 0 .. m |-> IF k = 0 THEN 0 ELSE v[k - 1] * 10 + s[k]]
  OBVIOUS
<1>2. v = h
  BY <1>1 DEF ReadTo
<1>3. h[0] = 0 /\ \A k \in 1 .. m : h[k] = v[k - 1] * 10 + s[k]
  BY <1>1
<1> QED
  BY <1>2, <1>3

LEMMA ReadThere == ASSUME NEW s PROVE \A m \in Nat : \E v : ReadTo(v, s, m)
<1>1. PICK S : S = {m \in Nat : \E v : ReadTo(v, s, m)}
  OBVIOUS
<1>2. ASSUME NEW m \in Nat, \A k \in 0 .. m - 1 : k \in S PROVE m \in S
  <2>1. CASE m = 0
    <3>1. PICK v : v = [k \in 0 .. 0 |-> 0]
      OBVIOUS
    <3>2. ReadTo(v, s, 0)
      BY <3>1 DEF ReadTo
    <3> QED
      BY <1>1, <2>1, <3>2
  <2>2. CASE m # 0
    <3>1. m - 1 \in 0 .. m - 1 /\ m - 1 \in Nat
      BY <2>2
    <3>2. PICK v : ReadTo(v, s, m - 1)
      BY <1>1, <1>2, <3>1
    <3>3. PICK w : w = [k \in 0 .. m |-> IF k < m THEN v[k] ELSE v[k - 1] * 10 + s[k]]
      OBVIOUS
    <3>4. ASSUME NEW k \in 0 .. m PROVE w[k] = IF k = 0 THEN 0 ELSE w[k - 1] * 10 + s[k]
      <4>1. CASE k = 0
        <5>1. v[0] = 0
          BY <3>1, <3>2, ReadAt
        <5> QED
          BY <2>2, <3>3, <4>1, <5>1
      <4>2. CASE k # 0
        <5>1. w[k - 1] = v[k - 1]
          BY <3>3, <4>2
        <5>2. k = m \/ k \in 1 .. m - 1
          BY <4>2
        <5>3. k \in 1 .. m - 1 => v[k] = v[k - 1] * 10 + s[k]
          BY <3>1, <3>2, ReadAt
        <5>4. w[k] = v[k - 1] * 10 + s[k]
          BY <3>3, <5>2, <5>3
        <5> QED
          BY <4>2, <5>1, <5>4
      <4> QED
        BY <4>1, <4>2
    <3>5. ReadTo(w, s, m)
      <4>1. w = [k \in 0 .. m |-> w[k]]
        BY <3>3
      <4> QED
        BY <3>4, <4>1 DEF ReadTo
    <3> QED
      BY <1>1, <3>5
  <2> QED
    BY <2>1, <2>2
<1>3. Nat \subseteq S
  BY <1>2, AllNat
<1> QED
  BY <1>1, <1>3

(* The smaller the digits, the smaller the number.                         *)
ReadBeside(v, s, m, w, t, num, j) ==
    /\ s \in Seq(0 .. 9) /\ t \in Seq(0 .. 9) /\ m \in Nat /\ num \in Nat /\ m <= Len(s) /\ num <= Len(t)
    /\ ReadTo(v, s, m) /\ ReadTo(w, t, num) /\ j \in Nat /\ j <= m /\ j <= num /\ \A i \in 1 .. j : s[i] <= t[i]

LEMMA ReadMono ==
    ASSUME NEW s, NEW t, NEW v, NEW w, NEW m, NEW num, NEW j, ReadBeside(v, s, m, w, t, num, j)
    PROVE  v[j] \in Nat /\ w[j] \in Nat /\ v[j] <= w[j]
<1> USE DEF ReadBeside
<1>1. PICK S : S = {k \in Nat : k <= j => v[k] \in Nat /\ w[k] \in Nat /\ v[k] <= w[k]}
  OBVIOUS
<1>2. ASSUME NEW k \in Nat, \A i \in 0 .. k - 1 : i \in S PROVE k \in S
  <2> SUFFICES ASSUME k <= j PROVE v[k] \in Nat /\ w[k] \in Nat /\ v[k] <= w[k]
    BY <1>1
  <2>1. CASE k = 0
    BY <2>1, ReadAt
  <2>2. CASE k # 0
    <3>1. PICK i \in 0 .. k - 1 : i = k - 1
      BY <2>2
    <3>2. i \in S /\ i <= j /\ i \in Nat
      BY <1>2, <3>1
    <3>3. v[i] \in Nat /\ w[i] \in Nat /\ v[i] <= w[i]
      BY <1>1, <3>2
    <3>4. k \in 1 .. m /\ k \in 1 .. num /\ k \in 1 .. j /\ k \in 1 .. Len(s) /\ k \in 1 .. Len(t)
      BY <2>2
    <3>5. v[k] = v[i] * 10 + s[k] /\ w[k] = w[i] * 10 + t[k]
      BY <3>1, <3>4, ReadAt
    <3>6. s[k] \in 0 .. 9 /\ t[k] \in 0 .. 9 /\ s[k] <= t[k]
      BY <3>4
    <3>7. PICK a \in Nat, b \in Nat, c \in 0 .. 9, d \in 0 .. 9 : a = v[i] /\ b = w[i] /\ c = s[k] /\ d = t[k] /\ a <= b /\ c <= d
      BY <3>3, <3>6
    <3>8. a * 10 + c \in Nat /\ b * 10 + d \in Nat /\ a * 10 + c <= b * 10 + d
      <4>1. a <= b /\ c <= d
        BY <3>7
      <4> HIDE <3>7
      <4>2. c \in Nat /\ d \in Nat
        OBVIOUS
      <4> QED
        BY <4>1, <4>2
    <3> QED
      BY <3>5, <3>7, <3>8
  <2> QED
    BY <2>1, <2>2
<1>3. Nat \subseteq S
  BY <1>2, AllNat
<1> QED
  BY <1>1, <1>3

LEMMA NumberAt == \A s : Len(s) \in Nat => \E v : ReadTo(v, s, Len(s)) /\ Swap!Number(s) = v[Len(s)]
<1> TAKE s
<1> HAVE Len(s) \in Nat
<1>1. PICK v : v = CHOOSE w : ReadTo(w, s, Len(s))
  OBVIOUS
<1>2. ReadTo(v, s, Len(s))
  BY <1>1, ReadThere
<1>3. Swap!Number(s) = v[Len(s)]
  BY <1>1 DEF Swap!Number, ReadTo
<1> QED
  BY <1>2, <1>3

LEMMA NumberMono ==
    ASSUME NEW s \in Seq(0 .. 9), NEW t \in Seq(0 .. 9), Len(s) = Len(t), \A i \in 1 .. Len(s) : s[i] <= t[i]
    PROVE  Swap!Number(s) \in Nat /\ Swap!Number(t) \in Nat /\ Swap!Number(s) <= Swap!Number(t)
<1>1. PICK m \in Nat : m = Len(s) /\ m = Len(t)
  OBVIOUS
<1>2. PICK v : ReadTo(v, s, m) /\ Swap!Number(s) = v[m]
  BY <1>1, NumberAt
<1>3. PICK w : ReadTo(w, t, m) /\ Swap!Number(t) = w[m]
  BY <1>1, NumberAt
<1>4. \A i \in 1 .. m : s[i] <= t[i]
  BY <1>1
<1>5. v[m] \in Nat /\ w[m] \in Nat /\ v[m] <= w[m]
  <2>1. m <= m /\ m <= Len(s) /\ m <= Len(t)
    BY <1>1
  <2>2. ReadBeside(v, s, m, w, t, m, m)
    BY <1>1, <1>2, <1>3, <1>4, <2>1 DEF ReadBeside
  <2> QED
    BY <2>2, ReadMono
<1> QED
  BY <1>2, <1>3, <1>5

LEMMA NumberAppend ==
    ASSUME NEW s \in Seq(0 .. 9), NEW d \in 0 .. 9
    PROVE  Swap!Number(Append(s, d)) = Swap!Number(s) * 10 + d /\ Swap!Number(s) \in Nat
<1>1. PICK m \in Nat : m = Len(s)
  OBVIOUS
<1>2. PICK t \in Seq(0 .. 9) : t = Append(s, d) /\ Len(t) = m + 1 /\ t[m + 1] = d /\ \A i \in 1 .. m : t[i] = s[i]
  <2>1. PICK t : t = Append(s, d)
    OBVIOUS
  <2>2. t \in Seq(0 .. 9) /\ Len(t) = Len(s) + 1 /\ t[Len(s) + 1] = d /\ \A i \in 1 .. Len(s) : t[i] = s[i]
    BY <2>1, AppendProperties
  <2> QED
    BY <1>1, <2>1, <2>2
<1>3. PICK v : ReadTo(v, s, m) /\ Swap!Number(s) = v[m]
  BY <1>1, NumberAt
<1>4. PICK w : ReadTo(w, t, m + 1) /\ Swap!Number(t) = w[m + 1]
  <2>1. Len(t) \in Nat /\ Len(t) = m + 1
    BY <1>2
  <2> QED
    BY <2>1, NumberAt
<1>5. (\A i \in 1 .. m : s[i] <= t[i]) /\ (\A i \in 1 .. m : t[i] <= s[i])
  BY <1>1, <1>2
<1>6. m + 1 \in Nat /\ m <= m /\ m <= m + 1 /\ m + 1 <= Len(t) /\ m <= Len(s)
  BY <1>1, <1>2
<1>7. v[m] \in Nat /\ w[m] \in Nat /\ v[m] <= w[m]
  <2>1. ReadBeside(v, s, m, w, t, m + 1, m)
    BY <1>3, <1>4, <1>5, <1>6 DEF ReadBeside
  <2> QED
    BY <2>1, ReadMono
<1>8. w[m] <= v[m]
  <2>1. ReadBeside(w, t, m + 1, v, s, m, m)
    BY <1>3, <1>4, <1>5, <1>6 DEF ReadBeside
  <2> QED
    BY <2>1, ReadMono
<1>9. w[m + 1] = w[m] * 10 + d
  <2>1. m + 1 \in 1 .. m + 1 /\ (m + 1) - 1 = m
    OBVIOUS
  <2>2. PICK num \in Nat : num = m + 1
    OBVIOUS
  <2>3. w[num] = w[num - 1] * 10 + t[num]
    BY <1>4, <2>1, <2>2, ReadAt
  <2> QED
    BY <1>2, <2>1, <2>2, <2>3
<1>10. v[m] = w[m]
  BY <1>7, <1>8
<1> QED
  BY <1>2, <1>3, <1>4, <1>7, <1>9, <1>10

LEMMA NumberOne == ASSUME NEW d \in 0 .. 9 PROVE Swap!Number(<<d>>) = d
<1>1. <<>> \in Seq(0 .. 9) /\ Append(<<>>, d) = <<d>> /\ Len(<<>>) = 0
  OBVIOUS
<1>2. Swap!Number(<<>>) = 0
  <2>1. PICK v : ReadTo(v, <<>>, 0) /\ Swap!Number(<<>>) = v[0]
    BY <1>1, NumberAt
  <2> QED
    BY <2>1, ReadAt
<1>3. Swap!Number(Append(<<>>, d)) = Swap!Number(<<>>) * 10 + d
  BY <1>1, NumberAppend
<1> QED
  BY <1>1, <1>2, <1>3

(* A number is read from its digits.                                       *)
LEMMA DigitsRead == \A num \in Nat : Swap!Number(Swap!Digits(num)) = num
<1>1. PICK S : S = {num \in Nat : Swap!Number(Swap!Digits(num)) = num}
  OBVIOUS
<1>2. ASSUME NEW num \in Nat, \A k \in 0 .. num - 1 : k \in S PROVE num \in S
  <2>1. CASE num < 10
    <3>1. Swap!Digits(num) = <<num>>
      BY <2>1, DigitsAre
    <3>2. Swap!Number(<<num>>) = num
      BY <2>1, NumberOne
    <3> QED
      BY <1>1, <3>1, <3>2
  <2>2. CASE num >= 10
    <3>1. PICK q \in Nat, r \in 0 .. 9 : q = num \div 10 /\ r = num % 10 /\ num = q * 10 + r /\ q \in 0 .. num - 1
      BY <2>2, Parts10
    <3>2. Swap!Number(Swap!Digits(q)) = q
      BY <1>1, <1>2, <3>1
    <3>3. PICK s \in Seq(0 .. 9) : s = Swap!Digits(q)
      BY DigitsType DEF Numerals
    <3>4. Swap!Digits(num) = Append(s, r)
      BY <2>2, <3>1, <3>3, DigitsAre
    <3>5. Swap!Number(Append(s, r)) = Swap!Number(s) * 10 + r
      BY NumberAppend
    <3>6. Swap!Number(s) = q
      BY <3>2, <3>3
    <3> QED
      BY <1>1, <3>1, <3>4, <3>5, <3>6
  <2> QED
    BY <2>1, <2>2
<1>3. Nat \subseteq S
  BY <1>2, AllNat
<1> QED
  BY <1>1, <1>3
LEMMA Padding ==
    ASSUME NEW s \in Seq(0 .. 9), NEW k \in Nat
    PROVE  \E t \in Seq(0 .. 9) : /\ t = s \o Swap!Zeros(k) /\ Len(t) = Len(s) + k
                                  /\ \A i \in 1 .. Len(t) : t[i] = IF i <= Len(s) THEN s[i] ELSE 0
<1>1. PICK z \in Seq(0 .. 9) : z = Swap!Zeros(k) /\ Len(z) = k /\ \A i \in 1 .. k : z[i] = 0
  <2>1. PICK z : z = [x \in 1 .. k |-> 0]
    OBVIOUS
  <2>2. z \in [1 .. k -> 0 .. 9] /\ DOMAIN z = 1 .. k /\ \A i \in 1 .. k : z[i] = 0
    BY <2>1
  <2>3. z \in Seq(0 .. 9)
    BY <2>2, SeqDef
  <2>4. Len(z) = k
    BY <2>2, <2>3, LenProperties
  <2> QED
    BY <2>1, <2>2, <2>3, <2>4 DEF Swap!Zeros
<1>2. PICK t : t = s \o z
  OBVIOUS
<1>3. t \in Seq(0 .. 9) /\ Len(t) = Len(s) + k
  BY <1>1, <1>2, ConcatProperties
<1>4. ASSUME NEW i \in 1 .. Len(t) PROVE t[i] = IF i <= Len(s) THEN s[i] ELSE 0
  <2>1. t[i] = IF i <= Len(s) THEN s[i] ELSE z[i - Len(s)]
    BY <1>1, <1>2, <1>3, ConcatProperties
  <2>2. i > Len(s) => i - Len(s) \in 1 .. k
    BY <1>3
  <2> QED
    BY <1>1, <2>1, <2>2
<1> QED
  BY <1>1, <1>2, <1>3, <1>4

LEMMA CutIs ==
    ASSUME Prec \in Nat \ {0}, NEW ds \in Numerals
    PROVE  \E c \in Seq(0 .. 9) : c = Swap!Cut(ds) /\ Len(c) \in 1 .. Len(ds) /\ \A i \in 1 .. Len(c) : c[i] = ds[i]
<1>1. ds \in Seq(0 .. 9) /\ Len(ds) >= 1
  BY DEF Numerals
<1>2. PICK k \in 1 .. Len(ds) : k = IF Len(ds) < Prec THEN Len(ds) ELSE Prec
  BY <1>1
<1>3. PICK c : c = SubSeq(ds, 1, k)
  OBVIOUS
<1>4. c \in Seq(0 .. 9) /\ Len(c) = k /\ \A i \in 1 .. k : c[i] = ds[i]
  BY <1>1, <1>3, SubSeqProperties
<1>5. c = Swap!Cut(ds)
  BY <1>2, <1>3 DEF Swap!Cut
<1> QED
  BY <1>2, <1>4, <1>5

LEMMA Largest == ASSUME NEW T, T # {}, NEW num \in Nat, T \subseteq 1 .. num PROVE \E x \in T : \A y \in T : y <= x
<1>1. PICK R : R = {k \in Nat : \A y \in T : y <= k}
  OBVIOUS
<1>2. num \in R
  BY <1>1
<1>3. PICK k \in R : \A j \in R : k <= j
  BY <1>1, <1>2, Smallest
<1>4. k \in T
  <2> SUFFICES ASSUME k \notin T PROVE FALSE
    OBVIOUS
  <2>1. k \in Nat /\ \A y \in T : y \in 1 .. num /\ y < k
    BY <1>1
  <2>2. k - 1 \in Nat
    <3>1. PICK y \in T : y \in 1 .. num /\ y < k
      BY <2>1
    <3> QED
      BY <2>1, <3>1
  <2>3. ASSUME NEW y \in T PROVE y <= k - 1
    <3>1. y \in Nat /\ y < k
      BY <2>1
    <3> QED
      BY <2>1, <3>1
  <2>4. k - 1 \in R
    BY <1>1, <2>2, <2>3
  <2> QED
    BY <1>1, <1>3, <2>1, <2>4
<1> QED
  BY <1>1, <1>4

LEMMA StrippedIs ==
    ASSUME NEW c \in Seq(0 .. 9)
    PROVE  \E s \in Seq(0 .. 9) : /\ s = Swap!Stripped(c) /\ Len(s) <= Len(c)
                                  /\ \A i \in 1 .. Len(c) : c[i] = IF i <= Len(s) THEN s[i] ELSE 0
<1>1. PICK T : T = {x \in DOMAIN c : c[x] # 0}
  OBVIOUS
<1>7. PICK h : h = CHOOSE x \in T : \A y \in T : y <= x
  OBVIOUS
<1>2. PICK k : k = IF T = {} THEN 0 ELSE h
  OBVIOUS
<1>3. k \in 0 .. Len(c) /\ \A i \in 1 .. Len(c) : i > k => c[i] = 0
  <2>1. CASE T = {}
    BY <1>1, <1>2, <2>1
  <2>2. CASE T # {}
    <3>0. T \subseteq 1 .. Len(c) /\ Len(c) \in Nat
      BY <1>1
    <3>1. \E x \in T : \A y \in T : y <= x
      BY <2>2, <3>0, Largest
    <3>2. k \in T /\ \A y \in T : y <= k
      BY <1>2, <1>7, <2>2, <3>1
    <3> QED
      BY <1>1, <3>2
  <2> QED
    BY <2>1, <2>2
<1>4. PICK s : s = SubSeq(c, 1, k)
  OBVIOUS
<1>5. s \in Seq(0 .. 9) /\ Len(s) = k /\ \A i \in 1 .. k : s[i] = c[i]
  BY <1>3, <1>4, SubSeqProperties
<1>6. s = Swap!Stripped(c)
  BY <1>1, <1>2, <1>4, <1>7 DEF Swap!Stripped
<1> QED
  BY <1>3, <1>5, <1>6

(* Exponential notation stands for the truncated number, which is no       *)
(* larger.                                                                 *)
LEMMA ExpIs ==
    ASSUME Prec \in Nat \ {0}, NEW num \in Nat
    PROVE  Swap!ExpInt(Swap!AlwaysExp(num)) = Swap!trunc(num) /\ Len(Swap!AlwaysExp(num)) = 3
           /\ Swap!trunc(num) <= num /\ Swap!EncLen(Swap!AlwaysExp(num)) \in Nat
<1>1. PICK ds \in Numerals : ds = Swap!Digits(num)
  BY DigitsType
<1>2. PICK c \in Seq(0 .. 9) : c = Swap!Cut(ds) /\ Len(c) \in 1 .. Len(ds) /\ \A i \in 1 .. Len(c) : c[i] = ds[i]
  BY CutIs
<1>3. PICK s \in Seq(0 .. 9) : /\ s = Swap!Stripped(c) /\ Len(s) <= Len(c)
                               /\ \A i \in 1 .. Len(c) : c[i] = IF i <= Len(s) THEN s[i] ELSE 0
  BY StrippedIs
<1>4. ds \in Seq(0 .. 9)
  BY DEF Numerals
<1>5. PICK k \in Nat, j \in Nat : k = Len(ds) - Len(s) /\ j = Len(ds) - Len(c)
  <2>1. Len(ds) \in Nat /\ Len(s) \in Nat /\ Len(c) \in Nat /\ Len(c) <= Len(ds) /\ Len(s) <= Len(c)
    BY <1>2, <1>3, <1>4
  <2>2. Len(ds) - Len(s) \in Nat /\ Len(ds) - Len(c) \in Nat
    BY <2>1
  <2> QED
    BY <2>2
<1>6. PICK t \in Seq(0 .. 9) : /\ t = c \o Swap!Zeros(j) /\ Len(t) = Len(c) + j
                               /\ \A i \in 1 .. Len(t) : t[i] = IF i <= Len(c) THEN c[i] ELSE 0
  BY Padding
<1>7. PICK u \in Seq(0 .. 9) : /\ u = s \o Swap!Zeros(k) /\ Len(u) = Len(s) + k
                               /\ \A i \in 1 .. Len(u) : u[i] = IF i <= Len(s) THEN s[i] ELSE 0
  BY Padding
<1>8. Len(t) = Len(ds) /\ Len(u) = Len(ds) /\ Len(ds) \in Nat /\ Len(s) \in Nat /\ Len(c) \in Nat /\ Len(c) <= Len(ds) /\ Len(s) <= Len(c)
  <2>1. Len(ds) \in Nat /\ Len(s) \in Nat /\ Len(c) \in Nat /\ Len(c) <= Len(ds) /\ Len(s) <= Len(c)
    BY <1>2, <1>3, <1>4
  <2>2. Len(t) = Len(c) + j /\ Len(u) = Len(s) + k
    BY <1>6, <1>7
  <2>3. Len(t) = Len(ds) /\ Len(u) = Len(ds)
    BY <1>5, <2>1, <2>2
  <2> QED
    BY <2>1, <2>3
<1>9. t = u
  <2>1. ASSUME NEW i \in 1 .. Len(t) PROVE t[i] = u[i]
    <3>1. CASE i <= Len(s)
      <4>1. i \in 1 .. Len(u) /\ i \in 1 .. Len(c) /\ i <= Len(c)
        BY <1>8, <3>1
      <4> QED
        BY <1>3, <1>6, <1>7, <3>1, <4>1
    <3>2. CASE i > Len(s) /\ i <= Len(c)
      <4>1. i \in 1 .. Len(u) /\ i \in 1 .. Len(c) /\ ~(i <= Len(s))
        BY <1>8, <3>2
      <4> QED
        BY <1>3, <1>6, <1>7, <3>2, <4>1
    <3>3. CASE i > Len(c)
      <4>1. i \in 1 .. Len(u) /\ ~(i <= Len(s)) /\ ~(i <= Len(c))
        BY <1>8, <3>3
      <4> QED
        BY <1>6, <1>7, <4>1
    <3> QED
      BY <1>8, <3>1, <3>2, <3>3
  <2> QED
    BY <1>8, <2>1, SeqEqual
<1>10. Swap!trunc(num) = Swap!Number(t)
  BY <1>1, <1>2, <1>5, <1>6 DEF Swap!trunc
<1>11. Swap!trunc(num) <= num
  <2>1. ASSUME NEW i \in 1 .. Len(t) PROVE t[i] <= ds[i]
    <3>1. ds[i] \in 0 .. 9 /\ i \in 1 .. Len(ds)
      BY <1>4, <1>8
    <3>2. CASE i <= Len(c)
      <4>1. i \in 1 .. Len(c)
        BY <3>2
      <4>2. t[i] = ds[i]
        BY <1>2, <1>6, <3>2, <4>1
      <4> QED
        BY <3>1, <4>2
    <3>3. CASE ~(i <= Len(c))
      <4>1. t[i] = 0
        BY <1>6, <3>3
      <4> QED
        BY <3>1, <4>1
    <3> QED
      BY <3>2, <3>3
  <2>2. Swap!Number(t) <= Swap!Number(ds)
    BY <1>4, <1>8, <2>1, NumberMono
  <2> QED
    BY <1>1, <1>10, <2>2, DigitsRead
<1>12. PICK e : e = Swap!AlwaysExp(num)
  OBVIOUS
<1>13. e = <<s, "e", Swap!Digits(k)>>
  BY <1>1, <1>2, <1>3, <1>5, <1>12 DEF Swap!AlwaysExp
<1>14. Len(e) = 3 /\ e[1] = s /\ e[3] = Swap!Digits(k)
  BY <1>13
<1>15. Swap!Number(e[3]) = k
  BY <1>14, DigitsRead
<1>16. Swap!ExpInt(e) = Swap!Number(e[1] \o Swap!Zeros(Swap!Number(e[3])))
  BY <1>14 DEF Swap!ExpInt
<1>17. Swap!ExpInt(e) = Swap!Number(u)
  BY <1>7, <1>14, <1>15, <1>16
<1>18. Swap!EncLen(e) \in Nat
  <2>1. PICK es \in Numerals : es = Swap!Digits(k)
    BY DigitsType
  <2>2. Len(s) \in Nat /\ Len(es) \in Nat
    BY DEF Numerals
  <2>3. Swap!EncLen(e) = Len(s) + 1 + Len(es)
    BY <1>14, <2>1 DEF Swap!EncLen
  <2> QED
    BY <2>2, <2>3
<1> QED
  BY <1>9, <1>10, <1>11, <1>12, <1>14, <1>17, <1>18

(* A number is read as it was written, or as the truncated one, from no    *)
(* more characters than it has digits.                                     *)
LEMMA EncRead ==
    ASSUME Prec \in Nat \ {0}, NEW num \in Nat
    PROVE  /\ Swap!ExpInt(Swap!enc(num)) \in {num, Swap!trunc(num)} /\ Swap!trunc(num) <= num
           /\ Len(Swap!enc(num)) \in {1, 3} /\ Swap!EncLen(Swap!enc(num)) <= Len(Swap!Digits(num))
<1>1. PICK ds \in Numerals : ds = Swap!Digits(num)
  BY DigitsType
<1>2. PICK e : e = Swap!AlwaysExp(num)
  OBVIOUS
<1>3. Swap!ExpInt(e) = Swap!trunc(num) /\ Len(e) = 3 /\ Swap!trunc(num) <= num /\ Swap!EncLen(e) \in Nat
  BY <1>2, ExpIs
<1>4. Swap!enc(num) = IF Swap!EncLen(e) < Len(ds) THEN e ELSE <<ds>>
  BY <1>1, <1>2 DEF Swap!enc
<1>5. Swap!EncLen(<<ds>>) = Len(ds) /\ Len(<<ds>>) = 1 /\ <<ds>>[1] = ds /\ Len(ds) \in Nat
  BY DEF Swap!EncLen, Numerals
<1>6. Swap!ExpInt(<<ds>>) = num
  <2>1. Swap!ExpInt(<<ds>>) = Swap!Number(ds)
    BY <1>5 DEF Swap!ExpInt
  <2> QED
    BY <1>1, <2>1, DigitsRead
<1>7. CASE Swap!EncLen(e) < Len(ds)
  <2>1. Swap!enc(num) = e
    BY <1>4, <1>7
  <2> QED
    BY <1>1, <1>3, <1>7, <2>1
<1>8. CASE ~(Swap!EncLen(e) < Len(ds))
  <2>1. Swap!enc(num) = <<ds>>
    BY <1>4, <1>8
  <2>2. Swap!EncLen(Swap!enc(num)) = Len(ds) /\ Len(Swap!enc(num)) = 1 /\ Swap!ExpInt(Swap!enc(num)) = num
    BY <1>5, <1>6, <2>1
  <2> QED
    BY <1>1, <1>3, <1>5, <2>2
<1> QED
  BY <1>7, <1>8
(* Once the command line is read, the destination and the amount are the   *)
(* command's, and the memo names the destination.                          *)
NameOf(a) == Swap!memo_asset_name(a)
Names == {"", "x"} \union {NameOf(a) : a \in DOMAIN Assets}

TradeLimits == {<<>>} \union {<<num>> : num \in Nat}

CommandInv ==
    /\ job \in Swap!Commands /\ job.recv \notin Unsupported /\ (job.limit # <<>> => job.limit[1] # "bad")
    /\ to.amt = job.amt /\ memo.address = to.recv
    /\ to.mmid \in BOOLEAN /\ (to.mmid <=> to.recv[2] # "other")
    /\ gas = [n |-> gas.n, adjusted |-> gas.adjusted]

VaultInv ==
    /\ vault = [addr |-> vault.addr, token |-> vault.token, amt |-> vault.amt, left |-> vault.left, fee |-> vault.fee,
                 reduce |-> vault.reduce]
    /\ quote = [data |-> quote.data, amt |-> quote.amt]
    /\ vault.amt \in Int /\ vault.left \in Int /\ vault.fee \in Nat /\ quote.amt \in Int

(* The first quote is for what is asked for, another before the file is    *)
(* made for what is sent, and that of a replacement for what the original  *)
(* sends, as the vault's output has it until the fee is known.             *)
Paying == Swap!AmountsRight(vault)
AskedFirst ==
    /\ after = "fee" /\ tx = <<>> /\ vault.reduce = "none"
    /\ vault.amt = to.amt /\ vault.left = 0 /\ vault.fee = 0 /\ quote.amt = IF to.amt = 0 THEN Funds ELSE to.amt
NewPaying == tx = <<>> /\ vault.reduce = "none" /\ Paying
AskedAgain == after = "serialize" /\ NewPaying
Balanced == ~Swap!is_vm(job.send) => vault.amt + vault.left + vault.fee = Funds
Bumping ==
    /\ after = "bumpfee" /\ vault.reduce \in {"vault", "change"} /\ Balanced
    /\ quote.amt = vault.amt /\ tx.vault.amt = vault.amt /\ tx.vault.left = vault.left /\ tx.vault.fee = vault.fee
Replacing == after = "bumpfee" /\ Swap!Replaces(vault, tx.vault)

(* The terms of the latest quote.                                          *)
TermsInv ==
    /\ Assets[job.send].coin # "RUNE" => (IF Swap!IsToken(job.send) THEN vault.token ELSE vault.addr) = quote.data.vault
    /\ expiry = quote.data.expiry /\ limit \in TradeLimits /\ memo = Swap!Memo(to.recv, limit)
    /\ Swap!is_evm(job.send) /\ ~Swap!IsToken(job.send) => gas.n = Swap!MemoLen(memo)

(* What is in the file is what was quoted, but for what was altered.       *)
SwapFileInv ==
    /\ tx = [memo |-> tx.memo, vault |-> tx.vault, expiry |-> tx.expiry, gas |-> tx.gas, swap |-> tx.swap,
             spec |-> tx.spec, mmid |-> tx.mmid, faults |-> tx.faults]
    /\ tx.faults \in {0, 1} /\ tx.swap \in BOOLEAN
    /\ tx.swap =>
        /\ tx.vault = vault /\ tx.expiry = expiry /\ tx.gas = gas.n
        /\ tx.memo = [memo EXCEPT !.asset = tx.memo.asset]
        /\ tx.memo.asset \in Names
        /\ tx.spec \in DOMAIN Assets
        /\ tx.faults = 0 => tx.memo = memo /\ tx.spec = job.recv /\ tx.mmid = to.mmid

Ended == {"int", "args", "died", "quit", "crashed"}

SwapInv ==
    /\ step = "int" => job.n \in Nat
    /\ step = "args" => job \in Swap!Commands
    /\ step \in {"args", "inputs"} => tx = <<>>
    /\ step \in Ended \/ step \in {"inputs", "quote", "look", "fee", "check", "bumpfee", "serialize", "made", "signed", "refused"}
    /\ step \notin Ended => CommandInv
    /\ step \notin Ended \union {"inputs"} => VaultInv
    /\ step = "look" => limit \in TradeLimits
    /\ step \in {"quote", "look"} => AskedFirst \/ AskedAgain \/ Bumping
    /\ step = "fee" => AskedFirst
    /\ step = "check" => NewPaying
    /\ step = "bumpfee" => Bumping
    /\ step = "serialize" => Paying /\ (AskedAgain \/ Replacing)
    /\ step \in {"made", "signed", "refused"} => Paying /\ SwapFileInv
    /\ step \notin Ended \union {"inputs", "quote", "look"} => TermsInv
    /\ step = "signed" /\ tx.swap => Swap!check_swap_memo(tx)
    /\ step = "refused" => tx.swap /\ ~Swap!check_swap_memo(tx)

LEMMA MemoIs ==
    ASSUME NEW addr, NEW tl
    PROVE  Swap!Memo(addr, tl) = [function |-> "=", asset |-> NameOf(job.recv), address |-> addr,
              limit |-> Swap!enc(IF tl = <<>> THEN 0 ELSE tl[1]), interval |-> job.interval, quantity |-> 0]
BY DEF Swap!Memo, NameOf, Swap!NoLimit, Swap!set_stream_interval

LEMMA FirstSwap == ASSUME Swap!SwapAssumption, Swap!Init PROVE SwapInv
<1>1. job \in SwapJobs /\ tx = <<>> /\ step = IF job.kind = "int" THEN "int" ELSE "args"
  BY DEF Swap!Init
<1>2. IF job.kind = "int" THEN job.n \in Nat ELSE job \in Swap!Commands
  BY <1>1 DEF Swap!SwapAssumption
<1> QED
  BY <1>1, <1>2 DEF SwapInv, Ended

LEMMA ArgsStep == ASSUME Swap!SwapAssumption, SwapInv, Swap!process_swap_cmdline_args PROVE SwapInv'
<1>1. step = "args" /\ tx = <<>> /\ job \in Swap!Commands /\ UNCHANGED <<job, vault, quote, expiry, limit, time, after, tx>>
  BY DEF Swap!process_swap_cmdline_args, SwapInv
<1>2. CASE step' \in {"died", "quit", "crashed"}
  BY <1>2 DEF SwapInv, Ended
<1>3. CASE step' \notin {"died", "quit", "crashed"}
  <2>1. PICK chg : chg = IF Swap!WithChange THEN Swap!get_swap_output(job.send, job.chg) ELSE {<<<<>>, TRUE>>}
    OBVIOUS
  <2>2. PICK dest : dest = Swap!get_swap_output(job.recv, job.to)
    OBVIOUS
  <2>3. PICK tl : tl = IF job.limit # <<>> /\ job.limit[1] = "abs" THEN <<job.limit[2]>> ELSE Swap!NoLimit
    OBVIOUS
  <2>4. /\ {job.send, job.recv} \intersect Unsupported = {} /\ Swap!ConfigOk
        /\ \E x \in chg, y \in dest :
              /\ to' = [amt |-> IF Swap!All THEN 0 ELSE job.amt, chg |-> x[1], recv |-> y[1], mmid |-> y[2]]
              /\ memo' = Swap!Memo(y[1], tl) /\ gas' = [n |-> Swap!MemoLen(memo'), adjusted |-> FALSE] /\ step' = "inputs"
    BY <1>3, <2>1, <2>2, <2>3 DEF Swap!process_swap_cmdline_args, Swap!Goes
  <2>5. PICK y \in dest : /\ \E c : to' = [amt |-> IF Swap!All THEN 0 ELSE job.amt, chg |-> c, recv |-> y[1], mmid |-> y[2]]
                          /\ memo' = Swap!Memo(y[1], tl) /\ gas' = [n |-> Swap!MemoLen(memo'), adjusted |-> FALSE] /\ step' = "inputs"
    BY <2>4
  <2>6. to'.amt = job.amt /\ to'.recv = y[1] /\ to'.mmid = y[2]
    BY <2>5 DEF Swap!All
  <2>7. y[2] \in BOOLEAN /\ (y[2] <=> y[1][2] # "other")
    <3>1. \/ y = <<<<job.recv, "auto">>, TRUE>> \/ y = <<<<job.recv, "own">>, TRUE>> \/ y = <<<<job.recv, "other">>, FALSE>>
      <4>1. dest \in {{<<Swap!Chosen(job.recv), TRUE>>}, {}, {<<<<job.recv, "own">>, TRUE>>}, {<<<<job.recv, "other">>, FALSE>>}}
        BY <2>2 DEF Swap!get_swap_output, Swap!SwapOutputs
      <4> QED
        BY <4>1 DEF Swap!Chosen
    <3>2. CASE y = <<<<job.recv, "auto">>, TRUE>>
      <4>1. y[1][2] = "auto" /\ y[2] = TRUE
        BY <3>2
      <4> QED
        BY <4>1
    <3>3. CASE y = <<<<job.recv, "own">>, TRUE>>
      <4>1. y[1][2] = "own" /\ y[2] = TRUE
        BY <3>3
      <4> QED
        BY <4>1
    <3>4. CASE y = <<<<job.recv, "other">>, FALSE>>
      <4>1. y[1][2] = "other" /\ y[2] = FALSE
        BY <3>4
      <4> QED
        BY <4>1
    <3> QED
      BY <3>1, <3>2, <3>3, <3>4
  <2>8. memo'.address = y[1]
    BY <2>5, MemoIs
  <2>9. CommandInv'
    BY <1>1, <2>4, <2>5, <2>6, <2>7, <2>8 DEF CommandInv, Swap!ConfigOk
  <2> QED
    BY <1>1, <2>5, <2>9 DEF SwapInv, Ended
<1> QED
  BY <1>2, <1>3

(* What a file pays goes by amounts alone.                                 *)
LEMMA PayingStays ==
    ASSUME Paying, UNCHANGED to, job'.send = job.send, quote'.amt = quote.amt, vault'.amt = vault.amt, vault'.left = vault.left,
           vault'.fee = vault.fee, vault'.reduce = vault.reduce
    PROVE  Paying'
<1>1. (Swap!is_vm(job.send))' = Swap!is_vm(job.send)
  BY DEF Swap!is_vm, Swap!is_evm
<1> QED
  BY <1>1 DEF Paying, Swap!AmountsRight

LEMMA BumpingStays ==
    ASSUME Bumping, UNCHANGED <<tx, after>>, job'.send = job.send, quote'.amt = quote.amt, vault'.amt = vault.amt,
           vault'.left = vault.left, vault'.fee = vault.fee, vault'.reduce = vault.reduce
    PROVE  Bumping'
<1>1. (Swap!is_vm(job.send))' = Swap!is_vm(job.send)
  BY DEF Swap!is_vm, Swap!is_evm
<1> QED
  BY <1>1 DEF Bumping, Balanced

(* So does what a quote is asked for.                                      *)
LEMMA AskedStays ==
    ASSUME UNCHANGED <<to, tx, after>>, job'.send = job.send, quote'.amt = quote.amt, vault'.amt = vault.amt,
           vault'.left = vault.left, vault'.fee = vault.fee, vault'.reduce = vault.reduce
    PROVE  /\ AskedFirst => AskedFirst'
           /\ AskedAgain => AskedAgain'
           /\ Bumping => Bumping'
<1>1. AskedFirst => AskedFirst'
  BY DEF AskedFirst
<1>2. AskedAgain => AskedAgain'
  BY PayingStays DEF AskedAgain, NewPaying
<1> QED
  BY <1>1, <1>2, BumpingStays

LEMMA InputsStep == ASSUME Swap!SwapAssumption, SwapInv, Swap!get_inputs PROVE SwapInv'
<1>1. step = "inputs" /\ tx = <<>> /\ CommandInv /\ UNCHANGED <<job, to, memo, expiry, limit, gas, time, tx>> /\ to.amt < Funds
  BY DEF Swap!get_inputs, SwapInv, Ended
<1>2. /\ vault' = [addr |-> <<>>, token |-> <<>>, amt |-> to.amt, left |-> 0, fee |-> 0, reduce |-> "none"]
      /\ quote' = [data |-> <<>>, amt |-> IF Swap!All THEN Funds ELSE to.amt] /\ after' = "fee" /\ step' = "quote"
  BY DEF Swap!get_inputs, Swap!Goes
<1>3. CommandInv'
  BY <1>1 DEF CommandInv
<1>4. to.amt \in Nat /\ Funds \in Nat /\ (Swap!All <=> to.amt = 0)
  BY <1>1 DEF CommandInv, Swap!Commands, Swap!SwapAssumption, Swap!All
<1>5. PICK num \in Nat : num = IF to.amt = 0 THEN Funds ELSE to.amt
  BY <1>4
<1>6. quote' = [data |-> <<>>, amt |-> num]
  BY <1>2, <1>4, <1>5
<1>7. VaultInv'
  BY <1>2, <1>4, <1>6 DEF VaultInv
<1>8. AskedFirst'
  BY <1>1, <1>2, <1>5, <1>6 DEF AskedFirst
<1> QED
  BY <1>2, <1>3, <1>7, <1>8 DEF SwapInv, Ended

(* A quote's limit is a number or none.                                    *)
LEMMA QuoteStep == ASSUME Swap!SwapAssumption, SwapInv, Swap!get_quote PROVE SwapInv'
<1>1. step = "quote" /\ CommandInv /\ VaultInv /\ (AskedFirst \/ AskedAgain \/ Bumping) /\ UNCHANGED <<job, to, memo, vault, expiry, after, tx>>
  BY DEF Swap!get_quote, SwapInv, Ended
<1>2. CASE step' = "died"
  BY <1>2 DEF SwapInv, Ended
<1>3. CASE step' # "died"
  <2>1. PICK q \in Swap!Quotes :
          /\ quote' = [quote EXCEPT !.data = q] /\ limit' = Swap!get_trade_limit(q)
          /\ gas' = Swap!adj_gas_with_extra_data_len(limit') /\ step' = "look"
    BY <1>3 DEF Swap!get_quote, Swap!Goes
  <2>2. q.out \in Nat
    <3>1. \/ \E o \in Outs, l \in {1, 2} : q = Swap!Quote(o, l)
          \/ \E o \in Outs, l \in {1, 2}, p \in Outs, m \in {1, 2} : q = Swap!Joined(Swap!Quote(o, l), Swap!Quote(p, m))
      BY <2>1 DEF Swap!Quotes
    <3>2. ASSUME NEW o, NEW l, NEW p, NEW m PROVE Swap!Quote(o, l).out = o /\ Swap!Joined(Swap!Quote(o, l), Swap!Quote(p, m)).out = p
      BY DEF Swap!Quote, Swap!Joined
    <3>3. \E o \in Outs : q.out = o
      BY <3>1, <3>2
    <3> QED
      BY <3>3 DEF Swap!SwapAssumption
  <2>3. limit' \in TradeLimits
    <3>1. CASE job.limit = <<>>
      BY <2>1, <3>1 DEF Swap!get_trade_limit, Swap!NoLimit, TradeLimits
    <3>2. CASE job.limit # <<>>
      <4>1. PICK l : l = job.limit
        OBVIOUS
      <4>2. l \in {<<>>} \union ({"abs"} \X Nat) \union ({"pct"} \X {x \in Int : x <= 100}) \union ({"bad"} \X Int)
            /\ l # <<>> /\ l[1] # "bad"
        BY <1>1, <3>2, <4>1 DEF CommandInv, Swap!Commands
      <4>3. PICK num \in Nat : limit' = <<num>>
        <5>1. CASE l \in {"abs"} \X Nat
          <6>1. l[1] = "abs" /\ l[2] \in Nat
            BY <5>1
          <6>2. limit' = <<l[2]>>
            BY <2>1, <3>2, <4>1, <6>1 DEF Swap!get_trade_limit
          <6> QED
            BY <6>1, <6>2
        <5>2. CASE l \in {"pct"} \X {x \in Int : x <= 100}
          <6>1. l[1] = "pct" /\ l[2] \in {x \in Int : x <= 100}
            BY <5>2
          <6>2. PICK k \in Nat : k = 100 - l[2]
            BY <6>1
          <6>3. PICK z \in Nat : z = q.out * k
            BY <2>2
          <6>4. PICK num \in Nat : num = z \div 100
            OBVIOUS
          <6>5. limit' = <<(q.out * (100 - l[2])) \div 100>>
            BY <2>1, <3>2, <4>1, <6>1 DEF Swap!get_trade_limit
          <6> QED
            BY <6>2, <6>3, <6>4, <6>5
        <5> QED
          BY <4>2, <5>1, <5>2
      <4> QED
        BY <4>3 DEF TradeLimits
    <3> QED
      BY <3>1, <3>2
  <2>4. VaultInv' /\ quote'.amt = quote.amt
    BY <1>1, <2>1 DEF VaultInv
  <2>7. (AskedFirst \/ AskedAgain \/ Bumping)'
    BY <1>1, <2>4, AskedStays
  <2>5. gas' = [n |-> gas'.n, adjusted |-> gas'.adjusted]
    BY <1>1, <2>1 DEF CommandInv, Swap!adj_gas_with_extra_data_len
  <2>6. CommandInv'
    BY <1>1, <2>5 DEF CommandInv
  <2> QED
    BY <1>1, <2>1, <2>3, <2>4, <2>6, <2>7 DEF SwapInv, Ended
<1> QED
  BY <1>2, <1>3
LEMMA LookStep == ASSUME Swap!SwapAssumption, SwapInv, Swap!update_vault_output PROVE SwapInv'
<1>1. /\ step = "look" /\ CommandInv /\ VaultInv /\ limit \in TradeLimits /\ (AskedFirst \/ AskedAgain \/ Bumping)
      /\ UNCHANGED <<job, to, quote, limit, time, after, tx>>
  BY DEF Swap!update_vault_output, SwapInv, Ended
<1>2. CASE step' = "quote" /\ UNCHANGED <<memo, vault, expiry, gas>>
  <2>1. CommandInv' /\ VaultInv'
    BY <1>1, <1>2 DEF CommandInv, VaultInv
  <2>2. (AskedFirst \/ AskedAgain \/ Bumping)'
    BY <1>1, <1>2, AskedStays
  <2> QED
    BY <1>2, <2>1, <2>2 DEF SwapInv, Ended
<1>3. CASE ~(step' = "quote" /\ UNCHANGED <<memo, vault, expiry, gas>>)
  <2>1. /\ expiry' = quote.data.expiry /\ vault' = Swap!update_vault_addr(quote.data)
        /\ memo' = Swap!Memo(memo.address, limit) /\ gas' = Swap!set_gas_with_data(memo') /\ step' = after
    BY <1>3 DEF Swap!update_vault_output, Swap!Goes, Swap!update_data_output
  <2>2. memo' = Swap!Memo(to.recv, limit) /\ memo'.address = to.recv
    BY <1>1, <2>1, MemoIs DEF CommandInv
  <2>3. vault' = [addr |-> vault'.addr, token |-> vault'.token, amt |-> vault.amt, left |-> vault.left, fee |-> vault.fee,
                 reduce |-> vault.reduce]
    BY <1>1, <2>1 DEF VaultInv, Swap!update_vault_addr
  <2>4. Assets[job.send].coin # "RUNE" => (IF Swap!IsToken(job.send) THEN vault'.token ELSE vault'.addr) = quote.data.vault
    BY <1>1, <2>1 DEF VaultInv, Swap!update_vault_addr
  <2>5. gas' = [n |-> gas'.n, adjusted |-> gas'.adjusted]
    BY <1>1, <2>1 DEF CommandInv, Swap!set_gas_with_data
  <2>6. Swap!is_evm(job.send) /\ ~Swap!IsToken(job.send) => gas'.n = Swap!MemoLen(memo')
    BY <1>1, <2>1 DEF CommandInv, Swap!set_gas_with_data
  <2>7. CommandInv'
    BY <1>1, <2>2, <2>5 DEF CommandInv
  <2>8. vault'.amt = vault.amt /\ vault'.left = vault.left /\ vault'.fee = vault.fee /\ vault'.reduce = vault.reduce
    BY <2>3
  <2>9. VaultInv'
    BY <1>1, <2>3, <2>8 DEF VaultInv
  <2>10. (Swap!IsToken(job.send))' = Swap!IsToken(job.send) /\ (Swap!is_evm(job.send))' = Swap!is_evm(job.send)
    BY <1>1 DEF Swap!IsToken, Swap!is_evm
  <2>11. (Swap!Memo(to.recv, limit))' = Swap!Memo(to.recv, limit) /\ (Swap!MemoLen(memo))' = Swap!MemoLen(memo')
    BY <1>1 DEF Swap!Memo, Swap!MemoLen, Swap!set_stream_interval
  <2>12. TermsInv'
    BY <1>1, <2>1, <2>2, <2>4, <2>6, <2>10, <2>11 DEF TermsInv
  <2>13. (AskedFirst => AskedFirst') /\ (AskedAgain => AskedAgain') /\ (Bumping => Bumping')
    BY <1>1, <2>8, AskedStays
  <2>14. CASE AskedFirst
    BY <1>1, <2>1, <2>7, <2>9, <2>12, <2>13, <2>14 DEF SwapInv, Ended, AskedFirst
  <2>15. CASE AskedAgain
    BY <1>1, <2>1, <2>7, <2>9, <2>12, <2>13, <2>15 DEF SwapInv, Ended, AskedAgain, NewPaying
  <2>16. CASE Bumping
    BY <1>1, <2>1, <2>7, <2>9, <2>12, <2>13, <2>16 DEF SwapInv, Ended, Bumping
  <2> QED
    BY <1>1, <2>14, <2>15, <2>16
<1> QED
  BY <1>2, <1>3

(* What is left when a step changes no terms.                              *)
LEMMA TermsStay == ASSUME TermsInv, UNCHANGED <<job, to, memo, expiry, limit, gas>>, quote'.data = quote.data,
                          vault'.addr = vault.addr, vault'.token = vault.token
                   PROVE  TermsInv'
<1>1. (Swap!IsToken(job.send))' = Swap!IsToken(job.send) /\ (Swap!is_evm(job.send))' = Swap!is_evm(job.send)
  BY DEF Swap!IsToken, Swap!is_evm
<1>2. (Swap!Memo(to.recv, limit))' = Swap!Memo(to.recv, limit) /\ (Swap!MemoLen(memo))' = Swap!MemoLen(memo)
  BY DEF Swap!Memo, Swap!MemoLen, Swap!set_stream_interval
<1> QED
  BY <1>1, <1>2 DEF TermsInv

LEMMA FeeStep == ASSUME Swap!SwapAssumption, SwapInv, Swap!get_fee PROVE SwapInv'
<1>1. /\ step = "fee" /\ AskedFirst /\ CommandInv /\ VaultInv /\ TermsInv
      /\ UNCHANGED <<job, to, memo, expiry, limit, gas, time, after, tx, quote>>
  BY DEF Swap!get_fee, SwapInv, Ended
<1>2. CommandInv'
  BY <1>1 DEF CommandInv
<1>3. CASE vault' = vault /\ step' = "inputs"
  BY <1>1, <1>2, <1>3 DEF SwapInv, Ended, AskedFirst
<1>4. CASE ~(vault' = vault /\ step' = "inputs")
  <2>1. PICK f \in SwapFees :
          /\ to.amt + f <= Funds /\ step' = "check"
          /\ vault' = [vault EXCEPT !.fee = f, !.amt = IF Swap!All THEN Funds - f ELSE @,
                                    !.left = IF Swap!WithChange THEN Funds - to.amt - f ELSE 0]
    BY <1>4 DEF Swap!get_fee, Swap!Goes
  <2>2. vault' = [addr |-> vault.addr, token |-> vault.token, amt |-> IF Swap!All THEN Funds - f ELSE vault.amt,
                  left |-> IF Swap!WithChange THEN Funds - to.amt - f ELSE 0, fee |-> f, reduce |-> vault.reduce]
    BY <1>1, <2>1 DEF VaultInv
  <2>3. f \in Nat /\ Funds \in Nat /\ to.amt \in Nat /\ (Swap!All <=> to.amt = 0)
    BY <1>1 DEF CommandInv, Swap!Commands, Swap!SwapAssumption, Swap!All
  <2>4. /\ vault'.amt = IF to.amt = 0 THEN Funds - f ELSE to.amt
        /\ vault'.left = IF Swap!WithChange THEN Funds - to.amt - f ELSE 0
        /\ vault'.fee = f /\ vault'.reduce = "none" /\ vault'.addr = vault.addr /\ vault'.token = vault.token
    BY <1>1, <2>2, <2>3 DEF AskedFirst
  <2>5. Swap!WithChange <=> to.amt # 0 /\ ~Swap!is_vm(job.send)
    BY <2>3 DEF Swap!WithChange
  <2>6. vault'.amt \in Int /\ vault'.left \in Int
    <3>1. vault'.amt = Funds - f \/ vault'.amt = to.amt
      BY <2>4
    <3>2. vault'.left = Funds - to.amt - f \/ vault'.left = 0
      BY <2>4
    <3> QED
      BY <2>3, <3>1, <3>2
  <2>7. VaultInv'
    BY <1>1, <2>2, <2>3, <2>4, <2>6 DEF VaultInv
  <2>8. vault'.amt <= quote.amt /\ (~Swap!is_vm(job.send) => vault'.amt + vault'.left + f = Funds)
    <3>1. CASE to.amt = 0
      <4>1. vault'.amt = Funds - f /\ vault'.left = 0 /\ quote.amt = Funds
        BY <1>1, <2>4, <2>5, <3>1 DEF AskedFirst
      <4> QED
        BY <2>3, <4>1
    <3>2. CASE to.amt # 0
      <4>1. vault'.amt = to.amt /\ quote.amt = to.amt /\ (~Swap!is_vm(job.send) => vault'.left = Funds - to.amt - f)
        BY <1>1, <2>4, <2>5, <3>2 DEF AskedFirst
      <4> QED
        BY <2>3, <4>1
    <3> QED
      BY <3>1, <3>2
  <2>9. (Swap!is_vm(job.send))' = Swap!is_vm(job.send)
    BY <1>1 DEF Swap!is_vm, Swap!is_evm
  <2>10. Paying'
    BY <1>1, <2>4, <2>8, <2>9 DEF Paying, Swap!AmountsRight
  <2>11. NewPaying'
    BY <1>1, <2>4, <2>10 DEF NewPaying, AskedFirst
  <2>12. TermsInv'
    BY <1>1, <2>4, TermsStay
  <2> QED
    BY <1>2, <2>1, <2>7, <2>11, <2>12 DEF SwapInv, Ended
<1> QED
  BY <1>3, <1>4

LEMMA AgeStep == ASSUME Swap!SwapAssumption, SwapInv, Swap!check_age PROVE SwapInv'
<1>1. /\ step = "check" /\ NewPaying /\ CommandInv /\ VaultInv /\ TermsInv /\ after' = "serialize"
      /\ UNCHANGED <<job, to, memo, vault, expiry, limit, gas, time, tx>>
  BY DEF Swap!check_age, SwapInv, Ended
<1>2. \/ step' = "quote" /\ quote' = [quote EXCEPT !.amt = vault.amt]
      \/ step' = "serialize" /\ quote' = quote
  BY DEF Swap!check_age, Swap!Goes
<1>3. CommandInv'
  BY <1>1 DEF CommandInv
<1>4. CASE step' = "quote" /\ quote' = [quote EXCEPT !.amt = vault.amt]
  <2>1. quote' = [data |-> quote.data, amt |-> vault.amt]
    BY <1>1, <1>4 DEF VaultInv
  <2>2. VaultInv'
    BY <1>1, <2>1 DEF VaultInv
  <2>3. (Swap!is_vm(job.send))' = Swap!is_vm(job.send)
    BY <1>1 DEF Swap!is_vm, Swap!is_evm
  <2>4. vault.amt <= vault.amt
    BY <1>1 DEF VaultInv
  <2>5. Paying'
    BY <1>1, <2>1, <2>3, <2>4 DEF NewPaying, Paying, Swap!AmountsRight
  <2>6. AskedAgain'
    BY <1>1, <2>5 DEF AskedAgain, NewPaying
  <2> QED
    BY <1>3, <1>4, <2>2, <2>6 DEF SwapInv, Ended
<1>5. CASE step' = "serialize" /\ quote' = quote
  <2>1. VaultInv'
    BY <1>1, <1>5 DEF VaultInv
  <2>2. TermsInv'
    BY <1>1, <1>5, TermsStay
  <2>3. Paying'
    BY <1>1, <1>5, PayingStays DEF NewPaying
  <2>4. AskedAgain'
    BY <1>1, <2>3 DEF AskedAgain, NewPaying
  <2> QED
    BY <1>3, <1>5, <2>1, <2>2, <2>3, <2>4 DEF SwapInv, Ended
<1> QED
  BY <1>2, <1>4, <1>5

LEMMA SerializeStep == ASSUME Swap!SwapAssumption, SwapInv, Swap!create_serialized PROVE SwapInv'
<1>1. /\ step = "serialize" /\ Paying /\ CommandInv /\ VaultInv /\ TermsInv
      /\ UNCHANGED <<job, to, memo, vault, quote, expiry, limit, gas, time, after>>
  BY DEF Swap!create_serialized, SwapInv, Ended
<1>2. /\ tx' = [memo |-> memo, vault |-> vault, expiry |-> expiry, gas |-> gas.n, swap |-> TRUE,
              spec |-> job.recv, mmid |-> to.mmid, faults |-> 0]
      /\ step' = "made"
  BY DEF Swap!create_serialized, Swap!Goes
<1>3. CommandInv' /\ VaultInv'
  BY <1>1 DEF CommandInv, VaultInv
<1>4. TermsInv' /\ Paying'
  BY <1>1, TermsStay, PayingStays
<1>5. memo = [memo EXCEPT !.asset = memo.asset] /\ memo.asset = NameOf(job.recv)
  BY <1>1, MemoIs DEF TermsInv
<1>6. job.recv \in DOMAIN Assets
  BY <1>1 DEF CommandInv, Swap!Commands
<1>7. (NameOf(job.recv))' = NameOf(job.recv) /\ Names' = Names /\ NameOf(job.recv) \in Names
  BY <1>1, <1>6 DEF NameOf, Names, Swap!memo_asset_name
<1>8. SwapFileInv'
  BY <1>1, <1>2, <1>5, <1>6, <1>7 DEF SwapFileInv
<1> QED
  BY <1>2, <1>3, <1>4, <1>8 DEF SwapInv, Ended

(* Nothing here depends on the time.                                       *)
LEMMA SwapStays == ASSUME SwapInv, UNCHANGED <<job, step, to, memo, vault, quote, expiry, limit, gas, after, tx>> PROVE SwapInv'
<1>1. CommandInv' = CommandInv /\ VaultInv' = VaultInv
  BY DEF CommandInv, VaultInv
<1>2. (Swap!is_vm(job.send))' = Swap!is_vm(job.send)
  BY DEF Swap!is_vm, Swap!is_evm
<1>3. Paying' = Paying /\ Bumping' = Bumping /\ Replacing' = Replacing
  BY <1>2 DEF Paying, Bumping, Balanced, Replacing, Swap!AmountsRight, Swap!Replaces
<1>4. AskedFirst' = AskedFirst /\ NewPaying' = NewPaying /\ AskedAgain' = AskedAgain
  BY <1>3 DEF AskedFirst, NewPaying, AskedAgain
<1>5. TermsInv => TermsInv'
  BY TermsStay
<1>6. SwapFileInv' = SwapFileInv
  BY DEF SwapFileInv, Names, NameOf, Swap!memo_asset_name
<1>7. (Swap!check_swap_memo(tx))' = Swap!check_swap_memo(tx)
  BY DEF Swap!check_swap_memo, Swap!Parse, Swap!init_from_memo, Swap!Named, Swap!ExpInt
<1>8. (job \in Swap!Commands)' = (job \in Swap!Commands)
  BY DEF Swap!Commands
<1> QED
  BY <1>1, <1>3, <1>4, <1>5, <1>6, <1>7, <1>8 DEF SwapInv, Ended

LEMMA TickStep == ASSUME SwapInv, Swap!Tick PROVE SwapInv'
BY SwapStays DEF Swap!Tick

(* What an asset is called tells it from all others.                       *)
LEMMA NameRead ==
    ASSUME Swap!SwapAssumption
    PROVE  /\ \A a \in DOMAIN Assets : NameOf(a) # "" /\ NameOf(a) # "x" /\ Swap!init_from_memo(NameOf(a)) = a
           /\ \A s : Swap!init_from_memo(s) # "" => Swap!init_from_memo(s) \in DOMAIN Assets
           /\ \A s \in Names :
                Swap!init_from_memo(s) # "" => s = NameOf(Swap!init_from_memo(s))
<1>1. \A a \in DOMAIN Assets : NameOf(a) # "" /\ NameOf(a) \in {Assets[a].abbr, Assets[a].full} /\ a # ""
  <2> TAKE a \in DOMAIN Assets
  <2>1. {Assets[a].abbr, Assets[a].full} # {""} /\ a # ""
    BY DEF Swap!SwapAssumption
  <2>2. Assets[a].abbr # "" \/ Assets[a].full # ""
    BY <2>1
  <2> QED
    BY <2>1, <2>2 DEF NameOf, Swap!memo_asset_name
<1>2. \A s : \A a, b \in DOMAIN Assets : s # "" /\ s \in {Assets[a].abbr, Assets[a].full} /\ s \in {Assets[b].abbr, Assets[b].full} => a = b
  BY DEF Swap!SwapAssumption
<1>3. ASSUME NEW s PROVE /\ Swap!init_from_memo(s) # "" => /\ Swap!init_from_memo(s) \in DOMAIN Assets
                                                           /\ s # "" /\ s \in {Assets[Swap!init_from_memo(s)].abbr, Assets[Swap!init_from_memo(s)].full}
                         /\ \A a \in DOMAIN Assets : s # "" /\ s \in {Assets[a].abbr, Assets[a].full} => Swap!init_from_memo(s) = a
  <2>1. \A a : a \in Swap!Named(s) <=> a \in DOMAIN Assets /\ s # "" /\ s \in {Assets[a].abbr, Assets[a].full}
    BY DEF Swap!Named
  <2>2. PICK h : h = CHOOSE a \in Swap!Named(s) : TRUE
    OBVIOUS
  <2>3. Swap!init_from_memo(s) = IF Swap!Named(s) = {} THEN "" ELSE h
    BY <2>2 DEF Swap!init_from_memo
  <2>4. Swap!Named(s) # {} => h \in Swap!Named(s)
    BY <2>2
  <2> QED
    BY <1>2, <2>1, <2>3, <2>4
<1>4. \A a \in DOMAIN Assets : Swap!init_from_memo(NameOf(a)) = a
  BY <1>1, <1>3
<1>5. \A a \in DOMAIN Assets : NameOf(a) # "x"
  BY <1>1 DEF Swap!SwapAssumption
<1>6. ASSUME NEW s \in Names, Swap!init_from_memo(s) # ""
      PROVE  s = NameOf(Swap!init_from_memo(s))
  <2>1. CASE s \in {"", "x"}
    <3>1. s # "" /\ \E a \in DOMAIN Assets : s \in {Assets[a].abbr, Assets[a].full}
      BY <1>3, <1>6
    <3> QED
      BY <2>1, <3>1 DEF Swap!SwapAssumption
  <2>2. CASE \E b \in DOMAIN Assets : s = NameOf(b)
    BY <1>4, <2>2
  <2> QED
    BY <2>1, <2>2 DEF Names
<1> QED
  BY <1>1, <1>3, <1>4, <1>5, <1>6

LEMMA AlterStep == ASSUME SwapInv, Swap!Alter PROVE SwapInv'
<1>1. /\ step = "made" /\ tx.swap /\ tx.faults = 0 /\ Paying /\ CommandInv /\ VaultInv /\ TermsInv /\ SwapFileInv
      /\ UNCHANGED <<job, step, to, memo, vault, quote, expiry, limit, gas, time, after>>
  BY DEF Swap!Alter, SwapInv, Ended
<1>2. CommandInv' /\ VaultInv'
  BY <1>1 DEF CommandInv, VaultInv
<1>3. TermsInv' /\ Paying'
  BY <1>1, TermsStay, PayingStays
<1>4. Names' = Names
  BY DEF Names, NameOf, Swap!memo_asset_name
<1>5. memo = [function |-> memo.function, asset |-> memo.asset, address |-> memo.address, limit |-> memo.limit,
              interval |-> memo.interval, quantity |-> memo.quantity]
  BY <1>1, MemoIs DEF TermsInv
<1>6. \/ \E s \in Names : tx' = [tx EXCEPT !.memo.asset = s, !.faults = 1]
      \/ tx' = [tx EXCEPT !.mmid = FALSE, !.faults = 1]
      \/ \E a \in DOMAIN Assets : tx' = [tx EXCEPT !.spec = a, !.faults = 1]
  BY DEF Swap!Alter, Names, NameOf, Swap!send
<1>7. tx.memo = memo
  BY <1>1 DEF SwapFileInv
<1>8. SwapFileInv'
  <2>1. CASE \E s \in Names : tx' = [tx EXCEPT !.memo.asset = s, !.faults = 1]
    <3>1. PICK s \in Names : tx' = [tx EXCEPT !.memo.asset = s, !.faults = 1]
      BY <2>1
    <3>2. tx' = [memo |-> [memo EXCEPT !.asset = s], vault |-> tx.vault, expiry |-> tx.expiry, gas |-> tx.gas, swap |-> tx.swap,
                 spec |-> tx.spec, mmid |-> tx.mmid, faults |-> 1]
      BY <1>1, <1>7, <3>1 DEF SwapFileInv
    <3>3. tx'.memo.asset = s /\ tx'.memo = [memo' EXCEPT !.asset = s]
      BY <1>1, <1>5, <3>2
    <3>4. /\ tx'.vault = vault' /\ tx'.expiry = expiry' /\ tx'.gas = gas'.n /\ tx'.faults = 1 /\ tx'.swap \in BOOLEAN
          /\ tx'.spec \in DOMAIN Assets
      BY <1>1, <3>2 DEF SwapFileInv
    <3>5. tx' = [memo |-> tx'.memo, vault |-> tx'.vault, expiry |-> tx'.expiry, gas |-> tx'.gas, swap |-> tx'.swap,
                 spec |-> tx'.spec, mmid |-> tx'.mmid, faults |-> tx'.faults]
      BY <3>2
    <3> QED
      BY <1>4, <3>2, <3>3, <3>4, <3>5 DEF SwapFileInv
  <2>2. CASE tx' = [tx EXCEPT !.mmid = FALSE, !.faults = 1]
    <3>1. tx' = [memo |-> tx.memo, vault |-> tx.vault, expiry |-> tx.expiry, gas |-> tx.gas, swap |-> tx.swap,
                 spec |-> tx.spec, mmid |-> FALSE, faults |-> 1]
      BY <1>1, <2>2 DEF SwapFileInv
    <3>2. /\ tx'.vault = vault' /\ tx'.expiry = expiry' /\ tx'.gas = gas'.n /\ tx'.faults = 1 /\ tx'.swap \in BOOLEAN
          /\ tx'.spec \in DOMAIN Assets /\ tx'.memo = tx.memo
      BY <1>1, <3>1 DEF SwapFileInv
    <3>3. tx'.memo = [memo' EXCEPT !.asset = tx'.memo.asset] /\ tx'.memo.asset \in Names
      BY <1>1, <3>2 DEF SwapFileInv
    <3>5. tx' = [memo |-> tx'.memo, vault |-> tx'.vault, expiry |-> tx'.expiry, gas |-> tx'.gas, swap |-> tx'.swap,
                 spec |-> tx'.spec, mmid |-> tx'.mmid, faults |-> tx'.faults]
      BY <3>1
    <3> QED
      BY <1>4, <3>1, <3>2, <3>3, <3>5 DEF SwapFileInv
  <2>3. CASE \E a \in DOMAIN Assets : tx' = [tx EXCEPT !.spec = a, !.faults = 1]
    <3>1. PICK a \in DOMAIN Assets : tx' = [tx EXCEPT !.spec = a, !.faults = 1]
      BY <2>3
    <3>2. tx' = [memo |-> tx.memo, vault |-> tx.vault, expiry |-> tx.expiry, gas |-> tx.gas, swap |-> tx.swap,
                 spec |-> a, mmid |-> tx.mmid, faults |-> 1]
      BY <1>1, <3>1 DEF SwapFileInv
    <3>3. /\ tx'.vault = vault' /\ tx'.expiry = expiry' /\ tx'.gas = gas'.n /\ tx'.faults = 1 /\ tx'.swap \in BOOLEAN
          /\ tx'.spec \in DOMAIN Assets /\ tx'.memo = tx.memo
      BY <1>1, <3>2 DEF SwapFileInv
    <3>4. tx'.memo = [memo' EXCEPT !.asset = tx'.memo.asset] /\ tx'.memo.asset \in Names
      BY <1>1, <3>3 DEF SwapFileInv
    <3>5. tx' = [memo |-> tx'.memo, vault |-> tx'.vault, expiry |-> tx'.expiry, gas |-> tx'.gas, swap |-> tx'.swap,
                 spec |-> tx'.spec, mmid |-> tx'.mmid, faults |-> tx'.faults]
      BY <3>2
    <3> QED
      BY <1>4, <3>2, <3>3, <3>4, <3>5 DEF SwapFileInv
  <2> QED
    BY <1>6, <2>1, <2>2, <2>3
<1> QED
  BY <1>1, <1>2, <1>3, <1>8 DEF SwapInv, Ended

LEMMA SignStep == ASSUME SwapInv, Swap!Sign PROVE SwapInv'
<1>1. /\ step = "made" /\ Paying /\ CommandInv /\ VaultInv /\ TermsInv /\ SwapFileInv
      /\ UNCHANGED <<job, to, memo, vault, quote, expiry, limit, gas, time, after, tx>>
      /\ step' = IF ~tx.swap \/ Swap!check_swap_memo(tx) THEN "signed" ELSE "refused"
  BY DEF Swap!Sign, Swap!Goes, SwapInv, Ended
<1>2. CommandInv' /\ VaultInv'
  BY <1>1 DEF CommandInv, VaultInv
<1>3. TermsInv' /\ Paying'
  BY <1>1, TermsStay, PayingStays
<1>4. SwapFileInv'
  BY <1>1 DEF SwapFileInv, Names, NameOf, Swap!memo_asset_name
<1>5. (Swap!check_swap_memo(tx))' = Swap!check_swap_memo(tx)
  BY <1>1 DEF Swap!check_swap_memo, Swap!Parse, Swap!init_from_memo, Swap!Named, Swap!ExpInt
<1> QED
  BY <1>1, <1>2, <1>3, <1>4, <1>5 DEF SwapInv, Ended

LEMMA BumpStep == ASSUME SwapInv, Swap!create_feebump PROVE SwapInv'
<1>1. /\ step = "signed" /\ tx.swap /\ Paying /\ CommandInv /\ VaultInv /\ SwapFileInv /\ UNCHANGED <<to, memo, expiry, limit, time, tx>>
  BY DEF Swap!create_feebump, SwapInv, Ended
<1>2. CASE step' = "died"
  BY <1>2 DEF SwapInv, Ended
<1>3. CASE step' # "died"
  <2>1. /\ \E out \in Swap!choose_output : vault' = [tx.vault EXCEPT !.reduce = out]
        /\ job' = [job EXCEPT !.limit = <<>>, !.interval = Swap!Dfl] /\ quote' = [data |-> <<>>, amt |-> tx.vault.amt]
        /\ gas' = [n |-> tx.gas, adjusted |-> FALSE] /\ after' = "bumpfee" /\ step' = "quote"
    BY <1>3 DEF Swap!create_feebump, Swap!Goes
  <2>2. job' \in Swap!Commands /\ job'.limit = <<>> /\ job'.recv = job.recv /\ job'.amt = job.amt /\ job'.send = job.send
    <3>1. PICK L : L = {<<>>} \union ({"abs"} \X Nat) \union ({"pct"} \X {x \in Int : x <= 100}) \union ({"bad"} \X Int)
      OBVIOUS
    <3>2. job \in [kind : {"swap"}, send : DOMAIN Assets, amt : Nat, chg : STRING, recv : DOMAIN Assets, to : STRING,
                   anydest : BOOLEAN, limit : L, interval : Int]
      BY <1>1, <3>1 DEF CommandInv, Swap!Commands
    <3>3. <<>> \in L
      BY <3>1
    <3>4. job' = [kind |-> job.kind, send |-> job.send, amt |-> job.amt, chg |-> job.chg, recv |-> job.recv, to |-> job.to,
                  anydest |-> job.anydest, limit |-> <<>>, interval |-> 3]
      BY <2>1, <3>2 DEF Swap!Dfl
    <3>5. job' \in [kind : {"swap"}, send : DOMAIN Assets, amt : Nat, chg : STRING, recv : DOMAIN Assets, to : STRING,
                    anydest : BOOLEAN, limit : L, interval : Int]
      BY <3>2, <3>3, <3>4
    <3>6. job'.limit = <<>> /\ job'.recv = job.recv /\ job'.amt = job.amt /\ job'.send = job.send
      BY <3>4
    <3> QED
      BY <3>1, <3>5, <3>6 DEF Swap!Commands
  <2>3. CommandInv'
    BY <1>1, <2>1, <2>2 DEF CommandInv, Swap!Commands
  <2>4. tx.vault = vault
    BY <1>1 DEF SwapFileInv
  <2>5. PICK out \in {"vault", "change"} : vault' = [vault EXCEPT !.reduce = out]
    BY <2>1, <2>4 DEF Swap!choose_output, Swap!nondata_outputs
  <2>6. vault' = [addr |-> vault.addr, token |-> vault.token, amt |-> vault.amt, left |-> vault.left, fee |-> vault.fee, reduce |-> out]
    BY <1>1, <2>5 DEF VaultInv
  <2>7. /\ vault'.amt = vault.amt /\ vault'.left = vault.left /\ vault'.fee = vault.fee /\ vault'.reduce = out
        /\ quote'.amt = vault.amt
    BY <2>1, <2>4, <2>6
  <2>8. VaultInv'
    BY <1>1, <2>1, <2>4, <2>6, <2>7 DEF VaultInv
  <2>9. Balanced
    BY <1>1 DEF Balanced, Paying, Swap!AmountsRight
  <2>10. (Swap!is_vm(job.send))' = Swap!is_vm(job.send)
    BY <2>2 DEF Swap!is_vm, Swap!is_evm
  <2>11. Balanced'
    BY <2>7, <2>9, <2>10 DEF Balanced
  <2>12. Bumping'
    BY <1>1, <2>1, <2>4, <2>7, <2>11 DEF Bumping
  <2> QED
    BY <2>1, <2>3, <2>8, <2>12 DEF SwapInv, Ended
<1> QED
  BY <1>2, <1>3

(* The new fee is more than the original's, and less than the output that  *)
(* pays it.                                                                *)
LEMMA BumpFeeStep == ASSUME Swap!SwapAssumption, SwapInv, Swap!bump_fee PROVE SwapInv'
<1>1. /\ step = "bumpfee" /\ Bumping /\ CommandInv /\ VaultInv /\ TermsInv /\ step' = "serialize"
      /\ UNCHANGED <<job, to, memo, quote, expiry, limit, gas, time, after, tx>>
  BY DEF Swap!bump_fee, Swap!Goes, SwapInv, Ended
<1>2. PICK f \in SwapFees : /\ f > tx.vault.fee /\ (~Swap!is_vm(job.send) => f >= Swap!min_fee /\ f < Swap!AmtOf(vault.reduce))
                           /\ vault' = [Swap!Reduced(f) EXCEPT !.fee = f]
  BY DEF Swap!bump_fee
<1> DEFINE paying == IF Swap!is_vm(job.send) THEN "none" ELSE vault.reduce
           cost == f - vault.fee
           amt == vault.amt - (IF paying = "vault" THEN cost ELSE 0)
           left == vault.left - (IF paying = "change" THEN cost ELSE 0)
<1>3. f \in Nat /\ Funds \in Nat /\ vault.amt \in Int /\ vault.left \in Int /\ vault.fee \in Nat
  BY <1>1 DEF Swap!SwapAssumption, VaultInv
<1>4. /\ after = "bumpfee" /\ vault.reduce \in {"vault", "change"} /\ quote.amt = vault.amt
      /\ tx.vault.amt = vault.amt /\ tx.vault.left = vault.left /\ tx.vault.fee = vault.fee
      /\ (~Swap!is_vm(job.send) => vault.amt + vault.left + vault.fee = Funds)
  BY <1>1 DEF Bumping, Balanced
<1>5. cost \in Int /\ cost > 0 /\ amt \in Int /\ left \in Int
  BY <1>2, <1>3, <1>4
<1>6. vault' = [addr |-> vault.addr, token |-> vault.token, amt |-> amt, left |-> left, fee |-> f, reduce |-> vault.reduce]
  <2>1. CASE Swap!is_vm(job.send)
    <3>1. Swap!Reduced(f) = vault
      BY <2>1 DEF Swap!Reduced
    <3>2. paying # "vault" /\ paying # "change"
      BY <2>1
    <3>3. amt = vault.amt /\ left = vault.left
      BY <1>3, <3>2
    <3> HIDE DEF amt, left
    <3> QED
      BY <1>1, <1>2, <3>1, <3>3 DEF VaultInv
  <2>2. CASE ~Swap!is_vm(job.send) /\ vault.reduce = "vault"
    <3>1. Swap!Reduced(f) = [vault EXCEPT !.amt = Funds - vault.left - f] /\ amt = Funds - vault.left - f /\ left = vault.left
      BY <1>3, <1>4, <2>2 DEF Swap!Reduced
    <3> HIDE DEF amt, left
    <3> QED
      BY <1>1, <1>2, <3>1 DEF VaultInv
  <2>3. CASE ~Swap!is_vm(job.send) /\ vault.reduce = "change"
    <3>1. Swap!Reduced(f) = [vault EXCEPT !.left = Funds - vault.amt - f] /\ left = Funds - vault.amt - f /\ amt = vault.amt
      BY <1>3, <1>4, <2>3 DEF Swap!Reduced
    <3> HIDE DEF amt, left
    <3> QED
      BY <1>1, <1>2, <3>1 DEF VaultInv
  <2> QED
    BY <1>4, <2>1, <2>2, <2>3
<1>7. /\ vault'.amt = amt /\ vault'.left = left /\ vault'.fee = f /\ vault'.reduce = vault.reduce
      /\ vault'.addr = vault.addr /\ vault'.token = vault.token
  BY <1>6
<1>8. CommandInv'
  BY <1>1 DEF CommandInv
<1>9. VaultInv'
  <2> HIDE DEF amt, left
  <2> QED
    BY <1>1, <1>3, <1>5, <1>6, <1>7 DEF VaultInv
<1>10. (Swap!is_vm(job.send))' = Swap!is_vm(job.send)
  BY <1>1 DEF Swap!is_vm, Swap!is_evm
<1>11. paying = "vault" => amt > 0 /\ amt < vault.amt
  BY <1>2, <1>3, <1>4, <1>5 DEF Swap!AmtOf
<1>12. paying = "change" => left > 0
  BY <1>2, <1>3, <1>4, <1>5 DEF Swap!AmtOf
<1>13. ~Swap!is_vm(job.send) => amt + left + f = Funds
  BY <1>3, <1>4
<1>14. Paying'
  <2>1. vault'.reduce # "none"
    BY <1>4, <1>7
  <2>2. IF Swap!is_vm(job.send) \/ vault.reduce # "vault" THEN amt = vault.amt ELSE amt < vault.amt
    BY <1>3, <1>11
  <2> HIDE DEF amt, left
  <2> QED
    BY <1>1, <1>4, <1>7, <1>10, <1>13, <2>1, <2>2 DEF Paying, Swap!AmountsRight
<1>15. Replacing'
  <2>1. vault'.fee - tx.vault.fee = cost
    BY <1>4, <1>7
  <2>2. (IF Swap!is_vm(job.send) THEN "none" ELSE vault'.reduce) = paying
    BY <1>7
  <2>3. /\ amt = tx.vault.amt - (IF paying = "vault" THEN cost ELSE 0)
        /\ left = tx.vault.left - (IF paying = "change" THEN cost ELSE 0)
    BY <1>4
  <2> HIDE DEF amt, left, paying, cost
  <2> QED
    BY <1>1, <1>4, <1>5, <1>7, <1>10, <1>11, <1>12, <2>1, <2>2, <2>3 DEF Replacing, Swap!Replaces
<1>16. TermsInv'
  BY <1>1, <1>7, TermsStay
<1> QED
  BY <1>1, <1>8, <1>9, <1>14, <1>15, <1>16 DEF SwapInv, Ended

LEMMA NewOutputsStep == ASSUME SwapInv, Swap!bump_new_outputs PROVE SwapInv'
<1>1. /\ step = "signed" /\ tx.swap /\ Paying /\ CommandInv /\ VaultInv /\ TermsInv /\ SwapFileInv
      /\ UNCHANGED <<job, to, memo, vault, quote, expiry, limit, gas, time>>
  BY DEF Swap!bump_new_outputs, SwapInv, Ended
<1>2. CASE step' = "died"
  BY <1>2 DEF SwapInv, Ended
<1>3. CASE step' # "died"
  <2>1. tx' = [tx EXCEPT !.swap = FALSE, !.memo = <<>>] /\ after' = "bumped" /\ step' = "made"
    BY <1>3 DEF Swap!bump_new_outputs, Swap!Goes
  <2>2. CommandInv' /\ VaultInv'
    BY <1>1, <2>1 DEF CommandInv, VaultInv
  <2>3. TermsInv' /\ Paying'
    BY <1>1, TermsStay, PayingStays
  <2>4. tx' = [memo |-> <<>>, vault |-> tx.vault, expiry |-> tx.expiry, gas |-> tx.gas, swap |-> FALSE,
               spec |-> tx.spec, mmid |-> tx.mmid, faults |-> tx.faults]
    BY <1>1, <2>1 DEF SwapFileInv
  <2>5. SwapFileInv'
    BY <1>1, <2>4 DEF SwapFileInv
  <2> QED
    BY <2>1, <2>2, <2>3, <2>5 DEF SwapInv, Ended
<1> QED
  BY <1>2, <1>3

LEMMA SwapNext == ASSUME Swap!SwapAssumption, SwapInv, [Swap!Next]_(Swap!swapVars) PROVE SwapInv'
<1>1. CASE UNCHANGED Swap!swapVars
  BY <1>1, SwapStays DEF Swap!swapVars
<1> QED
  BY <1>1, ArgsStep, InputsStep, QuoteStep, LookStep, FeeStep, AgeStep, SerializeStep, TickStep, AlterStep, SignStep,
     BumpStep, BumpFeeStep, NewOutputsStep DEF Swap!Next

LEMMA NotNothing == ASSUME NEW p, NEW x \in DOMAIN p PROVE p # <<>>
<1>1. PICK e \in Seq({}) : e = <<>> /\ Len(e) = 0
  BY EmptySeq
<1>2. DOMAIN e = {}
  BY <1>1, LenProperties
<1> QED
  BY <1>1, <1>2, Zenon

(* The memo is read as what it was written from.                           *)
LEMMA ParseIs ==
    ASSUME NEW mm, mm.function = "=", Swap!init_from_memo(mm.asset) # "", Len(mm.limit) \in {1, 3}
    PROVE  Swap!Parse(mm) # <<>> /\ Swap!Parse(mm).asset = Swap!init_from_memo(mm.asset) /\ Swap!Parse(mm).address = mm.address
           /\ Swap!Parse(mm).trade_limit = Swap!ExpInt(mm.limit)
<1>1. PICK p : p = [asset |-> Swap!init_from_memo(mm.asset), address |-> mm.address, trade_limit |-> Swap!ExpInt(mm.limit),
                    interval |-> mm.interval]
  OBVIOUS
<1>2. Swap!Parse(mm) = p
  BY <1>1 DEF Swap!Parse
<1>3. p # <<>>
  <2>1. "asset" \in DOMAIN p
    BY <1>1
  <2> QED
    BY <2>1, NotNothing
<1>4. p.asset = Swap!init_from_memo(mm.asset) /\ p.address = mm.address /\ p.trade_limit = Swap!ExpInt(mm.limit)
  BY <1>1
<1> QED
  BY <1>2, <1>3, <1>4

LEMMA MemoRead ==
    ASSUME Swap!SwapAssumption, job.recv \in DOMAIN Assets, NEW addr, NEW tl \in TradeLimits
    PROVE  \E p : /\ p = Swap!Parse(Swap!Memo(addr, tl)) /\ p # <<>> /\ p.asset = job.recv /\ p.address = addr
                  /\ tl # <<>> => p.trade_limit \in {tl[1], Swap!trunc(tl[1])}
<1>1. PICK num \in Nat : num = (IF tl = <<>> THEN 0 ELSE tl[1])
  BY DEF TradeLimits
<1>2. PICK mm : mm = Swap!Memo(addr, tl)
  OBVIOUS
<1>3. mm.function = "=" /\ mm.asset = NameOf(job.recv) /\ mm.address = addr /\ mm.limit = Swap!enc(num)
  BY <1>1, <1>2, MemoIs
<1>4. Swap!ExpInt(Swap!enc(num)) \in {num, Swap!trunc(num)} /\ Len(Swap!enc(num)) \in {1, 3}
  BY EncRead DEF Swap!SwapAssumption
<1>5. Swap!init_from_memo(mm.asset) = job.recv /\ job.recv # ""
  BY <1>3, NameRead DEF Swap!SwapAssumption
<1>6. Swap!Parse(mm) # <<>> /\ Swap!Parse(mm).asset = job.recv /\ Swap!Parse(mm).address = addr
      /\ Swap!Parse(mm).trade_limit = Swap!ExpInt(Swap!enc(num))
  BY <1>3, <1>4, <1>5, ParseIs
<1> QED
  BY <1>1, <1>2, <1>4, <1>6

LEMMA SwapSuffices == ASSUME Swap!SwapAssumption, SwapInv PROVE Swap!SwapRight
<1>1. Swap!IntsRight
  <2> SUFFICES ASSUME step = "int"
               PROVE  /\ Swap!ExpInt(Swap!enc(job.n)) \in {job.n, Swap!trunc(job.n)} /\ Swap!trunc(job.n) <= job.n
                      /\ Swap!EncLen(Swap!enc(job.n)) <= Len(Swap!Digits(job.n))
    BY DEF Swap!IntsRight
  <2>1. PICK num \in Nat : num = job.n
    BY DEF SwapInv
  <2> QED
    BY <2>1, EncRead DEF Swap!SwapAssumption
<1>2. ASSUME step \in {"made", "signed", "refused"} PROVE Paying /\ CommandInv /\ TermsInv /\ SwapFileInv /\ job.recv \in DOMAIN Assets
  BY <1>2 DEF SwapInv, Ended, CommandInv, Swap!Commands
<1>3. Swap!SwapAsAsked
  <2> SUFFICES ASSUME step = "made", tx.swap, tx.faults = 0 PROVE Swap!MadeFrom(tx)
    BY DEF Swap!SwapAsAsked
  <2>1. Paying /\ CommandInv /\ TermsInv /\ job.recv \in DOMAIN Assets
    BY <1>2
  <2>2. tx.vault = vault /\ tx.expiry = expiry /\ tx.gas = gas.n /\ tx.memo = memo /\ limit \in TradeLimits
        /\ memo = Swap!Memo(to.recv, limit)
    BY <1>2 DEF SwapFileInv, TermsInv
  <2>3. PICK p : /\ p = Swap!Parse(tx.memo) /\ p.asset = job.recv /\ p.address = to.recv
                 /\ limit # <<>> => p.trade_limit \in {limit[1], Swap!trunc(limit[1])}
    BY <2>1, <2>2, MemoRead
  <2>4. Swap!AmountsRight(tx.vault)
    BY <2>1, <2>2 DEF Paying
  <2>5. Assets[job.send].coin # "RUNE" => (IF Swap!IsToken(job.send) THEN tx.vault.token ELSE tx.vault.addr) = quote.data.vault
    BY <2>1, <2>2 DEF TermsInv
  <2>6. tx.expiry = quote.data.expiry
    BY <2>1, <2>2 DEF TermsInv
  <2>7. Swap!is_evm(job.send) /\ ~Swap!IsToken(job.send) => tx.gas = Swap!MemoLen(tx.memo)
    BY <2>1, <2>2 DEF TermsInv
  <2> QED
    BY <2>3, <2>4, <2>5, <2>6, <2>7 DEF Swap!MadeFrom, Swap!NoLimit
<1>4. ASSUME step = "signed", tx.swap PROVE NameOf(tx.spec) = tx.memo.asset /\ (tx.faults = 0 => to.recv[2] # "other" \/ job.anydest)
  <2>1. CommandInv /\ SwapFileInv
    BY <1>2, <1>4
  <2>2. Swap!check_swap_memo(tx)
    BY <1>4 DEF SwapInv
  <2>3. PICK p : p = Swap!Parse(tx.memo) /\ p # <<>> /\ p.asset = tx.spec /\ (tx.mmid \/ job.anydest)
    BY <2>2 DEF Swap!check_swap_memo
  <2>4. Swap!init_from_memo(tx.memo.asset) # "" /\ p.asset = Swap!init_from_memo(tx.memo.asset)
    <3>1. PICK a : a = Swap!init_from_memo(tx.memo.asset)
      OBVIOUS
    <3>2. ~(tx.memo.function # "=" \/ a = "" \/ Len(tx.memo.limit) \notin {1, 3})
      BY <2>3, <3>1 DEF Swap!Parse
    <3> QED
      BY <2>3, <3>1, <3>2, ParseIs
  <2>5. tx.memo.asset \in Names
    BY <1>4, <2>1 DEF SwapFileInv
  <2>6. tx.memo.asset = NameOf(tx.spec)
    BY <2>3, <2>4, <2>5, NameRead
  <2>7. tx.faults = 0 => tx.mmid = to.mmid
    BY <1>4, <2>1 DEF SwapFileInv
  <2> QED
    BY <2>1, <2>3, <2>6, <2>7 DEF CommandInv
<1>5. ASSUME step = "refused" PROVE tx.faults > 0 \/ (to.recv[2] = "other" /\ ~job.anydest)
  <2>1. CommandInv /\ SwapFileInv /\ TermsInv /\ job.recv \in DOMAIN Assets
    BY <1>2, <1>5
  <2>2. tx.swap /\ ~Swap!check_swap_memo(tx)
    BY <1>5 DEF SwapInv
  <2>3. CASE tx.faults = 1
    BY <2>3
  <2>4. CASE tx.faults = 0
    <3>1. tx.memo = Swap!Memo(to.recv, limit) /\ tx.spec = job.recv /\ tx.mmid = to.mmid /\ limit \in TradeLimits
      BY <2>1, <2>2, <2>4 DEF SwapFileInv, TermsInv
    <3>2. PICK p : p = Swap!Parse(tx.memo) /\ p # <<>> /\ p.asset = job.recv
      BY <2>1, <3>1, MemoRead
    <3>3. job.recv \notin Unsupported
      BY <2>1 DEF CommandInv
    <3>4. ~(tx.mmid \/ job.anydest)
      BY <2>2, <3>1, <3>2, <3>3 DEF Swap!check_swap_memo
    <3> QED
      BY <2>1, <3>1, <3>4 DEF CommandInv
  <2> QED
    BY <2>1, <2>2, <2>3, <2>4 DEF SwapFileInv
<1>6. Swap!SwapSigned
  BY <1>4, <1>5 DEF Swap!SwapSigned, NameOf
<1> QED
  BY <1>1, <1>3, <1>6 DEF Swap!SwapRight

(* A swap is made under the terms of its latest quote, signed only as its  *)
(* file says, and its numbers are read as they were written.               *)
THEOREM SwapsAsAsked == ASSUME Swap!SwapAssumption PROVE Swap!Spec => []Swap!SwapRight
<1>1. Swap!Init => SwapInv
  BY FirstSwap
<1>2. SwapInv /\ [Swap!Next]_(Swap!swapVars) => SwapInv'
  BY SwapNext
<1>3. SwapInv => Swap!SwapRight
  BY SwapSuffices
<1> QED
  BY <1>1, <1>2, <1>3, PTL DEF Swap!Spec

(* A replacement of a swap takes the higher fee from one output.           *)
THEOREM SwapsReplaced == ASSUME Swap!SwapAssumption PROVE Swap!Spec => Swap!SwapReplaces
<1>1. Swap!Init => SwapInv
  BY FirstSwap
<1>2. SwapInv /\ [Swap!Next]_(Swap!swapVars) => SwapInv'
  BY SwapNext
<1>3. SwapInv /\ [Swap!Next]_(Swap!swapVars) => [Swap!SwapReplacing]_(Swap!swapVars)
  <2> SUFFICES ASSUME SwapInv, Swap!Next, step = "serialize", tx # <<>>, tx' # tx PROVE Swap!Replaces(tx'.vault, tx.vault)
    BY DEF Swap!SwapReplacing
  <2>1. Swap!create_serialized
    BY DEF Swap!Next, Swap!process_swap_cmdline_args, Swap!get_inputs, Swap!get_quote, Swap!update_vault_output, Swap!get_fee,
       Swap!check_age, Swap!Tick, Swap!Alter, Swap!Sign, Swap!create_feebump, Swap!bump_fee, Swap!bump_new_outputs
  <2>2. tx'.vault = vault
    BY <2>1 DEF Swap!create_serialized
  <2>3. Replacing
    BY DEF SwapInv, AskedAgain, NewPaying
  <2> QED
    BY <2>2, <2>3 DEF Replacing
<1> QED
  BY <1>1, <1>2, <1>3, PTL DEF Swap!Spec, Swap!SwapReplaces

LEMMA HostedCreate == MCSpec => [](subject = "create" => Creating!MadeRight)
<1> DEFINE Here == subject = "create"
<1>1. MCInit /\ Here => Creating!Init
  BY DEF MCInit
<1>2. [MCNext \/ ProgramEnded]_allVars /\ Here => Here' /\ [Creating!Next]_(Creating!vars)
  BY DEF MCNext, ProgramEnded, allVars, createVars, Creating!vars
<1>3. [MCNext \/ ProgramEnded]_allVars /\ ~Here => ~Here'
  BY DEF MCNext, ProgramEnded, allVars
<1>4. Creating!Spec => []Creating!MadeRight
  BY MadeInBalance, CreateConstants
<1> QED
  BY <1>1, <1>2, <1>3, <1>4, PTL DEF MCSpec, Creating!Spec

LEMMA HostedChange == MCSpec => [](subject = "change" => Change!PicksFirstUnused)
<1> DEFINE Here == subject = "change"
<1>1. MCInit /\ Here => Change!Init
  BY DEF MCInit
<1>2. [MCNext \/ ProgramEnded]_allVars /\ Here => Here' /\ [Change!Next]_(Change!vars)
  BY DEF MCNext, ProgramEnded, allVars, changeVars, Change!vars
<1>3. [MCNext \/ ProgramEnded]_allVars /\ ~Here => ~Here'
  BY DEF MCNext, ProgramEnded, allVars
<1>4. Change!Spec => []Change!PicksFirstUnused
  BY FirstUnusedPicked, ChangeConstants
<1> QED
  BY <1>1, <1>2, <1>3, <1>4, PTL DEF MCSpec, Change!Spec

LEMMA HostedSwap == MCSpec => [](subject = "swap" => Swap!SwapRight)
<1> DEFINE Here == subject = "swap"
<1>1. MCInit /\ Here => Swap!Init
  BY DEF MCInit
<1>2. [MCNext \/ ProgramEnded]_allVars /\ Here => Here' /\ [Swap!Next]_(Swap!swapVars)
  BY DEF MCNext, ProgramEnded, allVars, swapVars, Swap!swapVars
<1>3. [MCNext \/ ProgramEnded]_allVars /\ ~Here => ~Here'
  BY DEF MCNext, ProgramEnded, allVars
<1>4. Swap!Spec => []Swap!SwapRight
  BY SwapsAsAsked, SwapConstants
<1> QED
  BY <1>1, <1>2, <1>3, <1>4, PTL DEF MCSpec, Swap!Spec

(* The same of the transactions made as the run composes them, of whatever *)
(* kind: that they balance, that their change goes to an unused address,   *)
(* and that a swap is the one asked for.                                   *)
THEOREM AlwaysMadeRight == MCSpec => []MadeRight
<1>1. /\ subject = "create" => Creating!MadeRight
      /\ subject = "change" => Change!PicksFirstUnused
      /\ subject = "swap" => Swap!SwapRight
      => MadeRight
  BY DEF MadeRight
<1> QED
  BY <1>1, HostedCreate, HostedChange, HostedSwap, PTL

LEMMA HostedReplaces == MCSpec => [][subject = "create" => Creating!Replacing]_allVars
<1> DEFINE Here == subject = "create"
<1>1. MCInit /\ Here => Creating!Init
  BY DEF MCInit
<1>2. [MCNext \/ ProgramEnded]_allVars /\ Here => Here' /\ [Creating!Next]_(Creating!vars)
  BY DEF MCNext, ProgramEnded, allVars, createVars, Creating!vars
<1>3. [MCNext \/ ProgramEnded]_allVars /\ ~Here => ~Here'
  BY DEF MCNext, ProgramEnded, allVars
<1>4. [Creating!Replacing]_(Creating!vars) => [Here => Creating!Replacing]_allVars
  BY DEF Creating!Replacing, Creating!vars
<1>5. ~Here => [Here => Creating!Replacing]_allVars
  OBVIOUS
<1>6. Creating!Spec => [][Creating!Replacing]_(Creating!vars)
  BY ReplacedForMore, CreateConstants DEF Creating!BumpReplaces
<1> QED
  BY <1>1, <1>2, <1>3, <1>4, <1>5, <1>6, PTL DEF MCSpec, Creating!Spec

LEMMA HostedSwapReplaces == MCSpec => [][subject = "swap" => Swap!SwapReplacing]_allVars
<1> DEFINE Here == subject = "swap"
<1>1. MCInit /\ Here => Swap!Init
  BY DEF MCInit
<1>2. [MCNext \/ ProgramEnded]_allVars /\ Here => Here' /\ [Swap!Next]_(Swap!swapVars)
  BY DEF MCNext, ProgramEnded, allVars, swapVars, Swap!swapVars
<1>3. [MCNext \/ ProgramEnded]_allVars /\ ~Here => ~Here'
  BY DEF MCNext, ProgramEnded, allVars
<1>4. [Swap!SwapReplacing]_(Swap!swapVars) => [Here => Swap!SwapReplacing]_allVars
  BY DEF Swap!SwapReplacing, Swap!swapVars
<1>5. ~Here => [Here => Swap!SwapReplacing]_allVars
  OBVIOUS
<1>6. Swap!Spec => [][Swap!SwapReplacing]_(Swap!swapVars)
  BY SwapsReplaced, SwapConstants DEF Swap!SwapReplaces
<1> QED
  BY <1>1, <1>2, <1>3, <1>4, <1>5, <1>6, PTL DEF MCSpec, Swap!Spec

(* And that a replacement replaces, that of a swap too, as the run states  *)
(* it.                                                                     *)
THEOREM AlwaysReplaced == MCSpec => BumpReplaces
<1>1. [subject = "create" => Creating!Replacing]_allVars /\ [subject = "swap" => Swap!SwapReplacing]_allVars
      => [(subject = "create" => Creating!Replacing) /\ (subject = "swap" => Swap!SwapReplacing)]_allVars
  OBVIOUS
<1> QED
  BY <1>1, HostedReplaces, HostedSwapReplaces, PTL DEF BumpReplaces
=============================================================================
