------------------------------- MODULE TxSend -------------------------------
(* Sending a signed transaction of one or two parts (a token swap has two: *)
(* approval and router) by way of the node or of a proxy's web page, and   *)
(* asking what became of it, while the network goes on (tx/online.py,      *)
(* tx/tx_proxy.py and the status modules of Bitcoin and Ethereum).  Blocks *)
(* are not reorganized.                                                    *)
EXTENDS Naturals, FiniteSets

CONSTANTS
    Jobs,       \* command lines and transactions
    MaxMoves    \* bound

(* A job: kind; parts; idx, the part asked for or 0; act, what is to be    *)
(* done; proxy, wait, asi (automount); swap and expired; own: the tracking *)
(* wallet knows the transaction; index: the node can find any transaction. *)
Job ==
    [kind : {"btc", "eth"}, parts : {1, 2}, idx : Nat,
     act : {"send", "status", "receipt", "test", "dump"},
     proxy : BOOLEAN, wait : BOOLEAN, asi : BOOLEAN, swap : BOOLEAN, expired : BOOLEAN,
     own : BOOLEAN, index : BOOLEAN]

(* What is assumed of the constants.                                       *)
SendAssumption == Jobs \subseteq Job /\ MaxMoves \in Nat

VARIABLES job, pc,
    part,       \* the part in hand
    net,        \* where each part is
    sent,       \* sent_status: "no", "node" or "proxy"
    allOk,
    taken,      \* history: parts the network took from us
    told,       \* what the user was told of each part
    seen,       \* history: where the part was during the question
    moves       \* bound: what the network does by itself

sendVars == <<job, pc, part, net, sent, allOk, taken, told, seen, moves>>

Idxs == IF job.idx = 0 THEN 1 .. job.parts ELSE {job.idx}
First == CHOOSE p \in Idxs : \A q \in Idxs : p <= q
Asking == job.act \in {"status", "receipt"}
Keep(vs) == UNCHANGED vs
End(how) == pc' = how /\ Keep(<<job, part, net, sent, allOk, taken, told, seen, moves>>)

(* A quote that has run out, a part that is not there, a proxy that does   *)
(* not take the coin, and the user's answer.                               *)
Start == pc = "start" /\
    \/ /\ job.swap /\ job.expired /\ ~Asking /\ End("died")
    \/ /\ ~(job.swap /\ job.expired) \/ Asking
       /\ IF (job.proxy /\ job.kind # "eth") \/ (job.idx # 0 /\ (job.parts = 1 \/ job.idx > 2)) THEN End("died")
          ELSE \/ job.act = "send" /\ End("declined")
               \/ pc' = job.act /\ part' = First /\ Keep(<<job, net, sent, allOk, taken, told, seen, moves>>)

(* A node takes what it has not got.  The second part of a swap may be     *)
(* queued before the first is in.                                          *)
Free(p) == net[p] = "none"
Take(p) == net' = [net EXCEPT ![p] = "mempool"] /\ taken' = taken \union {p}
NextPart(to) == IF part + 1 \in Idxs THEN pc' = to /\ part' = part + 1 ELSE pc' = "sent" /\ part' = part

SendWithNode ==
    /\ pc = "send" /\ ~job.proxy /\ Keep(<<job, allOk, told, seen, moves>>)
    /\ \/ /\ Free(part) /\ Take(part) /\ sent' = "node" /\ pc' = "wait" /\ part' = part
       \/ /\ pc' = "died" /\ Keep(<<part, sent>>)            \* refused, or the answer is lost
          /\ (Free(part) /\ Take(part)) \/ Keep(<<net, taken>>)

(* The form is fetched, filled in and posted; what the page that comes     *)
(* back says may not be a transaction ID.                                  *)
SendByProxy ==
    /\ pc = "send" /\ job.proxy /\ Keep(<<job, allOk, told, seen, moves>>)
    /\ \/ Free(part) /\ Take(part) /\ sent' = "proxy" /\ pc' = "wait" /\ part' = part
       \/ /\ (Free(part) /\ Take(part)) \/ Keep(<<net, taken>>)
          /\ sent' = sent /\ part' = part /\ pc' \in {"wait", "died"}

(* With --wait, an Ethereum transaction's receipt is asked for, for a      *)
(* minute at most, even when this part has not been sent but the one       *)
(* before it.                                                              *)
Receipt(p) == net[p] \in {"chain", "failed"}
PostNetworkSend ==
    /\ pc = "wait" /\ Keep(<<job, net, sent, taken, told, seen, moves>>) /\ NextPart("send")
    /\ IF ~job.wait \/ sent = "no" \/ job.kind = "btc" THEN allOk' = allOk
       ELSE \/ Receipt(part) /\ allOk' = (allOk /\ net[part] = "chain")
            \/ ~Receipt(part) /\ allOk' = FALSE

FinishAnyway ==
    /\ pc = "sent" /\ Keep(<<job, part, net, sent, allOk, taken, told, seen, moves>>)
    /\ pc' = IF sent # "no" THEN "marked" ELSE "done"

Finish ==
    /\ pc = "sent" /\ Keep(<<job, part, net, sent, allOk, taken, told, seen, moves>>)
    /\ IF job.idx = 0 /\ sent # "no" /\ allOk
       THEN pc' \in IF sent = "node" \/ ~job.asi THEN {"marked"} ELSE {"marked", "done"}
       ELSE pc' = "done"

(* --test asks whether the node would take it, --proxy --test only gets    *)
(* the form, and --dump-hex writes the parts to files.                     *)
Test == pc \in {"test", "dump"} /\
    IF pc = "test" /\ ~job.proxy /\ job.kind = "eth" THEN End("died") ELSE End("done")

-------------------------------------------------------------------------------
(* The status of a part, one question to the node after another.           *)
Answer(what) ==
    /\ told' = [told EXCEPT ![part] = what] /\ seen' = seen
    /\ IF part + 1 \in Idxs THEN pc' = "status" /\ part' = part + 1 ELSE pc' = "done" /\ part' = part
Ask(what) == pc' = what /\ part' = part /\ told' = told /\ seen' = seen
Status == Keep(<<job, net, sent, allOk, taken, moves>>)

is_in_mempool == pc = "status" /\ Status /\ part' = part /\ told' = told /\ seen' = {net[part]} /\
    pc' = IF net[part] = "mempool" THEN "in mempool" ELSE "in wallet?"

(* For how long it has been there only the wallet can say.                 *)
InMempool == pc = "in mempool" /\ Status /\
    IF job.kind = "btc" /\ ~job.own THEN pc' = "died" /\ Keep(<<part, told, seen>>) ELSE Answer("mempool")

Confirmed(p) == net[p] \in {"chain", "failed"}
is_in_wallet == pc = "in wallet?" /\ Status /\
    CASE Confirmed(part) /\ (job.own \/ job.kind = "eth") -> Answer("confirmed")
      [] job.kind = "eth" /\ ~Confirmed(part) -> Answer("nowhere")
      [] OTHER -> Ask("in utxos?")

is_in_utxos == pc = "in utxos?" /\ Status /\
    IF net[part] = "mempool" \/ (Confirmed(part) /\ job.index) THEN Answer("not in wallet") ELSE Ask("replaced?")

(* The wallet counts no confirmations of a transaction that is in conflict *)
(* with the chain, and none of one that has left the mempool.              *)
is_replaced == pc = "replaced?" /\ Status /\
    IF job.own /\ net[part] \in {"replaced", "evicted"} THEN Answer("replaced") ELSE Answer("nothing")

get_receipt == pc = "receipt" /\ Keep(<<job, net, sent, allOk, taken, moves, seen>>) /\
    LET res == IF Receipt(part) THEN "receipt" ELSE "none" IN
    IF job.kind = "btc" THEN pc' = "died" /\ Keep(<<part, told>>)
    ELSE told' = [told EXCEPT ![part] = res]
         /\ IF part + 1 \in Idxs THEN pc' = pc /\ part' = part + 1 ELSE pc' = "done" /\ part' = part

-------------------------------------------------------------------------------
(* The network: blocks are found, transactions executed or not, replaced   *)
(* and thrown out; and somebody else may send our transaction.             *)
Becomes(p) == CASE net[p] = "none" -> {"mempool"}
                [] net[p] = "mempool" -> {"chain"} \union (IF job.kind = "eth" THEN {"failed"} ELSE {"replaced", "evicted"})
                [] OTHER -> {}
Network == moves < MaxMoves /\ moves' = moves + 1 /\ Keep(<<job, pc, part, sent, allOk, taken, told>>) /\
    \E p \in DOMAIN net : \E place \in Becomes(p) :
        /\ net' = [net EXCEPT ![p] = place]
        /\ seen' = IF p = part THEN seen \union {place} ELSE seen

Init ==
    /\ job \in Jobs /\ pc = "start" /\ part = 0 /\ net = [p \in 1 .. job.parts |-> "none"] /\ sent = "no"
    /\ allOk = TRUE /\ taken = {} /\ told = [p \in 1 .. job.parts |-> ""] /\ seen = {} /\ moves = 0

Next == Start \/ SendWithNode \/ SendByProxy \/ PostNetworkSend \/ Finish \/ Test \/ is_in_mempool \/ InMempool
        \/ is_in_wallet \/ is_in_utxos \/ is_replaced \/ get_receipt \/ Network

Spec == Init /\ [][Next]_sendVars

-------------------------------------------------------------------------------
(* A transaction is recorded as sent only when it has been: all of it when *)
(* it was sent by the node, and executed, too, when that was waited for.   *)
(* (By proxy one of the parts may have failed: if it is the first, the     *)
(* second is sent all the same and is what is waited for.)                 *)
RecordTrue ==
    pc = "marked" =>
        /\ job.act = "send" /\ taken # {} /\ (~job.proxy => taken = 1 .. job.parts)
        /\ job.wait /\ job.kind = "eth" => net[job.parts] = "chain" /\ (~job.proxy => net[1] = "chain")

(* What the user is told of the last part asked about was so at some time  *)
(* of the asking; a transaction that went on from the mempool to a block   *)
(* meanwhile is not said to be lost or replaced.                           *)
Told == told[part]
StatusTrue ==
    pc = "done" /\ job.act = "status" =>
        /\ Told = "mempool" => "mempool" \in seen
        /\ Told = "confirmed" => seen \intersect {"chain", "failed"} # {}
        /\ Told \in {"nowhere", "nothing"} => ~(seen \subseteq {"mempool", "chain", "failed"}) \/ ~job.own
        /\ Told = "replaced" => seen \intersect {"replaced", "evicted"} # {}
===============================================================================
