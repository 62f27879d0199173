------------------------------- MODULE TxSign -------------------------------
(* How the keys for a transaction are found: mmgen-txsign, which signs the *)
(* transactions named on its command line one after the other, and the     *)
(* signing program of the offline computer, which goes on when one of them *)
(* is refused.  An address is a record: its name, the seed its MMGen ID    *)
(* names, if it has one, and whether the coin address in the transaction   *)
(* file is the one that seed generates.                                    *)
EXTENDS Naturals, FiniteSets, Sequences, Functions

CONSTANTS
    Jobs,       \* command lines
    Subseeds,   \* Subseeds[s]: the sub-seeds of seed s within the range searched
    NoSeed      \* no MMGen ID; no seed

(* auto: the signing program of autosign.  txs: the transactions.  files:  *)
(* the wallet files, dflt: the default wallet, <<>> when there is none.    *)
(* kal: addresses in the key-address file, flat: in the list of keys.      *)
(* infmt: the user types a seed.  anydest: swaps to any address are        *)
(* allowed.                                                                *)

(* What is assumed of the command lines.                                   *)
SignAssumption ==
    \A j \in Jobs : j.auto \in BOOLEAN /\ j.files \in Seq(DOMAIN Subseeds) /\ j.dflt \in Seq(DOMAIN Subseeds)

VARIABLES
    job, pc,
    files,      \* the list main() made of the seed sources
    k,          \* the number of the transaction
    pool,       \* self.seedfiles of TxKeys
    copied,     \* pool is a list of its own
    saved,      \* self.saved_seeds, in the order they were added
    stage,      \* the call of add_keys(), 1 to 6
    sid,        \* the seed being looked for
    checked,    \* subseeds_checked
    have,       \* entries of the transaction with have_wif
    keys,       \* the keys to be passed to the signer
    result      \* what became of each transaction

vars == <<job, pc, files, k, pool, copied, saved, stage, sid, checked, have, keys, result>>

seeking == <<saved, stage, sid, checked, have, keys>>

Current == job.txs[k]

Wallets(as) == {a \in as : a.sid # NoSeed}

(* The three kinds of entries whose addresses are checked, first with the  *)
(* key-address file, then with seeds.                                      *)
Part(i) == CASE i \in {1, 4} -> Current.ins [] i \in {2, 5} -> Current.outs [] OTHER -> Current.memo

Kind(i) == IF i > 3 THEN i - 3 ELSE i

NeedInputs(i) == IF Kind(i) = 1 THEN {a \in Wallets(Part(i)) : <<1, a>> \notin have} ELSE {}

Need(i) == {a \in Wallets(Part(i)) : <<Kind(i), a>> \notin have}

Refuse ==
    IF job.auto THEN result' = Append(result, "refused") /\ pc' = "load"
                ELSE result' = result /\ pc' = "died"

(* The next transaction.  mmgen-txsign passes the list itself, and when it *)
(* has become empty the arguments, which are used up, and the default      *)
(* wallet are looked at again; autosign passes a copy.                     *)
LoadTx ==
    /\ pc = "load" /\ k < Len(job.txs)
    /\ k' = k + 1
    /\ copied' = (job.auto \/ files = <<>>)
    /\ pool' = IF files # <<>> THEN files ELSE job.dflt
    /\ pc' = IF pool' = <<>> /\ job.kal \union job.flat = {} THEN "died" ELSE "begin"
    /\ saved' = <<>> /\ have' = {} /\ keys' = {} /\ stage' = 1
    /\ UNCHANGED <<job, files, sid, checked, result>>

(* Keys for inputs that are not the wallet's come from the list of keys,   *)
(* and the memo of a swap is read: it names an address of the wallet.      *)
Begin ==
    /\ pc = "begin"
    /\ LET other == Current.ins \ Wallets(Current.ins)
       IN IF other \subseteq job.flat /\ (job.anydest \/ Current.memo = Wallets(Current.memo))
          THEN keys' = other /\ stage' = (IF job.kal = {} THEN 4 ELSE 1)
               /\ pc' = "add" /\ result' = result
          ELSE Refuse /\ UNCHANGED <<keys, stage>>
    /\ UNCHANGED <<job, files, k, pool, copied, saved, sid, checked, have>>

Given(i) == IF i <= 3 THEN Need(i) \cap job.kal ELSE Need(i)

NeedsSeeds(i) == i > 3 /\ ~({a.sid : a \in Need(i)} \subseteq Range(saved))

(* The addresses generated are compared with those in the file; keys are   *)
(* kept for the inputs only.                                               *)
AddKeys ==
    /\ pc = "add" /\ stage <= 6 /\ ~NeedsSeeds(stage)
    /\ IF \E a \in Given(stage) : ~a.true
       THEN Refuse /\ UNCHANGED <<have, keys, stage>>
       ELSE /\ have' = have \union {<<Kind(stage), a>> : a \in Given(stage)}
            /\ keys' = IF Kind(stage) = 1 THEN keys \union Given(stage) ELSE keys
            /\ stage' = stage + 1
            /\ UNCHANGED <<pc, result>>
    /\ UNCHANGED <<job, files, k, pool, copied, saved, sid, checked>>

-------------------------------------------------------------------------------
(* get_seed_for_seed_id().  The order in which the seeds are needed is     *)
(* that of the addresses in the transaction, which may be any.             *)
Seek(s) ==
    /\ pc = "add" /\ stage <= 6 /\ NeedsSeeds(stage)
    /\ s \in {a.sid : a \in Need(stage)} \ Range(saved)
    /\ sid' = s /\ checked' = FALSE /\ pc' = "seek"
    /\ UNCHANGED <<job, files, k, pool, copied, saved, stage, have, keys, result>>

Keep(s) ==
    /\ saved' = IF s \in Range(saved) THEN saved ELSE Append(saved, s)
    /\ pc' = IF s = sid THEN "add" ELSE "seek"

(* Seed sources are opened one by one until the seed is found.             *)
OpenWallet ==
    /\ pc = "seek" /\ pool # <<>>
    /\ pool' = Tail(pool)
    /\ files' = IF copied THEN files ELSE pool'
    /\ Keep(Head(pool))
    /\ UNCHANGED <<job, k, copied, stage, sid, checked, have, keys, result>>

(* Then the sub-seeds of the first seed found are searched ...             *)
SearchSubseeds ==
    /\ pc = "seek" /\ pool = <<>> /\ saved # <<>> /\ ~checked
    /\ checked' = TRUE
    /\ IF sid \in Subseeds[Head(saved)] THEN Keep(sid) ELSE UNCHANGED <<saved, pc>>
    /\ UNCHANGED <<job, files, k, pool, copied, stage, sid, have, keys, result>>

Exhausted == pool = <<>> /\ (saved = <<>> \/ checked)

(* ... and the user types the seed or the parent of the sub-seed.          *)
AskUser(s) ==
    /\ pc = "seek" /\ Exhausted /\ job.infmt
    /\ IF s = sid \/ sid \in Subseeds[s]
       THEN Keep(sid) /\ result' = result
       ELSE Refuse /\ saved' = saved
    /\ UNCHANGED <<job, files, k, pool, copied, stage, sid, checked, have, keys>>

NoSource ==
    /\ pc = "seek" /\ Exhausted /\ ~job.infmt
    /\ Refuse
    /\ UNCHANGED <<job, files, k, pool, copied, seeking>>

(* The keys are passed to the coin daemon, or used here; either may fail.  *)
Sign ==
    /\ pc = "add" /\ stage > 6
    /\ \E how \in {"signed", "failed"} : result' = Append(result, how)
    /\ pc' = "load"
    /\ UNCHANGED <<job, files, k, pool, copied, seeking>>

-------------------------------------------------------------------------------
Init ==
    /\ job \in Jobs
    /\ pc = "load" /\ k = 0
    /\ files = job.files \o job.dflt
    /\ pool = <<>> /\ copied = FALSE /\ saved = <<>> /\ stage = 1
    /\ sid = NoSeed /\ checked = FALSE
    /\ have = {} /\ keys = {} /\ result = <<>>

Next ==
    \/ LoadTx \/ Begin \/ AddKeys \/ OpenWallet \/ SearchSubseeds \/ NoSource \/ Sign
    \/ \E s \in DOMAIN Subseeds : Seek(s) \/ AskUser(s)

Spec == Init /\ [][Next]_vars

-------------------------------------------------------------------------------
(* When keys are passed to the signer, every address of the transaction    *)
(* with an MMGen ID, its inputs, its outputs and the destination of a      *)
(* swap, has been found to belong to that ID by the seed or the            *)
(* key-address file; there is a key for every input, and for nothing else. *)
SignedIsVerified ==
    pc = "add" /\ stage > 6 =>
        /\ \A a \in Wallets(Current.ins \union Current.outs \union Current.memo) : a.true
        /\ keys = Current.ins

(* There is a reason to refuse a transaction: an address that is not what  *)
(* its ID says, a seed none of the wallet files has, a key that was not    *)
(* given, or a swap to a stranger.                                         *)
Deserved(tx) ==
    \/ \E a \in tx.ins \union tx.outs \union tx.memo :
          a.sid # NoSeed /\ (~a.true \/ a.sid \notin Range(job.files \o job.dflt))
    \/ ~(tx.ins \ Wallets(tx.ins) \subseteq job.flat)
    \/ tx.memo # Wallets(tx.memo)

(* The signing program refuses no transaction without a reason of its own, *)
(* whatever became of those before it and however many there are.          *)
AutosignRefusesOnly == job.auto => \A j \in DOMAIN result : result[j] = "refused" => Deserved(job.txs[j])

(* The same of mmgen-txsign: the seeds that sign one transaction sign the  *)
(* next.                                                                   *)
TxsignRefusesOnly == ~job.auto /\ pc = "died" => Deserved(Current)
===============================================================================
