------------------------------- MODULE EthTx --------------------------------
(* Ethereum transactions: the encoding (RLP), the signature and its        *)
(* network, tokens and swaps, and the checks between the command that      *)
(* makes the transaction, the offline signer and the command that sends it *)
(* (proto/eth/rlp, proto/eth/tx, proto/eth/contract.py).  The encoding is  *)
(* that of the program with smaller numbers: Str for 128, Few for 56 and   *)
(* LenBytes for 8, so that a byte is one of 0 .. Base - 1.  An address, an *)
(* amount and a method ID are one byte each.                               *)
EXTENDS Naturals, Sequences, FiniteSets

CONSTANTS Str, Few, LenBytes,
    Jobs,       \* see Init
    Router, Token, Vault, Expiry    \* addresses of contracts and vault; of a quote

VARIABLES job, pc,
    file,       \* the transaction file
    etx,        \* the transaction sent
    signed,     \* what has been signed: [key, hash]
    altered     \* what of the file has been altered: bound, and history

ethVars == <<job, pc, file, etx, signed, altered>>

-------------------------------------------------------------------------------
(* An item is <<"s", bytes>> or <<"l", items>>.                            *)
List == Str + Few + LenBytes
Base == List + Few + LenBytes
BigEndian(n) == IF n = 0 THEN <<>> ELSE IF n < Base THEN <<n>> ELSE <<n \div Base, n % Base>>
FromBigEndian(bytes) ==
    LET val[n \in 0 .. Len(bytes)] == IF n = 0 THEN 0 ELSE val[n - 1] * Base + bytes[n] IN val[Len(bytes)]

length_prefix(len, offset) ==
    IF len < Few THEN <<offset + len>>
    ELSE <<offset + Few - 1 + Len(BigEndian(len))>> \o BigEndian(len)

(* Of the item, and of those in it: a path is the places of the lists on   *)
(* the way to one.                                                         *)
encode_raw(item) ==
    LET within[path \in Seq(Nat)] == IF path = <<>> THEN item ELSE within[SubSeq(path, 1, Len(path) - 1)][2][path[Len(path)]]
        code[path \in Seq(Nat)] ==
            LET it == within[path]
                upto[n \in 0 .. Len(it[2])] == IF n = 0 THEN <<>> ELSE upto[n - 1] \o code[Append(path, n)]
                payload == IF it[1] = "s" THEN it[2] ELSE upto[Len(it[2])]
            IN IF it[1] = "s" /\ Len(payload) = 1 /\ payload[1] < Str THEN payload
               ELSE length_prefix(Len(payload), IF it[1] = "s" THEN Str ELSE List) \o payload
    IN code[<<>>]

Slice(rlp, start, len) == SubSeq(rlp, start, IF start + len - 1 > Len(rlp) THEN Len(rlp) ELSE start + len - 1)
Has(rlp, pos) == pos \in DOMAIN rlp
Bad == [ok |-> FALSE]
Prefix(kind, len, start) == [ok |-> TRUE, kind |-> kind, len |-> len, start |-> start]
LongPrefix(rlp, at, kind, lens) ==
    LET len == FromBigEndian(Slice(rlp, at + 1, lens)) IN
    IF (Has(rlp, at + 1) /\ rlp[at + 1] = 0) \/ len < Few THEN Bad ELSE Prefix(kind, len, at + 1 + lens)

ConsumeUnchecked(rlp, at) ==
    IF ~Has(rlp, at) THEN Bad
    ELSE LET first == rlp[at]
             kind == IF first < List THEN "s" ELSE "l"
             len == first - (IF first < List THEN Str ELSE List)
         IN IF first < Str THEN Prefix("s", 1, at)
            ELSE IF len < Few THEN Prefix(kind, len, at + 1)
            ELSE LongPrefix(rlp, at, kind, len - Few + 1)

(* A single byte that stands for itself may not be written with a prefix.  *)
consume_length_prefix(rlp, at) ==
    IF Has(rlp, at) /\ rlp[at] = Str + 1 /\ ~(Has(rlp, at + 1) /\ rlp[at + 1] >= Str) THEN Bad
    ELSE ConsumeUnchecked(rlp, at)

(* The items from one place to another.                                    *)
consume_items(rlp) ==
    LET items[at \in Nat, end \in Nat] ==
            IF at >= end THEN [ok |-> at = end, items |-> <<>>]
            ELSE LET pfx == consume_length_prefix(rlp, at) IN
                 IF ~pfx.ok THEN Bad
                 ELSE LET past == pfx.start + pfx.len
                          inner == IF pfx.kind = "l" THEN items[pfx.start, past]
                                   ELSE [ok |-> TRUE, items |-> Slice(rlp, pfx.start, pfx.len)]
                          rest == items[past, end]
                      IN IF inner.ok /\ rest.ok
                         THEN [ok |-> TRUE, items |-> <<<<pfx.kind, inner.items>>>> \o rest.items]
                         ELSE Bad
    IN items

decode(rlp) ==
    LET res == consume_items(rlp)[1, Len(rlp) + 1]
    IN IF res.ok /\ Len(res.items) = 1 THEN [ok |-> TRUE, item |-> res.items[1]] ELSE Bad

-------------------------------------------------------------------------------
(* A transaction: [nonce, gasprice, startgas, to, value, data, v, r, s].   *)
Bytes(seq) == <<"s", seq>>
BigEndianInt(n) == Bytes(BigEndian(n))
Unsigned(tx) == <<BigEndianInt(tx.nonce), BigEndianInt(tx.gasprice), BigEndianInt(tx.startgas), Bytes(tx.to),
                  BigEndianInt(tx.value), Bytes(tx.data)>>
Serialize(tx) == <<"l", Unsigned(tx) \o <<BigEndianInt(tx.v), BigEndianInt(tx.r), BigEndianInt(tx.s)>>>>

IsInt(item) == item[1] = "s" /\ (item[2] = <<>> \/ item[2][1] # 0)
Deserialize(res) ==
    IF ~(res.ok /\ res.item[1] = "l" /\ Len(res.item[2]) = 9) THEN Bad
    ELSE LET fld == res.item[2]  num(n) == FromBigEndian(fld[n][2]) IN
         IF ~((\A n \in {1, 2, 3, 5, 7, 8, 9} : IsInt(fld[n])) /\ fld[4][1] = "s" /\ Len(fld[4][2]) <= 1 /\ fld[6][1] = "s")
         THEN Bad
         ELSE [ok |-> TRUE, tx |-> [nonce |-> num(1), gasprice |-> num(2), startgas |-> num(3), to |-> fld[4][2],
                                    value |-> num(5), data |-> fld[6][2], v |-> num(7), r |-> num(8), s |-> num(9)]]

(* Network 0 is that of no ID.  A signature is good for one hash and key.  *)
network_id(tx) == IF tx.v \in {27, 28} THEN 0 ELSE (tx.v - 1) \div 2 - 17
recid(tx) == IF tx.v \in {27, 28} THEN tx.v - 27 ELSE tx.v - 35 - network_id(tx) * 2
get_sighash(tx, net) == <<Unsigned(tx), net>>
SignatureBit(key) == key % 2
Sign(tx, key, net) ==
    [tx EXCEPT !.v = IF net = 0 THEN 27 + SignatureBit(key) ELSE 35 + SignatureBit(key) + net * 2, !.r = key, !.s = 1]
Nobody == 0
sender(tx, signs) ==
    IF tx.s = 1 /\ [key |-> tx.r, hash |-> get_sighash(tx, network_id(tx))] \in signs /\ recid(tx) = SignatureBit(tx.r)
    THEN tx.r ELSE Nobody

-------------------------------------------------------------------------------
(* What is called in a contract.                                           *)
Transfer == 3
Approve == 4
Deposit == 5
create_transfer_data(to, amt, op) == <<op, to, amt>>
create_deposit_with_expiry_data(o, vault, memo) ==
    <<Deposit, vault, o.token[1], o.amt * o.decimals, 5, o.expiry, Len(memo)>> \o memo
IsToken == job.kind \in {"token", "tokenswap"}
IsSwap == job.kind \in {"swap", "tokenswap"}
TokenOp(is_swap) == IF is_swap THEN Approve ELSE Transfer
EthTrans(o, to, value, data) ==
    [nonce |-> o.nonce, gasprice |-> o.gasPrice, startgas |-> o.startGas, to |-> to, value |-> value, data |-> data,
     v |-> 0, r |-> 0, s |-> 0]

(* A token's decimals are here what an amount is multiplied by.            *)
PlainTx(fl) == EthTrans(fl.obj, fl.obj.to, fl.obj.amt, IF fl.is_swap THEN fl.swap_memo ELSE fl.obj.data)
TokenTx(fl) ==
    EthTrans(fl.obj, fl.obj.token, 0,
             create_transfer_data(fl.obj.to[1], fl.obj.amt * fl.obj.decimals, TokenOp(fl.is_swap)))
RouterTx(fl) ==
    EthTrans([fl.obj EXCEPT !.nonce = @ + 1, !.startGas = fl.obj.router_gas], fl.obj.to, 0,
             create_deposit_with_expiry_data(fl.obj, fl.token_vault_addr, fl.swap_memo))
Parts(fl) == IF IsToken THEN <<TokenTx(fl)>> \o (IF fl.is_swap THEN <<RouterTx(fl)>> ELSE <<>>) ELSE <<PlainTx(fl)>>

(* The recipient of a token swap is the router, which is approved; the     *)
(* vault is in a field of its own.                                         *)
Outputs == IF job.kind = "contract" THEN <<>> ELSE <<[addr |-> IF job.kind = "tokenswap" THEN <<Router>> ELSE job.to, amt |-> job.amt]>>

(* The file: the serialized data, and attributes of the transaction.       *)
AsMade ==
    LET paid == Outputs # <<>>
        o == [from |-> job.from, to |-> IF paid THEN Outputs[1].addr ELSE <<>>, amt |-> IF paid THEN job.amt ELSE 0,
              gasPrice |-> 1, startGas |-> 2, nonce |-> job.nonce, chainId |-> job.net, data |-> job.data,
              token |-> <<Token>>, decimals |-> 1, expiry |-> Expiry, router_gas |-> 3]
    IN [obj |-> o, outs |-> Outputs, addr |-> job.from,
        is_swap |-> IsSwap, swap_memo |-> job.memo, token_vault_addr |-> Vault]
make_txobj == pc = "create" /\ pc' = "unsigned" /\ file' = AsMade /\ UNCHANGED <<job, etx, signed, altered>>

(* Before it is signed any one item of the file may be altered, each with  *)
(* its name; and after, a byte of what was signed, with or without the ID  *)
(* that is made from it, or an attribute.                                  *)
Numbers == {"from", "amt", "gasPrice", "startGas", "nonce", "chainId"}
    \union (IF IsToken THEN {"decimals", "expiry", "router_gas"} ELSE {})
ByteItems == {"to", "data"} \union (IF IsToken THEN {"token"} ELSE {})
Other(bytes, name) == {<<9>>} \union (IF name = "token" THEN {} ELSE {<<>>} \ {bytes})
AlterAttribute ==
    \/ file.outs # <<>> /\ altered' = "outputs" /\ \E name \in {"addr", "amt"} :
            file' = [file EXCEPT !.outs[1][name] = IF name = "amt" THEN @ + 1 ELSE <<9>>]
    \/ altered' = "inputs" /\ file' = [file EXCEPT !.addr = @ + 1]
    \/ IsSwap /\ altered' = "is_swap" /\ file' = [file EXCEPT !.is_swap = FALSE]
    \/ IsSwap /\ altered' = "swap_memo" /\ \E memo \in Other(file.swap_memo, "swap_memo") : file' = [file EXCEPT !.swap_memo = memo]
    \/ IsSwap /\ IsToken /\ altered' = "token_vault_addr" /\ file' = [file EXCEPT !.token_vault_addr = @ + 1]
AlterUnsigned == pc = "unsigned" /\ altered = "" /\ UNCHANGED <<job, pc, etx, signed>> /\
    \/ \E name \in Numbers : altered' = name /\ file' = [file EXCEPT !.obj[name] = @ + 1]
    \/ \E name \in ByteItems : altered' = name /\ \E new \in Other(file.obj[name], name) : file' = [file EXCEPT !.obj[name] = new]
    \/ AlterAttribute

AlterSigned == pc = "signed" /\ altered = "" /\ UNCHANGED <<job, pc, etx, signed>> /\
    \/ \E n \in DOMAIN file.raw : \E pos \in DOMAIN file.raw[n], val \in 0 .. Base - 1 :
        LET raw == [file.raw EXCEPT ![n][pos] = val] IN
        \/ altered' = "signed" /\ file' = [file EXCEPT !.raw = raw]
        \/ altered' = "signed, coin_txid" /\ file' = [file EXCEPT !.raw = raw, !.txid = raw]
    \/ AlterAttribute

(* Checked when a signed transaction is made, and when its file is read.   *)
check_serialized_integrity(o, raws) ==
    \E dec \in {[n \in DOMAIN raws |-> decode(raws[n]).item[2]]} :
    LET fld(n) == dec[1][n][2]
        to == IF IsToken THEN o.token ELSE o.to
        dep == dec[2][6][2]
    IN /\ fld(1) = BigEndian(o.nonce)
       /\ to # <<>> => fld(4) = to
       /\ ~IsToken => (o.amt > 0 => FromBigEndian(fld(5)) = o.amt) /\ (file.is_swap => fld(6) = file.swap_memo)
       /\ IsToken => fld(5) = <<>> /\ fld(6) = <<TokenOp(file.is_swap), o.token_to[1], o.amt * o.decimals>>
       /\ IsToken /\ file.is_swap =>
            /\ Len(dep) > 3 /\ dep[1] = Deposit /\ dep[2] = file.token_vault_addr /\ dep[4] = o.amt * o.decimals
            /\ SubSeq(dep, 8, 7 + Len(file.swap_memo)) = file.swap_memo

(* The key is that of the input's address.  The rest of the serialized     *)
(* data is compared with nothing.                                          *)
MismatchErr(o) ==
    \/ o.from # file.addr
    \/ file.outs # <<>> /\ (o.to # file.outs[1].addr \/ o.amt # file.outs[1].amt)
sign == pc = "unsigned" /\ UNCHANGED <<job, etx, altered>> /\
    LET o == file.obj IN
    IF MismatchErr(o) \/ (o.data # <<>> /\ o.to # <<>> /\ ~file.is_swap /\ ~IsToken)
    THEN pc' = "refused" /\ UNCHANGED <<file, signed>>
    ELSE \E txs \in {[n \in DOMAIN Parts(file) |-> Sign(Parts(file)[n], file.addr, o.chainId)]} :
         \E raws \in {[n \in DOMAIN txs |-> encode_raw(Serialize(txs[n]))]} :
         LET signs == {[key |-> file.addr, hash |-> get_sighash(txs[n], o.chainId)] : n \in DOMAIN txs}
             new == [to |-> o.to, amt |-> o.amt, nonce |-> o.nonce, token |-> o.token, token_to |-> o.to, decimals |-> o.decimals]
         IN IF ~(\A n \in DOMAIN txs : sender(txs[n], signs) = o.from) \/ ~check_serialized_integrity(new, raws)
            THEN pc' = "refused" /\ UNCHANGED <<file, signed>>
            ELSE /\ pc' = "signed" /\ signed' = signs
                 /\ file' = [raw |-> raws, txid |-> raws, outs |-> file.outs, addr |-> file.addr, is_swap |-> file.is_swap,
                             swap_memo |-> file.swap_memo, token_vault_addr |-> file.token_vault_addr]

(* A signed token transaction can be read online only: the tracking wallet *)
(* knows the token and its decimals.  There is a second part only if the   *)
(* file says that it is a swap, and its ID is not checked.                 *)
Read == pc = "signed" /\ UNCHANGED <<job, file, signed, altered>> /\
    \E items \in {[n \in IF file.is_swap THEN DOMAIN file.raw ELSE {1} |-> decode(file.raw[n])]} :
    \E res \in {[n \in DOMAIN items |-> Deserialize(items[n])]} :
    LET tx == res[1].tx
        o == [to |-> tx.to, amt |-> IF IsToken THEN tx.data[3] ELSE tx.value, nonce |-> tx.nonce, decimals |-> 1,
              token |-> tx.to, token_to |-> IF IsToken THEN <<tx.data[2]>> ELSE <<>>]
    IN IF /\ \A n \in DOMAIN res : res[n].ok
          /\ file.txid[1] = file.raw[1]
          /\ IsToken => tx.to = <<Token>> /\ Len(tx.data) > 2
          /\ check_serialized_integrity(o, file.raw)
       THEN pc' = "sent" /\ etx' = [n \in DOMAIN res |-> res[n].tx]
       ELSE pc' = "refused" /\ etx' = etx

Init == job \in Jobs /\ pc = (IF job.kind \in {"bytes", "item"} THEN "rlp" ELSE "create") /\
    file = <<>> /\ etx = <<>> /\ signed = {} /\ altered = ""
Next == make_txobj \/ AlterUnsigned \/ AlterSigned \/ sign \/ Read

-------------------------------------------------------------------------------
(* No item has two encodings, and none is lost in its encoding.            *)
Canonical ==
    /\ job.kind = "bytes" => \A res \in {decode(job.raw)} : res.ok => encode_raw(res.item) = job.raw
    /\ job.kind = "item" => \A code \in {encode_raw(job.item)} : \A res \in {decode(code)} : res.ok /\ res.item = job.item

(* What of a transaction an altered item of the file reaches with nothing  *)
(* that notices, and where in the data with which a contract is called.    *)
Fields == {"network", "nonce", "gasprice", "startgas", "to", "value", "data"}
Unnoticed(n) ==
    CASE altered = "chainId" -> {"network"}
      [] altered = "nonce" -> {"nonce"}
      [] altered = "gasPrice" -> {"gasprice"}
      [] altered = (IF n = 1 THEN "startGas" ELSE "router_gas") -> {"startgas"}
      [] altered = "amt" /\ Outputs = <<>> -> {"value"}
      [] altered = "data" /\ Outputs = <<>> -> {"data"}
      [] altered = "decimals" -> {"data"}
      [] altered = "is_swap" /\ n = 1 -> {"data"}
      [] altered = "swap_memo" /\ (IsToken => n = 2) -> {"data"}
      [] altered \in {"token_vault_addr", "expiry"} /\ n = 2 -> {"data"}
      [] OTHER -> {}
UnnoticedPlaces(n) ==
    CASE altered = "decimals" -> {n + 2}
      [] altered = "is_swap" -> {1}
      [] altered = "token_vault_addr" -> {2}
      [] altered = "expiry" -> {6}
      [] altered = "swap_memo" -> 7 .. 8 + Len(job.memo)
      [] OTHER -> {}

(* Whatever one item of the file is altered, before signing or after, what *)
(* is sent is what was asked for in all that the alteration does not reach *)
(* unnoticed: the recipient and the token are never others, and the amount *)
(* is another only for other decimals or a contract that is made.  It is   *)
(* signed by the owner of the input or, if an ID was written for other     *)
(* bytes, or where none is checked, by nobody.                             *)
Same(tx, asked, field) == IF field = "network" THEN network_id(tx) = job.net ELSE tx[field] = asked[field]
EthSentAsAsked ==
    pc = "sent" => \A n \in DOMAIN etx :
        LET by == sender(etx[n], signed)  asked == Parts(AsMade)[n] IN
        /\ by \in {job.from, Nobody} /\ (n = 1 /\ altered # "signed, coin_txid" => by = job.from)
        /\ by = job.from =>
            /\ \A field \in Fields \ Unnoticed(n) : Same(etx[n], asked, field)
            /\ IsToken => \A p \in DOMAIN asked.data \ UnnoticedPlaces(n) : etx[n].data[p] = asked.data[p]
        /\ altered = "" => etx[n] = Sign(asked, job.from, job.net)
EthRight == Canonical /\ EthSentAsAsked /\ (altered = "" => pc # "refused")
===============================================================================
