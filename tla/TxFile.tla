------------------------------- MODULE TxFile -------------------------------
(* Bitcoin transactions and their files (tx/file.py, tx/completed.py,      *)
(* proto/btc/tx/base.py): the serialized transaction comes from the coin   *)
(* daemon, unsigned and then signed, and goes through files; daemon and    *)
(* files may be altered on the way.  In a serialized transaction a field   *)
(* is one cell, a natural number, whatever its width: hashes are cells     *)
(* too, and the hash of a transaction is the transaction itself.           *)
EXTENDS Naturals, Sequences, FiniteSets, Functions, TLC

CONSTANTS
    Jobs,       \* what is asked for: see Made
    Values,     \* what an altered cell may become
    MaxInt,     \* proto.max_int, the last sequence number
    MaxData     \* proto.max_op_return_data_len

(* job.ins: [txid, vout, mmtype, seq, amt], seq = 0 where it is not set;   *)
(* job.outs: [addr, data, amt, chg], either addr or data; an address is    *)
(* its format, 1 to 3, and a hash.  The files on disk, by extension.       *)
VARIABLES job, pc, tx, disk,
    faults,     \* bound: what has been altered
    written     \* history: the transactions written, by extension

fileVars == <<job, pc, tx, disk, faults, written>>

-------------------------------------------------------------------------------
(* Serializing: version, inputs, outputs and locktime, and the witnesses   *)
(* before the locktime where there are any.                                *)
OpReturn == 6
PushByte == 8       \* OP_PUSHDATA1
Version == 2
Signature == 7
Redeem == 4         \* the redeem script of a nested Segwit input

AllButLast(seq) == SubSeq(seq, 1, Len(seq) - 1)
Backwards(seq) == [p \in DOMAIN seq |-> seq[Len(seq) + 1 - p]]
Map(seq, Op(_)) == [p \in DOMAIN seq |-> Op(seq[p])]
Joined(seq, Op(_)) == LET upto[n \in 0 .. Len(seq)] == IF n = 0 THEN <<>> ELSE upto[n - 1] \o Op(seq[n]) IN upto[Len(seq)]
ScriptPubKey(out) == IF out.addr = <<>> THEN <<OpReturn, Len(out.data)>> \o out.data ELSE out.addr
Sequence(in) == IF in.seq = 0 THEN MaxInt ELSE in.seq
RawInput(in) == <<in.txid, in.vout, 0, Sequence(in)>>
RawOutput(out) == <<out.amt, Len(ScriptPubKey(out))>> \o ScriptPubKey(out)
RawOutputs(outs) == <<Len(outs)>> \o Joined(outs, RawOutput)
createrawtransaction(ins, outs, lock) ==
    <<Version, Len(ins)>> \o Joined(ins, RawInput) \o RawOutputs(outs) \o <<lock>>

ScriptSig(in) == CASE in.mmtype = "B" -> <<>> [] in.mmtype = "S" -> <<Redeem>> [] OTHER -> <<Signature, Signature>>
Witness(in) == IF in.mmtype \in {"S", "B"} THEN <<2, 1, Signature, 1, Signature>> ELSE <<0>>
SignedInput(in) == <<in.txid, in.vout, Len(ScriptSig(in))>> \o ScriptSig(in) \o <<Sequence(in)>>
signrawtransaction(ins, outs, lock) ==
    LET segwit == \E p \in DOMAIN ins : ins[p].mmtype \in {"S", "B"}
    IN <<Version>> \o (IF segwit THEN <<0, 1>> ELSE <<>>) \o <<Len(ins)>> \o Joined(ins, SignedInput)
       \o RawOutputs(outs) \o (IF segwit THEN Joined(ins, Witness) ELSE <<>>) \o <<lock>>

-------------------------------------------------------------------------------
(* Reading it back.  Reading past the end gives nothing, and the length    *)
(* check at the end fails.                                                 *)
Cells(raw, from, len) == SubSeq(raw, from, IF from + len - 1 > Len(raw) THEN Len(raw) ELSE from + len - 1)
decodeScriptPubKey(spk) ==
    LET skip == IF Len(spk) > 1 /\ spk[2] = PushByte THEN 3 ELSE 2 IN
    CASE Len(spk) = 2 /\ spk[1] \in 1 .. 3 -> <<"addr", spk>>
      [] spk = <<OpReturn>> -> <<"data", <<>>>>
      [] Len(spk) > 1 /\ spk[1] = OpReturn /\ spk[2] \in 1 .. PushByte /\ Len(spk) - skip \in 1 .. MaxData
         -> <<"data", Cells(spk, skip + 1, Len(spk) - skip)>>
      [] OTHER -> <<"error", spk>>

Cell(raw, p) == IF p \in DOMAIN raw THEN raw[p] ELSE 0
(* Where the parts begin: each input and output, the witness of an input   *)
(* and its items; of n of them, the place after the last is the next one.  *)
Successive(first, n, Size(_)) == LET at[p \in 1 .. n + 1] == IF p = 1 THEN first ELSE at[p - 1] + Size(at[p - 1]) IN at
ItemsAt(raw, start) == Successive(start + 1, Cell(raw, start), LAMBDA p : 1 + Cell(raw, p))
WitnessSize(raw, start) == ItemsAt(raw, start)[Cell(raw, start) + 1] - start
Stack(raw, start) ==
    LET at == ItemsAt(raw, start) IN [n \in 1 .. Cell(raw, start) |-> Cells(raw, at[n] + 1, Cell(raw, at[n]))]
InputAt(raw, from, to, wits) ==
    [txid |-> Cell(raw, from), vout |-> Cell(raw, from + 1), ss |-> Cells(raw, from + 3, Cell(raw, from + 2)),
     seq |-> Cell(raw, to - 1), wit |-> wits]
OutputAt(raw, from) == <<decodeScriptPubKey(Cells(raw, from + 2, Cell(raw, from + 1))), Cell(raw, from)>>

(* The inputs are read first, then the outputs, the witnesses, the rest.   *)
ReadRest(raw, wit, nIns, inAt, nOuts, outAt, end, witAt) ==
    LET lock == witAt[IF wit THEN Cell(raw, nIns) + 1 ELSE 1]
        ins == [n \in 1 .. Cell(raw, nIns) |->
                   InputAt(raw, inAt[n], inAt[n + 1], IF wit THEN Stack(raw, witAt[n]) ELSE <<>>)]
        outs == [n \in 1 .. Cell(raw, nOuts) |-> OutputAt(raw, outAt[n])]
    IN IF ~(lock = Len(raw) /\ (wit => Cell(raw, 3) = 1) /\ \A n \in DOMAIN outs : outs[n][1][1] # "error")
       THEN [ok |-> FALSE]
       ELSE [ok |-> TRUE, ins |-> ins, outs |-> outs, lock |-> Cell(raw, lock),
             unsigned |-> <<Cell(raw, 1), Cell(raw, nIns)>>
                 \o Joined(ins, LAMBDA in : <<in.txid, in.vout, 0, in.seq>>)
                 \o Cells(raw, nOuts, end - nOuts) \o <<Cell(raw, lock)>>,
             txid |-> <<Cell(raw, 1)>> \o Cells(raw, nIns, end - nIns) \o <<Cell(raw, lock)>>]
ReadWitnesses(raw, wit, nIns, inAt, nOuts, outAt) ==
    LET end == outAt[Cell(raw, nOuts) + 1]
    IN ReadRest(raw, wit, nIns, inAt, nOuts, outAt, end,
                Successive(end, IF wit THEN Cell(raw, nIns) ELSE 0, LAMBDA p : WitnessSize(raw, p)))
ReadOutputs(raw, wit, nIns, inAt) ==
    LET nOuts == inAt[Cell(raw, nIns) + 1]
    IN ReadWitnesses(raw, wit, nIns, inAt, nOuts,
                     Successive(nOuts + 1, Cell(raw, nOuts), LAMBDA p : 2 + Cell(raw, p + 1)))
ReadInputs(raw, wit, nIns) ==
    ReadOutputs(raw, wit, nIns, Successive(nIns + 1, Cell(raw, nIns), LAMBDA p : 4 + Cell(raw, p + 2)))
DeserializeTX(raw) == LET wit == Cell(raw, 2) = 0 IN ReadInputs(raw, wit, IF wit THEN 4 ELSE 2)

TxOut(out) == <<IF out.addr = <<>> THEN <<"data", out.data>> ELSE <<"addr", out.addr>>, out.amt>>
(* Sorted lists are equal when each entry is there as many times.          *)
Sorted(seq) == [val \in Range(seq) |-> Cardinality({p \in DOMAIN seq : seq[p] = val})]

InputsMatch(new) ==
    LET dtx == DeserializeTX(new.serialized)
    IN /\ dtx.ok
       /\ dtx.lock = new.locktime
       /\ Map(dtx.ins, LAMBDA in : in.seq) = Map(new.inputs, Sequence)
       /\ Sorted(Map(dtx.ins, LAMBDA in : <<in.txid, in.vout>>)) = Sorted(Map(new.inputs, LAMBDA in : <<in.txid, in.vout>>))
       /\ new.txid = dtx.unsigned

CheckSerializedIntegrity(new) ==
    InputsMatch(new) /\ Sorted(DeserializeTX(new.serialized).outs) = Sorted(Map(new.outputs, TxOut))

(* "yes" if there are signatures, "no" if there are none.                  *)
CheckSigs(new) ==
    LET ins == DeserializeTX(new.serialized).ins
        Nested(ss) == ss = <<Redeem>>
        Right(n) ==
            LET in == ins[n]  type == new.inputs[n].mmtype
            IN IF in.ss = <<>> \/ Nested(in.ss)
               THEN Len(in.wit) = 2 /\ Len(in.wit[2]) = 1 /\ type = (IF in.ss = <<>> THEN "B" ELSE "S")
               ELSE type \notin {"S", "B"} /\ in.wit = <<>> /\ Len(in.ss) = 2
    IN IF \A n \in DOMAIN ins : ins[n].ss = <<>> /\ ins[n].wit = <<>> THEN "no" ELSE IF \A n \in DOMAIN ins : Right(n) THEN "yes" ELSE "error"

-------------------------------------------------------------------------------
(* The file: a JSON object with the attributes that are set, or, in the    *)
(* old format, lines whose meaning their number tells.  The checksum is    *)
(* the data itself.                                                        *)
Sum(seq) == FoldFunction(LAMBDA val, acc : val + acc, 0, seq)
ChangeOut(out) == out.chg
send_amt(outs) ==
    LET paying == SelectSeq(outs, LAMBDA out : ~ChangeOut(out)) IN
    Sum(Map(IF Len(SelectSeq(outs, LAMBDA out : out.data = <<>>)) = 1 THEN outs ELSE paying, LAMBDA out : out.amt))

attrs == {"coin", "chain", "txid", "timestamp", "blockcount", "serialized", "inputs", "outputs"}
extra_attrs == [locktime |-> 0, comment |-> "", coin_txid |-> <<>>, sent_timestamp |-> 0, is_swap |-> FALSE]
swap_attrs == [swap_quote_expiry |-> 0, swap_recv_addr_mmid |-> ""]
Restricted(rec, names) == [name \in names |-> rec[name]]
SetIn(new, optional) == {name \in DOMAIN optional : new[name] # optional[name]}

OutputDict(out) == Restricted(out, {"addr", "data", "amt"} \union (IF out.chg THEN {"chg"} ELSE {}))
OutputOf(dict) == [addr |-> dict.addr, data |-> dict.data, amt |-> dict.amt, chg |-> "chg" \in DOMAIN dict]

format_data_json(new) ==
    [Restricted(new, attrs \union SetIn(new, extra_attrs) \union (IF new.is_swap THEN SetIn(new, swap_attrs) ELSE {}))
        EXCEPT !["outputs"] = Map(@, OutputDict)] @@ [send_amt |-> send_amt(new.outputs)]
parse_data_json(data) ==
    LET Given(optional) == Restricted(data, DOMAIN data \intersect DOMAIN optional) @@ optional
        swap == IF Given(extra_attrs).is_swap THEN Given(swap_attrs) ELSE swap_attrs
        outs == Map(data["outputs"], OutputOf)
    IN [ok |-> send_amt(outs) = data["send_amt"],
        tx |-> [Restricted(data, attrs) EXCEPT !["outputs"] = outs] @@ Given(extra_attrs) @@ swap @@ [format |-> "json"]]

(* A line of the old format; what is in none of the others is in the       *)
(* first, with the coin and the locktime only where they are needed.       *)
Metadata(new) ==
    (IF new.coin = "btc" THEN <<>> ELSE <<new.coin>>)
    \o <<new.chain, new.txid, send_amt(new.outputs), new.timestamp, [num |-> new.blockcount]>>
    \o (IF new.locktime = 0 THEN <<>> ELSE <<[LT |-> new.locktime]>>)
Dash == [b58 |-> ""]
format_data_legacy(new) ==
    <<Metadata(new), new.serialized, new.inputs, Map(new.outputs, OutputDict)>>
    \o (IF new.comment = "" THEN <<>> ELSE <<[b58 |-> new.comment]>>)
    \o (IF new.coin_txid = <<>> THEN <<>> ELSE (IF new.comment = "" THEN <<Dash>> ELSE <<>>) \o <<[hex |-> new.coin_txid]>>)
    \o (IF new.sent_timestamp = 0 THEN <<>> ELSE <<[Sent |-> new.sent_timestamp]>>)

Is(line, kind) == kind \in DOMAIN line
LineIs(lines, n, kind) == Len(lines) >= n => Is(lines[n], kind)
LineOr(lines, n, kind, none) == IF Len(lines) >= n THEN lines[n][kind] ELSE none
parse_data_legacy(lines) ==
    LET well == Len(lines) \in 4 .. 7 /\ LineIs(lines, 7, "Sent") /\ LineIs(lines, 6, "hex") /\ LineIs(lines, 5, "b58")
        meta == lines[1]
        locked == Is(meta[Len(meta)], "LT")
        items == IF locked THEN AllButLast(meta) ELSE meta
        rest == IF Len(items) = 6 THEN Tail(items) ELSE items
        outs == Map(lines[4], OutputOf)
    IN IF ~well THEN [ok |-> FALSE]
       ELSE [ok |-> send_amt(outs) = rest[3],
             tx |-> [coin |-> IF Len(items) = 6 THEN Head(items) ELSE "btc", chain |-> rest[1], txid |-> rest[2],
                     timestamp |-> rest[4], blockcount |-> rest[5].num, serialized |-> lines[2], inputs |-> lines[3],
                     outputs |-> outs, locktime |-> IF locked THEN meta[Len(meta)].LT ELSE 0,
                     comment |-> LineOr(lines, 5, "b58", ""), coin_txid |-> LineOr(lines, 6, "hex", <<>>),
                     sent_timestamp |-> LineOr(lines, 7, "Sent", 0), format |-> "legacy", is_swap |-> FALSE] @@ swap_attrs]

MMGenTxFile(new) ==
    LET body == IF new.format = "json" THEN format_data_json(new) ELSE format_data_legacy(new)
    IN [format |-> new.format, chksum |-> body, body |-> body]
Parse(file) ==
    IF file.chksum # file.body THEN [ok |-> FALSE]
    ELSE IF file.format = "json" THEN parse_data_json(file.body) ELSE parse_data_legacy(file.body)

(* A file opened by a command that takes signed, or unsigned, transactions *)
Opens(file, signed) ==
    LET new == Parse(file)
    IN new.ok /\ CheckSerializedIntegrity(new.tx) /\ CheckSigs(new.tx) = (IF signed THEN "yes" ELSE "no")

-------------------------------------------------------------------------------
(* What daemon or disk may make of a transaction: one cell different,      *)
(* missing or twice, or inputs or outputs in another order.                *)
Alterations(raw) ==
    {[raw EXCEPT ![p] = val] : p \in DOMAIN raw, val \in Values} \union {SubSeq(raw, 1, p - 1) \o SubSeq(raw, p + 1, Len(raw)) : p \in DOMAIN raw}
    \union {SubSeq(raw, 1, p) \o SubSeq(raw, p, Len(raw)) : p \in DOMAIN raw}
Replies(honest, others) == {honest} \union (IF faults > 0 THEN {} ELSE Alterations(honest) \union others)
(* In a file, any item of the transaction, with the amount sent that       *)
(* follows from it, and the checksum made to fit or not.                   *)
AlteredItems(was) ==
    {[was EXCEPT !.serialized = raw] : raw \in Alterations(was.serialized)}
    \union {[was EXCEPT !.locktime = val] : val \in Values} \union {[was EXCEPT ![id] = @ \o <<1>>] : id \in {"txid", "coin_txid"}}
    \union {[was EXCEPT !.inputs[p][item] = val] :
        p \in DOMAIN was.inputs, item \in {"txid", "vout", "seq", "amt"}, val \in Values}
    \union {[was EXCEPT !.inputs[p].mmtype = type] : p \in DOMAIN was.inputs, type \in {"L", "S", "B"}}
    \union {[was EXCEPT !.outputs[p].amt = val] : p \in DOMAIN was.outputs, val \in Values \ {0}}
    \union {[was EXCEPT !.outputs[p].addr = IF @ = <<>> THEN @ ELSE <<@[1], val>>] : p \in DOMAIN was.outputs, val \in Values}
    \union {[was EXCEPT !.outputs[p].data = IF @ = <<>> THEN @ ELSE <<val>>] : p \in DOMAIN was.outputs, val \in Values}
    \union {[was EXCEPT !.outputs[p].chg = ~@] : p \in DOMAIN was.outputs}
AlteredFiles(file) ==
    {MMGenTxFile(new) : new \in AlteredItems(Parse(file).tx)}
    \union {[MMGenTxFile(new) EXCEPT !.chksum = file.chksum] : new \in AlteredItems(Parse(file).tx)}

Blank(req) == [
    coin |-> req.coin, chain |-> "mainnet", txid |-> <<>>, timestamp |-> 1, blockcount |-> 1, serialized |-> <<>>,
    inputs |-> req.ins, outputs |-> req.outs, locktime |-> 0, comment |-> req.comment, coin_txid |-> <<>>,
    sent_timestamp |-> 0, is_swap |-> req.swap, swap_quote_expiry |-> IF req.swap THEN 1 ELSE 0,
    swap_recv_addr_mmid |-> "", format |-> req.format]

Fault(raw, honest) == faults' = IF raw = honest THEN faults ELSE faults + 1
Write(new, ext) ==
    /\ disk' = (ext :> MMGenTxFile(new)) @@ disk /\ written' = (ext :> new) @@ written
    /\ pc' = "idle"
End(how) == pc' = how /\ UNCHANGED <<disk, written>>

(* The locktime is put in by mmgen-txcreate itself, and the transaction's  *)
(* ID is made now, once for all.                                           *)
create_serialized ==
    /\ pc = "create"
    /\ LET honest == createrawtransaction(job.ins, job.outs, 0)
           others == {createrawtransaction(Backwards(job.ins), job.outs, 0), createrawtransaction(job.ins, Backwards(job.outs), 0)}
       IN \E ret \in Replies(honest, others) :
            LET raw == IF job.lock = 0 THEN ret ELSE AllButLast(ret) \o <<job.lock>>
                new == [Blank(job) EXCEPT !.serialized = raw, !.txid = raw, !.locktime = job.lock]
            IN /\ Fault(ret, honest) /\ tx' = new /\ UNCHANGED job
               /\ IF CheckSerializedIntegrity(new) /\ CheckSigs(new) = "no" THEN Write(new, "rawtx") ELSE End("died")

Alter == pc = "idle" /\ faults = 0 /\ faults' = 1 /\ UNCHANGED <<job, pc, tx, written>> /\
    \E ext \in DOMAIN disk : \E file \in AlteredFiles(disk[ext]) : disk' = (ext :> file) @@ disk

(* mmgen-txsign.  The comment may be edited.  How an input is signed       *)
(* depends on its script, whatever type the file says it is of.            *)
Scripted(in) ==
    [in EXCEPT !.mmtype = (CHOOSE was \in Range(job.ins) : <<was.txid, was.vout>> = <<in.txid, in.vout>>).mmtype]
Sign ==
    /\ pc = "idle" /\ "sigtx" \notin DOMAIN disk
    /\ IF ~Opens(disk["rawtx"], FALSE) THEN End("unsigned") /\ UNCHANGED <<tx, faults, job>>
       ELSE LET old == Parse(disk["rawtx"]).tx
                honest == signrawtransaction(Map(old.inputs, Scripted), old.outputs, old.locktime)
            IN \E raw \in Replies(honest, {}), note \in {old.comment, "edited"} :
                LET new == [old EXCEPT !.serialized = raw, !.comment = note]
                IN /\ Fault(raw, honest) /\ UNCHANGED job
                   /\ IF CheckSerializedIntegrity(new) /\ CheckSigs(new) = "yes"
                      THEN LET signed == [new EXCEPT !.coin_txid = DeserializeTX(raw).txid]
                           IN tx' = signed /\ Write(signed, "sigtx")
                      ELSE tx' = tx /\ End("unsigned")

(* mmgen-txsend, given any of the files.  The transaction goes to the      *)
(* network, and the record of it to disk if the ID the network gives it    *)
(* is the file's.  (The user's own node sends it: a proxy's answer that is *)
(* another only leads to a warning.)                                       *)
Send == pc = "idle" /\ UNCHANGED <<job, faults>> /\
    \E ext \in DOMAIN disk :
        IF ~Opens(disk[ext], TRUE) THEN End("refused") /\ tx' = tx
        ELSE LET sent == [Parse(disk[ext]).tx EXCEPT !.sent_timestamp = 2, !.blockcount = 2]
             IN /\ tx' = sent
                /\ IF DeserializeTX(sent.serialized).txid # sent.coin_txid THEN End("mismatch")
                   ELSE /\ pc' = "sent" /\ disk' = ("subtx" :> MMGenTxFile(sent)) @@ disk
                        /\ written' = ("subtx" :> sent) @@ written

Init == job \in Jobs /\ pc = "create" /\ tx = Blank(job) /\ disk = <<>> /\ written = <<>> /\ faults = 0
Next == create_serialized \/ Alter \/ Sign \/ Send

-------------------------------------------------------------------------------
(* What is written is what is read, and is never refused.                  *)
ReadAsWritten ==
    faults = 0 => pc \notin {"died", "unsigned", "mismatch"} /\ \A ext \in DOMAIN disk :
        Parse(disk[ext]) = [ok |-> TRUE, tx |-> written[ext]] /\ Opens(disk[ext], ext # "rawtx")

(* What is sent spends the inputs that were chosen and pays what was       *)
(* asked, whatever daemon or disk did to it on the way (the order and the  *)
(* version may be others); and the record of it names those inputs and     *)
(* outputs and the ID it has in the network.  Nothing checks what the file *)
(* says of the value and the type of an input, and which output is the     *)
(* change.                                                                 *)
Place(in) == <<in.txid, in.vout, Sequence(in)>>
SentAsAsked ==
    pc \in {"sent", "mismatch"} =>
        LET dtx == DeserializeTX(tx.serialized)
        IN /\ Sorted(dtx.outs) = Sorted(Map(job.outs, TxOut)) /\ dtx.lock = job.lock
           /\ Sorted(Map(dtx.ins, LAMBDA in : <<in.txid, in.vout, in.seq>>)) = Sorted(Map(job.ins, Place))
           /\ Map(tx.inputs, Place) = Map(job.ins, Place) /\ Map(tx.outputs, TxOut) = Map(job.outs, TxOut)
           /\ pc = "sent" => tx.coin_txid = dtx.txid

FileRight == ReadAsWritten /\ SentAsAsked
===============================================================================
