------------------------------ MODULE Listings ------------------------------
(* What the wallet's lists say: the transaction history, the unspent       *)
(* outputs, the addresses with what they have received, the balances, and  *)
(* the accounts of Monero wallets.  A list is put together from several    *)
(* answers of the daemon, between which blocks arrive and other commands   *)
(* name addresses; it is then sorted, filtered, and picked from.  The      *)
(* widths of its columns are computed for the terminal.                    *)
EXTENDS Integers, FiniteSets, Sequences, SequencesExt, FiniteSetsExt

CONSTANTS
    Jobs,           \* what is listed, of which wallet and chain
    NoLabel,        \* of an address that has none, or not one of MMGen's
    MaxOutside,     \* bound: things that happen meanwhile
    MaxKeys         \* bound: keys pressed

VARIABLES
    job,
    chain, tip,     \* the daemon's transactions and height
    labels,         \* the wallet: the label of each of its addresses
    pc,
    blockcount,     \* self.rpc.blockcount: the height when the client was made
    got,            \* the answers so far, and when they were given
    rows,           \* self.data
    view,           \* sort_key, reverse, group or show_unconfirmed or showused
    disp,           \* self.disp_data
    picked,         \* the row the user has chosen, and as what
    outside, keys   \* counters

vars == <<job, chain, tip, labels, pc, blockcount, got, rows, view, disp, picked, outside, keys>>

world == <<chain, tip, labels, outside>>

-------------------------------------------------------------------------------
(* The daemon.  An output is a transaction and a number; the wallet has    *)
(* those paid to its addresses.                                            *)
Out(o) == chain[o[1]].outs[o[2]]

Confs(t) == IF chain[t].ht = 0 THEN 0 ELSE tip - chain[t].ht + 1

Mine(o) == Out(o).addr \in DOMAIN labels

Outputs(t) == {<<t, n>> : n \in DOMAIN chain[t].outs}

ListUnspent == {o \in UNION {Outputs(t) : t \in DOMAIN chain} \ UNION {chain[t].ins : t \in DOMAIN chain} : Mine(o)}

(* A payment from the wallet is listed with all its outputs, one to it     *)
(* with those that are the wallet's.                                       *)
ListSinceBlock(h) ==
    UNION {LET since == chain[t].ht = 0 \/ chain[t].ht > h
               spends == \E i \in chain[t].ins : Mine(i)
           IN {o \in Outputs(t) : since /\ (spends \/ Mine(o))}
           : t \in DOMAIN chain}

ReceivedIn(addr) == {o \in UNION {Outputs(t) : t \in DOMAIN chain} : Out(o).addr = addr /\ Confs(o[1]) > 0}

Value(o) == Out(o).val

Total(os) == MapThenSumSet(Value, os)

Least(x, y) == IF x < y THEN x ELSE y

Labelled(addr) == addr \in DOMAIN labels /\ labels[addr] # NoLabel

-------------------------------------------------------------------------------
(* The history.  First the outputs since a block, then, unless that is the *)
(* first block, the labels (the listing tells those of its own outputs     *)
(* only), the transactions, the ones they spend, and the balances.  An     *)
(* output to an address of the wallet with no label of MMGen's, or a       *)
(* coinbase, is not expected.                                              *)
Since == IF job.since >= 0 THEN job.since ELSE blockcount + job.since

History(step) == pc = step /\ job.kind = "history" /\ UNCHANGED <<job, world, blockcount, view, disp, picked, keys>>

Fail == pc' = "failed" /\ UNCHANGED <<got, rows>>

GetRpcData ==
    /\ History("start")
    /\ LET os == ListSinceBlock(Since)
       IN IF os = {} \/ \E o \in os : Mine(o) /\ ~Labelled(Out(o).addr)
          THEN Fail
          ELSE /\ got' = [outs |-> os, map |-> [a \in {Out(o).addr : o \in os} |-> IF Labelled(a) THEN labels[a] ELSE NoLabel]]
               /\ pc' = IF Since = 0 THEN "txs" ELSE "labels"
               /\ UNCHANGED rows

GetLabels ==
    /\ History("labels")
    /\ got' = [got EXCEPT !.map = [a \in {b \in DOMAIN labels : Labelled(b)} |-> labels[a]] @@ @]
    /\ pc' = "txs"
    /\ UNCHANGED rows

GetTransactions ==
    /\ History("txs")
    /\ LET ts == {o[1] : o \in got.outs}
       IN IF \E t \in ts : chain[t].coinbase
          THEN Fail
          ELSE /\ got' = [confs |-> [t \in ts |-> Confs(t)]] @@ got
               /\ pc' = "balances"
               /\ UNCHANGED rows

(* Outputs of MMGen addresses come after those of others.                  *)
VoutsInfo(os) ==
    LET LabelOf(o) == IF Out(o).addr \in DOMAIN got.map THEN got.map[Out(o).addr] ELSE NoLabel
        SortKey(o) == (IF LabelOf(o) = NoLabel THEN 0 ELSE LabelOf(o).id) * 1000 + o[1] * 10 + o[2]
        order == SetToSortSeq(os, LAMBDA o, p : SortKey(o) < SortKey(p))
    IN [i \in DOMAIN order |-> [out |-> order[i], label |-> LabelOf(order[i])]]

BestComment(ins, outs) ==
    LET said == SelectSeq(outs \o ins, LAMBDA d : d.label # NoLabel /\ d.label.comment # "")
    IN IF said = <<>> THEN "" ELSE said[1].label.comment

TxRow(t) ==
    LET ins == VoutsInfo(chain[t].ins)
        outs == VoutsInfo({o \in got.outs : o[1] = t})
    IN [tx |-> t, ins |-> ins, outs |-> outs, confs |-> got.confs[t],
        fee |-> Total(chain[t].ins) - Total(Outputs(t)), amt |-> Total({o \in got.outs : o[1] = t}),
        comment |-> BestComment(ins, outs), block |-> IF got.confs[t] > 0 THEN blockcount + 1 - got.confs[t] ELSE 0,
        stars |-> {a \in {Out(o).addr : o \in ListUnspent} : Labelled(a)}]

-------------------------------------------------------------------------------
(* Sorting.  Keys are compared as tuples of numbers; account lists are     *)
(* sorted by account before anything else, and there the age, a number     *)
(* written with its sign, is compared as text: of two with a minus sign    *)
(* the one nearer to zero comes first.                                     *)
AsText(n) == IF n < 0 THEN -1000 - n ELSE n

SortKey(r, v) ==
    CASE job.kind = "history" ->
            IF v.sort = "age" THEN <<0 - r.confs, r.tx>> ELSE IF v.sort = "amt" THEN <<r.amt, 0>> ELSE <<r.tx, 0>>
      [] job.kind = "unspent" ->
            CASE v.sort = "addr" -> <<r.addr, 0 - r.confs, r.amt>> [] v.sort = "age" -> <<0 - r.confs, r.amt>>
              [] v.sort = "txid" -> r.out [] OTHER -> <<r.label.id, 0 - r.confs, r.amt>>
      [] job.kind = "addresses" -> <<IF v.sort = "amt" THEN r.amt ELSE IF r.confs = 0 THEN 1 ELSE 0 - r.confs, r.label.id>>
      [] OTHER ->
            <<r.wallet, r.acct>> \o
            CASE v.sort = "amt" -> <<r.amt>> [] v.sort = "age" -> <<AsText(0 - r.confs)>> [] OTHER -> <<r.idx>>

Precedes(x, y) ==
    \E i \in DOMAIN x : x[i] < y[i] /\ \A j \in 1 .. i - 1 : x[j] = y[j]

(* Python's sort is stable, reversed or not.                               *)
Sorted(s, v) ==
    LET key == [i \in DOMAIN s |-> SortKey(s[i], v)]
        Before(i, j) ==
            \/ IF v.reverse THEN Precedes(key[j], key[i]) ELSE Precedes(key[i], key[j])
            \/ key[i] = key[j] /\ i < j
        order == SetToSortSeq(DOMAIN s, Before)
    IN [i \in DOMAIN s |-> s[order[i]]]

GotData(s) == rows' = Sorted(s, view) /\ pc' = IF s = <<>> THEN "failed" ELSE "format"

GetBalances ==
    /\ History("balances")
    /\ LET order == SetToSortSeq(DOMAIN got.confs, <)
       IN GotData([i \in DOMAIN order |-> TxRow(order[i])])
    /\ UNCHANGED got

-------------------------------------------------------------------------------
(* The unspent outputs: one answer.                                        *)
Short(step, kind) == pc = step /\ job.kind = kind /\ UNCHANGED <<job, world, blockcount, view, disp, picked, keys>>

GetUnspent ==
    /\ Short("start", "unspent")
    /\ LET os == {o \in ListUnspent : Confs(o[1]) >= job.minconf /\ Labelled(Out(o).addr)}
           order == SetToSortSeq(os, LAMBDA o, p : Precedes(o, p))
       IN GotData([i \in DOMAIN order |->
            [out |-> order[i], addr |-> Out(order[i]).addr, label |-> labels[Out(order[i]).addr],
             amt |-> Value(order[i]), confs |-> Confs(order[i][1]), skip |-> ""]])
    /\ UNCHANGED got

(* The addresses: outputs of enough confirmations, then labels, then what  *)
(* each label has received, which counts confirmed payments only.  The     *)
(* last answer may not name an address the first two did not.              *)
GetUnspentByMmid ==
    /\ Short("start", "addresses")
    /\ got' = [os |-> {o \in ListUnspent : Confs(o[1]) >= job.minconf /\ Labelled(Out(o).addr)}, known |-> {}, amt |-> <<>>]
    /\ pc' = "pairs"
    /\ UNCHANGED rows

GetLabelAddrPairs ==
    /\ Short("pairs", "addresses")
    /\ got' = [known |-> {Out(o).addr : o \in got.os} \union {a \in DOMAIN labels : Labelled(a)}] @@ got
    /\ pc' = "received"
    /\ UNCHANGED rows

GetReceived ==
    /\ Short("received", "addresses")
    /\ LET order == SetToSortSeq(got.known, <)
           Age(a) == LET cs == {Confs(o[1]) : o \in ReceivedIn(a)} IN IF cs = {} THEN 0 ELSE Min(cs)
           Row(a) ==
            [addr |-> a, label |-> labels[a], amt |-> Total({o \in got.os : Out(o).addr = a}),
             recvd |-> Total(ReceivedIn(a)), used |-> ReceivedIn(a) # {}, confs |-> Age(a)]
       IN IF \E a \in DOMAIN labels : Labelled(a) /\ a \notin got.known
          THEN Fail
          ELSE GotData([i \in DOMAIN order |-> Row(order[i])]) /\ UNCHANGED got

(* The balances, by Seed ID and confirmations.                             *)
Sid(o) == IF Labelled(Out(o).addr) THEN labels[Out(o).addr].sid ELSE "Non-wallet"

ColKey(o) == IF Confs(o[1]) >= job.minconf THEN "ge_minconf" ELSE "lt_minconf"

GetBalance ==
    /\ Short("start", "balance")
    /\ LET Sum(os) == [unconfirmed |-> Total({o \in os : Confs(o[1]) = 0}),
                       lt_minconf |-> Total({o \in os : ColKey(o) = "lt_minconf"}),
                       ge_minconf |-> Total({o \in os : ColKey(o) = "ge_minconf"})]
           sids == {Sid(o) : o \in ListUnspent} \union {"Non-MMGen", "Non-wallet"}
       IN got' = [sid \in sids |-> Sum({o \in ListUnspent : Sid(o) = sid})] @@ [TOTAL |-> Sum(ListUnspent)]
    /\ pc' = "told"
    /\ UNCHANGED rows

(* The accounts of the Monero wallets, as the wallet daemon has dumped     *)
(* them: outputs that are locked for an unknown time count as 12 blocks.   *)
GetAccounts ==
    /\ Short("start", "accounts")
    /\ LET kept == {d \in job.dump : d.bal > 0 \/ job.empty}
           order == SetToSortSeq(kept, LAMBDA d, e : Precedes(<<d.wallet, d.acct, d.idx>>, <<e.wallet, e.acct, e.idx>>))
           Row(d) == [wallet |-> d.wallet, acct |-> d.acct, idx |-> d.idx, amt |-> d.bal, used |-> d.used,
                      confs |-> 11 - IF d.locked = 0 /\ d.unlocked # d.bal THEN 12 ELSE d.locked]
       IN GotData([i \in DOMAIN order |-> Row(order[i])])
    /\ UNCHANGED got

-------------------------------------------------------------------------------
(* What is shown: confirmed transactions, or all; outputs, those like the  *)
(* one above marked if grouped; addresses used or not.                     *)
Groupable == [addr |-> "addr", twmmid |-> "addr", txid |-> "txid"]

Alike(r, q) == IF view.sort = "txid" THEN r.out[1] = q.out[1] ELSE r.addr = q.addr

Marks(s) ==
    LET grouped == view.toggle = 1 /\ view.sort \in DOMAIN Groupable
    IN [i \in DOMAIN s |->
            [s[i] EXCEPT !.skip = IF i > 1 /\ grouped /\ Alike(s[i], s[i - 1]) THEN Groupable[view.sort] ELSE ""]]

GetDispData ==
    CASE job.kind = "history" -> SelectSeq(rows, LAMBDA r : r.confs > 0 \/ view.toggle = 1)
      [] job.kind = "unspent" -> Marks(rows)
      [] OTHER -> SelectSeq(rows, LAMBDA r : view.toggle = 0 \/ (r.used <=> view.toggle = 1))

Format ==
    /\ pc = "format"
    /\ disp' = GetDispData
    /\ rows' = IF job.kind = "unspent" THEN disp' ELSE rows
    /\ pc' = "key"
    /\ UNCHANGED <<job, world, blockcount, got, view, picked, keys>>

SortKeys == IF job.kind = "unspent" THEN {"addr", "age", "txid", "twmmid"} ELSE {"age", "amt", "txid"}

Key ==
    /\ pc = "key"
    /\ keys < MaxKeys
    /\ keys' = keys + 1
    /\ \/ /\ \E k \in SortKeys : view' = [view EXCEPT !.sort = k]
          /\ rows' = Sorted(rows, view')
       \/ /\ view' = [view EXCEPT !.reverse = ~@]
          /\ rows' = Reverse(rows)
       \/ /\ view' = [view EXCEPT !.toggle = (@ + 1) % 3]
          /\ UNCHANGED rows
    /\ pc' = "format"
    /\ UNCHANGED <<job, world, blockcount, got, disp, picked>>

(* gen_accts_data(): neighbouring rows of one account.                     *)
Accounts ==
    LET SameAcct(i, j) == disp[i].wallet = disp[j].wallet /\ disp[i].acct = disp[j].acct
        starts == {i \in DOMAIN disp : i = 1 \/ ~SameAcct(i, i - 1)}
        End(i) == Min({j \in starts : j > i} \union {Len(disp) + 1}) - 1
        order == SetToSortSeq(starts, <)
    IN [n \in DOMAIN order |->
            [wallet |-> disp[order[n]].wallet, acct |-> disp[order[n]].acct,
             members |-> order[n] .. End(order[n]),
             total |-> MapThenSumSet(LAMBDA i : disp[i].amt, order[n] .. End(order[n]))]]

(* A row is chosen by its number, or, of accounts, by the account's number *)
(* and the address's own index.                                            *)
GetIdx ==
    /\ pc = "key"
    /\ disp # <<>>
    /\ IF job.kind = "accounts"
       THEN \E n \in DOMAIN Accounts : \E i \in Accounts[n].members :
                picked' = [row |-> i, as |-> <<Accounts[n].wallet, Accounts[n].acct, disp[i].idx>>]
       ELSE \E i \in DOMAIN disp : picked' = [row |-> i, as |-> <<i>>]
    /\ pc' = "picked"
    /\ UNCHANGED <<job, world, blockcount, got, rows, view, disp, keys>>

-------------------------------------------------------------------------------
(* Columns are given what they need at least, then what is left, in        *)
(* proportion to what they could use, some of them first up to a width     *)
(* that is nice to have.                                                   *)
Cols(min, max, nice) == [min |-> min, max |-> max, nice |-> nice]

UnspentCols(addr, comment) == Cols(<<10, 7, 7>>, <<addr, comment, 64>>, (1 :> 16) @@ (3 :> 12))

AddressCols(addr, comment) == Cols(<<12, 7>>, <<addr, comment>>, (1 :> 18))

HistoryCols(side, comment, txid) ==
    IF txid THEN Cols(<<15, 15, 7, 8>>, <<side, side, comment, 64>>, (4 :> 20)) ELSE Cols(<<15, 15, 7>>, <<side, side, comment>>, <<>>)

AccountCols(addr, comment) == Cols(<<16, 7>>, <<addr, comment>>, (1 :> 20))

Table ==
    CASE job.table = "unspent" -> UnspentCols(job.main, job.comment)
      [] job.table = "addresses" -> AddressCols(job.main, job.comment)
      [] job.table = "history" -> HistoryCols(job.main, job.comment, job.txid)
      [] OTHER -> AccountCols(job.main, job.comment)

Wider == {k \in DOMAIN Table.min : Table.max[k] > Table.min[k]}

SumOf(f, ks) == MapThenSumSet(LAMBDA k : f[k], ks)

GetFreews(cols, vw, minw) ==
    LET varw == SumOf(vw, Wider)
        freew == cols - minw
        share == [k \in Wider |-> (vw[k] * freew) \div varw]
        left == freew - SumOf(share, Wider)
        open == {k \in Wider : share[k] < vw[k]}
    IN IF freew = 0 \/ varw = 0
       THEN [k \in Wider |-> 0]
       ELSE [k \in Wider |-> share[k] + IF k \in open /\ Cardinality({j \in open : j <= k}) <= left THEN 1 ELSE 0]

(* The user resizes a terminal that is too small; otherwise its minimum    *)
(* width is assumed.                                                       *)
TermWidth(minw) == IF job.term < minw THEN minw ELSE job.term

ColumnWidths ==
    LET minw == job.fixed + SumOf(Table.min, DOMAIN Table.min)
        varws == [k \in Wider |-> Table.max[k] - Table.min[k]]
        varw == SumOf(varws, Wider)
        term == TermWidth(minw)
        cols == Least(term, minw + varw)
        hp == [k \in Wider |-> IF k \in DOMAIN Table.nice THEN Table.nice[k] - Table.min[k] ELSE varws[k]]
        high == GetFreews(Least(term, minw + SumOf(hp, Wider)), hp, minw)
        lp == [k \in Wider |-> IF k \in DOMAIN Table.nice THEN varws[k] - hp[k] ELSE 0]
        low == GetFreews(cols, lp, minw + SumOf(high, Wider))
        free == IF Table.nice = <<>> THEN GetFreews(cols, varws, minw) ELSE [k \in Wider |-> high[k] + low[k]]
    IN [k \in DOMAIN Table.min |->
            IF job.wide \/ cols = minw + varw
            THEN IF Table.max[k] > Table.min[k] THEN Table.max[k] ELSE Table.min[k]
            ELSE Table.min[k] + IF k \in Wider THEN free[k] ELSE 0]

-------------------------------------------------------------------------------
(* Meanwhile a block is found, or another command gives an address a label. *)
Outside ==
    /\ outside < MaxOutside
    /\ pc \in {"start", "labels", "txs", "balances", "pairs", "received"}
    /\ job.kind \in {"history", "addresses"}
    /\ outside' = outside + 1
    /\ \/ /\ tip' = tip + 1
          /\ chain' = [t \in DOMAIN chain |-> IF chain[t].ht = 0 THEN [chain[t] EXCEPT !.ht = tip'] ELSE chain[t]]
          /\ UNCHANGED labels
       \/ /\ \E a \in job.new \ DOMAIN labels : labels' = [b \in {a} |-> [id |-> a, sid |-> "B", comment |-> ""]] @@ labels
          /\ UNCHANGED <<chain, tip>>
    /\ UNCHANGED <<job, pc, blockcount, got, rows, view, disp, picked, keys>>

Init ==
    /\ job \in Jobs
    /\ chain = job.chain
    /\ tip = 3
    /\ labels = job.labels
    /\ pc = IF job.kind = "widths" THEN "told" ELSE "start"
    /\ blockcount = 3
    /\ got = <<>>
    /\ rows = <<>>
    /\ view = [sort |-> IF job.kind = "addresses" THEN "twmmid" ELSE "age", reverse |-> FALSE, toggle |-> 0]
    /\ disp = <<>>
    /\ picked = <<>>
    /\ outside = 0
    /\ keys = 0

Next ==
    \/ GetRpcData \/ GetLabels \/ GetTransactions \/ GetBalances
    \/ GetUnspent \/ GetUnspentByMmid \/ GetLabelAddrPairs \/ GetReceived \/ GetBalance \/ GetAccounts
    \/ Format \/ Key \/ GetIdx \/ Outside

Spec == Init /\ [][Next]_vars

-------------------------------------------------------------------------------
(* The history has each transaction of the wallet once, its true fee, and  *)
(* the labels of all its addresses, whichever block it is since; the block *)
(* it names is the right one unless another was found while it was made.   *)
HistoryTrue ==
    job.kind = "history" /\ rows # <<>> =>
        /\ Cardinality({rows[i].tx : i \in DOMAIN rows}) = Len(rows)
        /\ \A i \in DOMAIN rows :
            LET r == rows[i] IN
            /\ r.fee = job.fees[r.tx]
            /\ \A j \in DOMAIN r.ins :
                LET a == Out(r.ins[j].out).addr
                IN a \in DOMAIN job.labels => r.ins[j].label = job.labels[a]
            /\ r.block > 0 => r.block \in chain[r.tx].ht - outside .. chain[r.tx].ht

(* A list is given up only for what it does not expect: a coinbase, an     *)
(* address not labelled by MMGen, or one labelled while the list was made. *)
FailsOnlyFor ==
    pc = "failed" =>
        CASE job.kind = "history" ->
                \/ \E t \in DOMAIN chain : chain[t].coinbase
                \/ \E a \in DOMAIN labels : labels[a] = NoLabel
                \/ ListSinceBlock(Since) = {}
          [] job.kind = "addresses" -> labels # job.labels
          [] OTHER -> rows = <<>>

(* Nothing is hidden that is not in the line above, in whatever order.     *)
MarksTrue ==
    job.kind = "unspent" /\ pc = "key" =>
        \A i \in DOMAIN disp :
            /\ disp[i].skip = "addr" => i > 1 /\ disp[i].addr = disp[i - 1].addr
            /\ disp[i].skip = "txid" => i > 1 /\ disp[i].out[1] = disp[i - 1].out[1]

(* Every account is shown once, in whatever order and however filtered,    *)
(* and the address chosen by account and index is that one.                *)
AccountsTrue ==
    job.kind = "accounts" /\ pc \in {"key", "picked"} =>
        /\ \A n, m \in DOMAIN Accounts :
            n # m => <<Accounts[n].wallet, Accounts[n].acct>> # <<Accounts[m].wallet, Accounts[m].acct>>
        /\ pc = "picked" => LET r == disp[picked.row] IN picked.as = <<r.wallet, r.acct, r.idx>>

(* Balances add up, and every coin is counted once.                        *)
BalancesTrue ==
    job.kind = "balance" /\ pc = "told" =>
        /\ \A c \in {"unconfirmed", "lt_minconf", "ge_minconf"} :
            got.TOTAL[c] = MapThenSumSet(LAMBDA sid : got[sid][c], DOMAIN got \ {"TOTAL"})
        /\ got.TOTAL.lt_minconf + got.TOTAL.ge_minconf = Total(ListUnspent)

(* A table uses the width there is, and no column is narrower than it must *)
(* be or wider than it can use.                                            *)
WidthsFit ==
    job.kind = "widths" =>
        LET w == ColumnWidths
            minw == job.fixed + SumOf(Table.min, DOMAIN Table.min)
            need == minw + SumOf([k \in Wider |-> Table.max[k] - Table.min[k]], Wider)
        IN /\ \A k \in DOMAIN w : Table.min[k] <= w[k] /\ (w[k] <= Table.max[k] \/ w[k] = Table.min[k])
           /\ job.fixed + SumOf(w, DOMAIN w) = IF job.wide THEN need ELSE Least(TermWidth(minw), need)

ListingsTrue == HistoryTrue /\ FailsOnlyFor /\ MarksTrue /\ AccountsTrue /\ BalancesTrue /\ WidthsFit
=============================================================================
