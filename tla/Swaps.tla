-------------------------------- MODULE Swaps --------------------------------
(* Swaps of one asset for another through THORChain: the command line, the *)
(* quotes, the memo that says where the proceeds go and what they may be   *)
(* at least, the transaction, the check of its memo before signing, and    *)
(* its replacement (mmgen/tx/new_swap.py, mmgen/swap/,                     *)
(* mmgen/proto/{btc,vm,eth,rune}/tx/new_swap.py, mmgen/tx/bump.py).  An    *)
(* address says whether it is one of the wallet's; time is counted in      *)
(* periods of swap_quote_refresh_timeout.                                  *)
EXTENDS Integers, Sequences

CONSTANTS
    Jobs,               \* see Init
    Assets,             \* assets_data: [chain, coin, token, abbr, full] of each
    Unsupported,        \* of them
    Prec,               \* exp_prec
    Outs,               \* expected_amount_out of a quote
    Funds,              \* the value of the inputs the user selects
    Fees,               \* fees the user may name
    MaxTime             \* bound on the clock

VARIABLES job, pc,
    to,                 \* [amt, chg, recv]: the command line read
    memo,               \* swap_memo, or the data output
    vault,              \* [addr, token, amt]: the vault output and token_vault_addr;
                        \* left for the change; fee; reduce, or "none": see create_feebump
    quote,              \* [data, amt]: the last quote's and what it was asked for
    expiry,             \* swap_quote_expiry
    limit,              \* of the last quote
    gas,                \* [n, adjusted]
    clock,              \* [now, refreshed]
    after,              \* what the quote is for
    tx                  \* the transaction file

swapVars == <<job, pc, to, memo, vault, quote, expiry, limit, gas, clock, after, tx>>

-------------------------------------------------------------------------------
(* ExpInt: a number by its digits.  The encoding is used where it is       *)
(* shorter, and cuts off the digits beyond the precision; the truncated    *)
(* number is what is displayed.                                            *)
Digits(n) ==
    LET f[x \in 0 .. n] == IF x < 10 THEN <<x>> ELSE Append(f[x \div 10], x % 10) IN f[n]
Number(ds) ==
    LET read[k \in 0 .. Len(ds)] == IF k = 0 THEN 0 ELSE read[k - 1] * 10 + ds[k] IN read[Len(ds)]
Zeros(k) == [x \in 1 .. k |-> 0]
Cut(ds) == SubSeq(ds, 1, IF Len(ds) < Prec THEN Len(ds) ELSE Prec)
Stripped(ds) ==
    LET last == {x \in DOMAIN ds : ds[x] # 0}
    IN SubSeq(ds, 1, IF last = {} THEN 0 ELSE CHOOSE x \in last : \A y \in last : y <= x)

trunc(n) == Number(Cut(Digits(n)) \o Zeros(Len(Digits(n)) - Len(Cut(Digits(n)))))
AlwaysExp(n) == LET ds == Stripped(Cut(Digits(n))) IN <<ds, "e", Digits(Len(Digits(n)) - Len(ds))>>
EncLen(e) == IF Len(e) = 1 THEN Len(e[1]) ELSE Len(e[1]) + 1 + Len(e[3])
enc(n) == IF EncLen(AlwaysExp(n)) < Len(Digits(n)) THEN AlwaysExp(n) ELSE <<Digits(n)>>
ExpInt(e) == IF Len(e) = 1 THEN Number(e[1]) ELSE Number(e[1] \o Zeros(Number(e[3])))

-------------------------------------------------------------------------------
send == DOMAIN Assets \ Unsupported
IsToken(a) == Assets[a].token # ""
is_evm(a) == Assets[a].chain = "ETH"
is_vm(a) == is_evm(a) \/ Assets[a].coin = "RUNE"
memo_asset_name(a) == IF Assets[a].abbr # "" THEN Assets[a].abbr ELSE Assets[a].full
Named(s) == {a \in DOMAIN Assets : s # "" /\ s \in {Assets[a].abbr, Assets[a].full}}
init_from_memo(s) == IF Named(s) = {} THEN "" ELSE CHOOSE a \in Named(s) : TRUE

(* A command to swap; a limit is an amount or so many per cent below the   *)
(* quote, and not negative.                                                *)
Commands ==
    [kind : {"swap"}, send : DOMAIN Assets, amt : Nat, chg : STRING, recv : DOMAIN Assets, to : STRING, anydest : BOOLEAN,
     limit : {<<>>} \union ({"abs"} \X Nat) \union ({"pct"} \X {x \in Int : x <= 100}) \union ({"bad"} \X Int), interval : Int]

(* An asset is known by either of its names, of which it has one, and no   *)
(* two have a name in common.                                              *)
SwapAssumption ==
    /\ Prec \in Nat \ {0} /\ Funds \in Nat /\ Fees \subseteq Nat /\ Outs \subseteq Nat
    /\ \A x \in Jobs : IF x.kind = "int" THEN x.n \in Nat ELSE x \in Commands
    /\ "" \notin DOMAIN Assets /\ \A x \in DOMAIN Assets :
        /\ {Assets[x].abbr, Assets[x].full} # {""} /\ "x" \notin {Assets[x].abbr, Assets[x].full}
        /\ \A y \in DOMAIN Assets \ {x} : {Assets[x].abbr, Assets[x].full} \intersect {Assets[y].abbr, Assets[y].full} \subseteq {""}

(* Stream intervals from 1 to 20, Dfl if none is given.                     *)
Dfl == 3
set_stream_interval == job.interval
ConfigOk == set_stream_interval \in 1 .. 20 /\ (job.limit # <<>> => job.limit[1] # "bad")
NoLimit == <<>>
get_trade_limit(q) ==
    IF job.limit = <<>> THEN NoLimit
    ELSE <<IF job.limit[1] = "abs" THEN job.limit[2] ELSE (q.out * (100 - job.limit[2])) \div 100>>

(* The memo: function, asset, address, limit/interval/quantity.  A limit   *)
(* of 0 is none.                                                           *)
Memo(addr, tl) ==
    [function |-> "=", asset |-> memo_asset_name(job.recv), address |-> addr,
     limit |-> enc(IF tl = NoLimit THEN 0 ELSE tl[1]), interval |-> set_stream_interval, quantity |-> 0]
MemoLen(mm) == 20 + EncLen(mm.limit)

-------------------------------------------------------------------------------
Goes(where) == pc' = where

(* The address asked for, as an ID of the wallet or as it is, or one that  *)
(* is chosen; an address that is not the wallet's must be confirmed, and   *)
(* so must a chosen one, or one that is used.                              *)
Chosen(a) == <<a, "auto">>
SwapOutputs(a, spec) ==
    CASE spec = "" -> {<<Chosen(a), TRUE>>}
      [] spec = "type" -> IF is_vm(a) THEN {} ELSE {<<Chosen(a), TRUE>>}
      [] spec = "mmid" -> {<<<<a, "own">>, TRUE>>}
      [] spec = "addr" -> {<<<<a, "other">>, FALSE>>}
      [] OTHER -> {}
get_swap_output(a, spec) == SwapOutputs(a, spec)

(* An amount that is false, none or 0, swaps all there is.                 *)
All == job.amt = 0
WithChange == ~All /\ ~is_vm(job.send)

(* The change is handed on as the ID of its address: one without an ID     *)
(* makes the command crash.                                                *)
process_swap_cmdline_args ==
    /\ pc = "args" /\ UNCHANGED <<job, vault, quote, expiry, limit, clock, after, tx>>
    /\ LET chg == IF WithChange THEN get_swap_output(job.send, job.chg) ELSE {<<<<>>, TRUE>>}
           dest == get_swap_output(job.recv, job.to)
           bad == {job.send, job.recv} \intersect Unsupported # {} \/ (job.chg # "" /\ ~WithChange) \/ chg = {} \/ dest = {}
       IN IF bad \/ ~ConfigOk THEN Goes("died") /\ UNCHANGED <<to, memo, gas>>
          ELSE \/ Goes("quit") /\ UNCHANGED <<to, memo, gas>>
               \/ \E x \in chg, y \in dest :
                    IF ~x[2] THEN Goes("crashed") /\ UNCHANGED <<to, memo, gas>>
                    ELSE /\ to' = [amt |-> IF All THEN 0 ELSE job.amt, chg |-> x[1], recv |-> y[1], mmid |-> y[2]]
                         /\ memo' = Memo(y[1], IF job.limit # <<>> /\ job.limit[1] = "abs" THEN <<job.limit[2]>> ELSE NoLimit)
                         /\ gas' = [n |-> MemoLen(memo'), adjusted |-> FALSE]
                         /\ Goes("inputs")

(* The inputs are selected until they suffice.                             *)
get_inputs ==
    /\ pc = "inputs" /\ UNCHANGED <<job, to, memo, expiry, limit, gas, clock, tx>>
    /\ to.amt < Funds
    /\ vault' = [addr |-> <<>>, token |-> <<>>, amt |-> to.amt, left |-> 0, fee |-> 0, reduce |-> "none"]
    /\ quote' = [data |-> <<>>, amt |-> IF All THEN Funds ELSE to.amt]
    /\ after' = "fee" /\ Goes("quote")

(* A swap from or to a token takes two quotes, through RUNE, of which the  *)
(* earlier expiry counts.  A node may refuse.                              *)
Quote(out, life) ==
    [vault |-> <<"vault", clock.now>>, router |-> <<"router", clock.now>>, out |-> out, expiry |-> clock.now + life]
TwoQuotes == (IsToken(job.send) \/ IsToken(job.recv)) /\ Assets[job.send].coin # "RUNE"
Joined(in, last) == [in EXCEPT !.out = last.out, !.expiry = IF last.expiry < @ THEN last.expiry ELSE @]
Quotes ==
    LET one == {Quote(out, life) : out \in Outs, life \in {1, 2}}
    IN IF TwoQuotes THEN {Joined(in, last) : in, last \in one} ELSE one

(* The gas displayed is adjusted, once, to the memo there will be.         *)
adj_gas_with_extra_data_len(tl) ==
    IF is_evm(job.send) /\ ~IsToken(job.send) /\ ~gas.adjusted /\ tl \notin {NoLimit, <<0>>}
    THEN [n |-> gas.n + EncLen(enc(tl[1])) - 1, adjusted |-> TRUE] ELSE gas

get_quote ==
    /\ pc = "quote" /\ UNCHANGED <<job, to, memo, vault, expiry, after, tx>>
    /\ \/ Goes("died") /\ UNCHANGED <<quote, limit, gas, clock>>
       \/ \E q \in Quotes :
            /\ quote' = [quote EXCEPT !.data = q]
            /\ limit' = get_trade_limit(q)
            /\ clock' = [clock EXCEPT !.refreshed = clock.now]
            /\ gas' = adj_gas_with_extra_data_len(limit')
            /\ Goes("look")

(* The quote is shown; `r' gets another.  The token's vault is apart from  *)
(* the router it is sent through, and RUNE needs no vault.                 *)
update_vault_addr(q) ==
    IF Assets[job.send].coin = "RUNE" THEN vault
    ELSE IF IsToken(job.send) THEN [vault EXCEPT !.addr = q.router, !.token = q.vault]
    ELSE [vault EXCEPT !.addr = q.vault]
SameMemo(tl) == memo        \* a mutant of the next
update_data_output(tl) == Memo(memo.address, tl)
set_gas_with_data(mm) == IF is_evm(job.send) /\ ~IsToken(job.send) THEN [gas EXCEPT !.n = MemoLen(mm)] ELSE gas
update_vault_output ==
    /\ pc = "look" /\ UNCHANGED <<job, to, quote, limit, clock, after, tx>>
    /\ \/ Goes("quote") /\ UNCHANGED <<memo, vault, expiry, gas>>
       \/ /\ expiry' = quote.data.expiry
          /\ vault' = update_vault_addr(quote.data)
          /\ memo' = update_data_output(limit)
          /\ gas' = set_gas_with_data(memo')
          /\ Goes(after)

(* The fee, and what is left for the change, of which there is no output   *)
(* if that is nothing, or, if all is swapped, for the vault; if the user   *)
(* dislikes it the inputs and the quote are got again.                     *)
get_fee ==
    /\ pc = "fee" /\ UNCHANGED <<job, to, memo, expiry, limit, gas, clock, after, tx, quote>>
    /\ \/ vault' = vault /\ Goes("inputs")
       \/ \E f \in Fees :
            /\ to.amt + f <= Funds
            /\ vault' = [vault EXCEPT !.fee = f, !.amt = IF All THEN Funds - f ELSE @,
                                      !.left = IF WithChange THEN Funds - to.amt - f ELSE 0]
            /\ Goes("check")

(* Once, before the transaction is serialized, a stale quote is refreshed. *)
Stale == clock.now > clock.refreshed
check_age ==
    /\ pc = "check" /\ UNCHANGED <<job, to, memo, vault, expiry, limit, gas, clock, tx>>
    /\ after' = "serialize"
    /\ IF Stale THEN Goes("quote") /\ quote' = [quote EXCEPT !.amt = vault.amt]
                ELSE Goes("serialize") /\ quote' = quote

create_serialized ==
    /\ pc = "serialize" /\ UNCHANGED <<job, to, memo, vault, quote, expiry, limit, gas, clock, after>>
    /\ tx' = [memo |-> memo, vault |-> vault, expiry |-> expiry, gas |-> gas.n, swap |-> TRUE,
              spec |-> job.recv, mmid |-> to.mmid, faults |-> 0]
    /\ Goes("made")

(* Time passes wherever the user is waited for.                            *)
Tick ==
    /\ pc \in {"look", "fee", "bumpfee", "made"} /\ clock.now < MaxTime /\ clock' = [clock EXCEPT !.now = @ + 1]
    /\ UNCHANGED <<job, pc, to, memo, vault, quote, expiry, limit, gas, after, tx>>

-------------------------------------------------------------------------------
(* Before signing: the memo is parsed, its asset is the file's, and its    *)
(* address is the wallet's or any is allowed.  A file may be altered.      *)
Parse(mm) ==
    LET a == init_from_memo(mm.asset)
    IN IF mm.function # "=" \/ a = "" \/ Len(mm.limit) \notin {1, 3} THEN <<>>
       ELSE [asset |-> a, address |-> mm.address, trade_limit |-> ExpInt(mm.limit), interval |-> mm.interval]
Alter ==
    /\ pc = "made" /\ tx.swap /\ tx.faults = 0 /\ UNCHANGED <<job, pc, to, memo, vault, quote, expiry, limit, gas, clock, after>>
    /\ \/ \E s \in ({"", "x"} \union {memo_asset_name(a) : a \in DOMAIN Assets}) \ {tx.memo.asset} :
            tx' = [tx EXCEPT !.memo.asset = s, !.faults = 1]
       \/ tx' = [tx EXCEPT !.mmid = FALSE, !.faults = 1]
       \/ \E a \in send \ {tx.spec} : tx' = [tx EXCEPT !.spec = a, !.faults = 1]

check_swap_memo(t) ==
    LET p == Parse(t.memo)
    IN p # <<>> /\ p.asset = t.spec /\ p.asset \notin Unsupported /\ (t.mmid \/ job.anydest)
Sign ==
    /\ pc = "made" /\ UNCHANGED <<job, to, memo, vault, quote, expiry, limit, gas, clock, after, tx>>
    /\ Goes(IF ~tx.swap \/ check_swap_memo(tx) THEN "signed" ELSE "refused")

(* A replacement with the same outputs gets a new quote, for the amount    *)
(* there is, and has the default interval and no limit, for which there    *)
(* are no options; with new outputs it is no swap.  The gas starts from    *)
(* the original's.  What the fee is deducted from is chosen before: the    *)
(* only output, or any that is worth the least fee; relay_fee, or the      *)
(* tenth and more by which that of a contract grows, is 1.                 *)
Bumped == after = "bumped"
AmtOf(out) == IF out = "vault" THEN tx.vault.amt ELSE tx.vault.left
min_fee == tx.vault.fee + 1
nondata_outputs == {"vault"} \union (IF tx.vault.left = 0 THEN {} ELSE {"change"})
choose_output == {out \in nondata_outputs : AmtOf(out) >= min_fee}
create_feebump ==
    /\ pc = "signed" /\ tx.swap /\ ~Bumped /\ UNCHANGED <<to, memo, expiry, limit, clock, tx>>
    /\ IF IsToken(job.send) \/ Assets[job.send].coin = "RUNE" \/ choose_output = {}
       THEN Goes("died") /\ UNCHANGED <<job, vault, quote, gas, after>>
       ELSE /\ \E out \in choose_output : vault' = [tx.vault EXCEPT !.reduce = out]
            /\ job' = [job EXCEPT !.limit = <<>>, !.interval = Dfl]
            /\ quote' = [data |-> <<>>, amt |-> tx.vault.amt]
            /\ gas' = [n |-> tx.gas, adjusted |-> FALSE]
            /\ after' = "bumpfee" /\ Goes("quote")

(* The fee is asked for when the quote has been accepted, and the output   *)
(* becomes what the others and the fee leave of the inputs: the vault's    *)
(* too, which then gets less than the quote was for.  Of Ether only the    *)
(* gas costs more.  The quote is not asked for again, however old.         *)
SameOutputs(f) == vault     \* a mutant of the next
Reduced(f) ==
    IF is_vm(job.send) THEN vault
    ELSE IF vault.reduce = "vault" THEN [vault EXCEPT !.amt = Funds - vault.left - f]
    ELSE [vault EXCEPT !.left = Funds - vault.amt - f]
bump_fee ==
    /\ pc = "bumpfee" /\ UNCHANGED <<job, to, memo, quote, expiry, limit, gas, clock, after, tx>>
    /\ \E f \in Fees :
        /\ f > tx.vault.fee /\ (~is_vm(job.send) => f >= min_fee /\ f < AmtOf(vault.reduce))
        /\ vault' = [Reduced(f) EXCEPT !.fee = f]
    /\ Goes("serialize")
bump_new_outputs ==
    /\ pc = "signed" /\ tx.swap /\ ~Bumped /\ UNCHANGED <<job, to, memo, vault, quote, expiry, limit, gas, clock>>
    /\ IF Assets[job.send].coin = "RUNE" THEN Goes("died") /\ UNCHANGED <<tx, after>>
       ELSE tx' = [tx EXCEPT !.swap = FALSE, !.memo = <<>>] /\ after' = "bumped" /\ Goes("made")

Init ==
    /\ job \in Jobs /\ pc = IF job.kind = "int" THEN "int" ELSE "args"
    /\ to = <<>> /\ memo = <<>> /\ vault = <<>> /\ quote = <<>> /\ expiry = 0 /\ limit = NoLimit
    /\ gas = [n |-> 0, adjusted |-> FALSE] /\ clock = [now |-> 0, refreshed |-> 0] /\ after = "" /\ tx = <<>>
Next ==
    \/ process_swap_cmdline_args \/ get_inputs \/ get_quote \/ update_vault_output \/ get_fee \/ check_age
    \/ create_serialized \/ Tick \/ Alter \/ Sign \/ create_feebump \/ bump_fee \/ bump_new_outputs
Spec == Init /\ [][Next]_swapVars

-------------------------------------------------------------------------------
(* A new transaction sends what was asked for, or all there is but the     *)
(* fee, and no more than its quote is for; a replacement sends what the    *)
(* latest quote is for, or less if the vault's output pays the new fee.    *)
(* Nothing else of the inputs is spent.                                    *)
AmountsRight(out) ==
    /\ ~is_vm(job.send) => out.amt + out.left + out.fee = Funds
    /\ IF out.reduce = "none" THEN out.amt = (IF to.amt = 0 THEN Funds - out.fee ELSE to.amt) /\ out.amt <= quote.amt
       ELSE IF is_vm(job.send) \/ out.reduce # "vault" THEN out.amt = quote.amt ELSE out.amt < quote.amt

(* A transaction goes to the vault of the latest quote, and expires with   *)
(* it; its memo names the asset and the address chosen and the limit of    *)
(* that quote, to four digits and never more; and its gas is that of its   *)
(* memo.                                                                   *)
MadeFrom(t) ==
    /\ AmountsRight(t.vault)
    /\ Assets[job.send].coin # "RUNE" => (IF IsToken(job.send) THEN t.vault.token ELSE t.vault.addr) = quote.data.vault
    /\ t.expiry = quote.data.expiry
    /\ LET p == Parse(t.memo) IN
        /\ p.asset = job.recv /\ p.address = to.recv
        /\ limit # NoLimit => p.trade_limit \in {limit[1], trunc(limit[1])}
        /\ is_evm(job.send) /\ ~IsToken(job.send) => t.gas = MemoLen(t.memo)
SwapAsAsked == pc = "made" /\ tx.swap /\ tx.faults = 0 => MadeFrom(tx)

(* Nothing is signed for a swap to another asset than the file says, or to *)
(* an address that is not the wallet's unless it is allowed, and nothing   *)
(* else is refused.                                                        *)
SwapSigned ==
    /\ pc = "signed" /\ tx.swap =>
        /\ memo_asset_name(tx.spec) = tx.memo.asset
        /\ tx.faults = 0 => to.recv[2] # "other" \/ job.anydest
    /\ pc = "refused" => tx.faults > 0 \/ (to.recv[2] = "other" /\ ~job.anydest)

(* A number is read as it was written, or without the digits beyond the    *)
(* precision, and is never longer for it.                                  *)
IntsRight ==
    pc = "int" => LET n == job.n IN
        ExpInt(enc(n)) \in {n, trunc(n)} /\ trunc(n) <= n /\ EncLen(enc(n)) <= Len(Digits(n))
SwapRight == SwapAsAsked /\ SwapSigned /\ IntsRight

(* A replacement pays a higher fee, and takes the difference from the one  *)
(* output chosen, of which something is left; its quote is for what the    *)
(* original sends.  Of Ether the sender pays it.                           *)
Replaces(new, old) ==
    LET cost == new.fee - old.fee
        paying == IF is_vm(job.send) THEN "none" ELSE new.reduce
    IN /\ cost > 0 /\ quote.amt = old.amt
       /\ new.amt = old.amt - (IF paying = "vault" THEN cost ELSE 0)
       /\ new.left = old.left - (IF paying = "change" THEN cost ELSE 0)
       /\ paying = "vault" => new.amt > 0
       /\ paying = "change" => new.left > 0
SwapReplacing == pc = "serialize" /\ tx # <<>> /\ tx' # tx => Replaces(tx'.vault, tx.vault)
SwapReplaces == [][SwapReplacing]_swapVars
===============================================================================
