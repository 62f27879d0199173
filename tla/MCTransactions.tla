---------------------------- MODULE MCTransactions ----------------------------
(* The life of a transaction, from the options and the choice of its       *)
(* change address to its being sent, and what surrounds it.  A behaviour   *)
(* is about one subject: the transactions of two terminals on a removable  *)
(* device (TxAutosign), or one of the modules instantiated below, of which *)
(* there is only one program at a time: these share the variables of their *)
(* command line, of their next step, and of what else they have in common. *)
EXTENDS TxAutosign, TLC, Integers, Sequences

CONSTANTS
    CreateJobs, Coins, Value, Ether, Own, Data, NoAmt, Fees, MaxFee,        \* of TxCreate
    SignJobs, Subseeds, NoSeed,                                            \* of TxSign
    Types, Preferred, Lists, AnyType, NoAddr,                              \* of ChangeAddr
    Option, CoinOption, Sets, Groups, Good, Begins, Starts, MaxKills,      \* of Config
    SendJobs, MaxMoves,                                                    \* of TxSend
    Devices, MaxKeys,                                                      \* of AutosignSetup
    MsgJobs, MsgSubseeds,                                                  \* of MsgSign
    SwapJobs, Assets, Unsupported, Prec, Outs, Funds, SwapFees, MaxTime,   \* of Swaps
    PromptJobs, Timeout, Delay, Repeat, MaxPresses, MaxBuf, MaxSize,       \* of Prompts
    ka, aa, bb, o1, o2                                                     \* addresses and outputs

-------------------------------------------------------------------------------
(* Bitcoin, Ethereum and token transactions: with change to the wallet and *)
(* elsewhere, with data, with the same address twice, not replaceable, and *)
(* sending everything.                                                     *)
Job(kind, args, rbf) == [kind |-> kind, args |-> args, rbf |-> rbf]

MCCreateJobs == {
    Job("btc", {<<aa, 2>>, <<ka, NoAmt>>}, TRUE),
    Job("btc", {<<aa, 2>>, <<bb, 1>>, <<ka, NoAmt>>}, TRUE),
    Job("btc", {<<aa, 2>>, <<aa, 1>>, <<ka, NoAmt>>}, TRUE),
    Job("btc", {<<bb, NoAmt>>, <<Data, 0>>}, TRUE),
    Job("btc", {<<aa, 3>>, <<bb, NoAmt>>}, FALSE),
    Job("btc", {<<ka, NoAmt>>}, TRUE),
    Job("vm", {<<aa, 2>>}, TRUE), Job("vm", {<<aa, NoAmt>>}, TRUE),
    Job("token", {<<aa, 2>>}, TRUE), Job("token", {<<aa, 7>>}, TRUE), Job("token", {<<aa, NoAmt>>}, TRUE)}

MCValue == [o \in {o1, o2} |-> IF o = o1 THEN 5 ELSE 9]

(* Transactions of three seeds, one a sub-seed of the first, with an       *)
(* address that is not its ID's and one that is nobody's.                  *)
Address(n, sid, true) == [n |-> n, sid |-> sid, true |-> true]
addr1 == Address(1, 1, TRUE)
addr2 == Address(2, 2, TRUE)
addr3 == Address(3, 3, TRUE)
bad == Address(4, 1, FALSE)
alien == Address(5, NoSeed, TRUE)

SigningTx(is, os, memo) == [ins |-> is, outs |-> os, memo |-> memo]

SigningTxs == {
    SigningTx({addr1}, {alien}, {}), SigningTx({addr1, addr2}, {addr1, alien}, {}), SigningTx({addr2}, {bad}, {}),
    SigningTx({addr3}, {addr2}, {}), SigningTx({addr1, alien}, {addr2}, {}), SigningTx({addr2}, {alien}, {addr1}),
    SigningTx({addr1}, {addr1}, {alien}), SigningTx({bad}, {alien}, {})}

SigningJob(auto, txs, files, dflt, kal, flat, infmt, anydest) ==
    [auto |-> auto, txs |-> txs, files |-> files, dflt |-> dflt, kal |-> kal, flat |-> flat,
     infmt |-> infmt, anydest |-> anydest]

MCSignJobs == UNION {
    {SigningJob(TRUE, <<p, q>>, <<1, 2>>, <<>>, {}, flat, FALSE, FALSE),
     SigningJob(FALSE, <<p, q>>, <<2>>, <<1>>, {}, flat, TRUE, FALSE),
     SigningJob(FALSE, <<p, q>>, <<2>>, <<>>, {addr1, bad}, flat, FALSE, TRUE)}
    : p, q \in SigningTxs, flat \in {{}, {alien}}}

MCSubseeds == [s \in 1 .. 3 |-> IF s = 1 THEN {3} ELSE {}]

(* Wallets of two seeds and an address of none, with entries paid to,      *)
(* labelled or free.                                                       *)
Listed(sid, type, idx, used, label) == [sid |-> sid, type |-> type, idx |-> idx, used |-> used, label |-> label]

Slots == <<<<1, 1, 1>>, <<1, 1, 2>>, <<1, 2, 1>>, <<2, 1, 1>>, <<2, 2, 1>>, <<99, 1, 1>>>>

WalletLists == UNION {
    LET kept == SelectSeq([n \in 1 .. 6 |-> n], LAMBDA n : n \in is)
    IN {[n \in DOMAIN kept |-> Listed(Slots[kept[n]][1], Slots[kept[n]][2], Slots[kept[n]][3],
                                      kept[n] \in used, kept[n] = 3 /\ 1 \in used)]}
    : is \in SUBSET (1 .. 6), used \in {{}, {1, 4}, {2, 3, 5}}}

MCPreferred == <<2, 1>>

(* Options of every type, in every source, and a coin without RPC.         *)
Coins3 == {"btc", "xmr", "doge"}

Opt(word, letter, parm, type, attr, dflt, file, coins) ==
    [word |-> word, letter |-> letter, parm |-> parm, type |-> type, attr |-> attr, dflt |-> dflt,
     file |-> file, coins |-> coins, choices |-> <<"auto", "httplib", "curl">>]

CommandOption == [
    coin |-> Opt(<<"coin">>, "", TRUE, "str", TRUE, "btc", FALSE, Coins3),
    quiet |-> Opt(<<"qu", "iet">>, "q", FALSE, "bool", TRUE, "false", TRUE, Coins3),
    yes |-> Opt(<<"yes">>, "y", FALSE, "bool", TRUE, "false", FALSE, Coins3),
    no_license |-> Opt(<<"no", "license">>, "", FALSE, "bool", TRUE, "false", TRUE, Coins3),
    testnet |-> Opt(<<"test", "net">>, "", TRUE, "bool", TRUE, "false", TRUE, Coins3),
    test_suite |-> Opt(<<"test", "suite">>, "", FALSE, "bool", TRUE, "false", FALSE, Coins3),
    autosign |-> Opt(<<"auto", "sign">>, "a", FALSE, "bool", TRUE, "false", TRUE, Coins3),
    color |-> Opt(<<"color">>, "", TRUE, "bool", TRUE, "false", TRUE, Coins3),
    outdir |-> Opt(<<"out", "dir">>, "d", TRUE, "str", TRUE, "", FALSE, Coins3),
    http_timeout |-> Opt(<<"http", "timeout">>, "", TRUE, "int", TRUE, "0", TRUE, {"btc", "xmr"}),
    rpc_host |-> Opt(<<"rpc", "host">>, "", TRUE, "str", TRUE, "", TRUE, {"btc"}),
    rpc_backend |-> Opt(<<"rpc", "back", "end">>, "", TRUE, "auto", FALSE, "unset", FALSE, {"btc"}),
    seed_len |-> Opt(<<"seed", "len">>, "l", TRUE, "typed", FALSE, "unset", FALSE, Coins3),
    subseeds |-> Opt(<<"subseeds">>, "L", TRUE, "typed", FALSE, "unset", TRUE, Coins3)]

OwnOption == [btc_rpc_host |-> Opt(<<"btc", "rpc", "host">>, "", TRUE, "str", FALSE, "unset", FALSE, Coins3)]

Long(word, text, eq) == [form |-> "long", word |-> word, text |-> text, eq |-> eq]
Short(word, text) == [form |-> "short", word |-> word, text |-> text, eq |-> FALSE]
PlainArg(text) == [form |-> "plain", word |-> <<>>, text |-> text, eq |-> FALSE]
EndOfOptions == [form |-> "end", word |-> <<>>, text |-> "", eq |-> FALSE]

Arguments == {
    Long(<<"coin">>, "xmr", TRUE), Long(<<"coin">>, "", FALSE), PlainArg("doge"), PlainArg("1"), EndOfOptions,
    Long(<<"qu">>, "", FALSE), Long(<<"no">>, "", FALSE), Long(<<"no", "qu">>, "", FALSE), Long(<<"license">>, "", FALSE),
    Long(<<"test">>, "", FALSE), Long(<<"test", "net">>, "", TRUE), Long(<<"rpc", "host">>, "h", TRUE),
    Long(<<"btc", "rpc", "host">>, "", FALSE), Long(<<"auto">>, "x", TRUE), Long(<<"no", "auto">>, "", FALSE),
    Long(<<"rpc", "back">>, "c", TRUE), Long(<<"rpc", "back">>, "zz", TRUE), Long(<<"http">>, "bad", TRUE),
    Long(<<"seed">>, "100", TRUE), Long(<<"seed">>, "128", TRUE), Long(<<"y">>, "", FALSE), Long(<<"yes">>, "", FALSE),
    Short(<<"q", "d">>, ""), Short(<<"a", "y">>, ""), Short(<<"q", "l">>, "128"), Short(<<"z">>, ""), Long(<<"out">>, "d", TRUE)}

Var(text, disable) == [text |-> text, disable |-> disable]

Environments == {<<>>, [quiet |-> Var("0", FALSE)], [testnet |-> Var("1", FALSE), http_timeout |-> Var("", FALSE)],
                 [color |-> Var("yes", TRUE)], [http_timeout |-> Var("7", FALSE)],
                 [rpc_backend |-> Var("curl", FALSE)], [testnet |-> Var("bad", FALSE)]}

FileLine(name, text) == [name |-> name, text |-> text]

SampleLines == {FileLine("quiet", "true"), FileLine("testnet", "true"), FileLine("http_timeout", "100"),
                FileLine("rpc_backend", "auto"), FileLine("autosign", "true"), FileLine("subseeds", "100")}

FileLines == SampleLines \union {FileLine("quiet", "no"), FileLine("testnet", "bad"), FileLine("http_timeout", ""),
                 FileLine("rpc_backend", "c"), FileLine("seed_len", "100"), FileLine("foo", "true"), FileLine("color", "on")}

Started(argv, env, lines, documented, smp, us) ==
    [argv |-> argv, env |-> env, lines |-> lines, documented |-> documented, sample |-> smp, usr |-> us]

MCStarts == UNION {
    {Started(<<x, y>>, <<>>, <<>>, FALSE, "current", "comments") : x, y \in Arguments},
    {Started(<<x>>, env, <<ln>>, FALSE, "current", "lines") : x \in Arguments, env \in Environments, ln \in FileLines},
    {Started(<<>>, env, <<x, y>>, FALSE, "current", "lines") : env \in {<<>>, [quiet |-> Var("0", FALSE)]}, x, y \in FileLines},
    {Started(<<>>, <<>>, <<x>>, TRUE, "older", "lines") : x \in SampleLines},
    {Started(<<>>, <<>>, <<>>, FALSE, smp, us) : smp \in {"missing", "current", "unmarked", "altered", "older", "torn"},
                                                us \in {"missing", "empty", "comments"}}}

MCSets == {<<"yes", "true", "quiet", "true">>}
MCGroups == {{"autosign", "outdir"}}
MCGood == [seed_len |-> {"128"}, outdir |-> {"d"}]
MCBegins == {<<"auto", "auto">>, <<"c", "curl">>, <<"curl", "curl">>}

(* Files of transactions with every kind of input and output, with and     *)
(* without locktime, comment and memo, in both formats.                    *)
Spent(id, n, type, seq) == [txid |-> id, vout |-> n, mmtype |-> type, seq |-> seq, amt |-> 5]
TxOutput(addr, bytes, amt, chg) == [addr |-> addr, data |-> bytes, amt |-> amt, chg |-> chg]
FileJob(coin, is, os, lock, note, swap, fmt) ==
    [coin |-> coin, ins |-> is, outs |-> os, lock |-> lock, comment |-> note, swap |-> swap, format |-> fmt]

p2pkh == TxOutput(<<1, 3>>, <<>>, 2, FALSE)
p2sh == TxOutput(<<2, 3>>, <<>>, 2, FALSE)
opreturn == TxOutput(<<>>, <<5>>, 0, FALSE)
back == TxOutput(<<3, 5>>, <<>>, 1, TRUE)

FileJobs == {
    FileJob("btc", <<Spent(3, 0, "C", 7)>>, <<p2pkh, back>>, 0, "", FALSE, "json"),
    FileJob("btc", <<Spent(3, 1, "S", 8), Spent(3, 2, "B", 8)>>, <<opreturn, p2sh>>, 3, "note", FALSE, "json"),
    FileJob("btc", <<Spent(4, 1, "B", 9)>>, <<p2pkh>>, 0, "", FALSE, "legacy"),
    FileJob("ltc", <<Spent(4, 1, "L", 7), Spent(5, 0, "B", 7)>>, <<back, p2pkh>>, 2, "note", FALSE, "legacy"),
    FileJob("ltc", <<Spent(4, 1, "B", 7)>>, <<p2sh, opreturn, back>>, 0, "", TRUE, "json")}

(* Sending in every way, of one part and of two.                           *)
MCSendJobs == {x \in [kind : {"btc", "eth"}, parts : {1, 2}, idx : {0, 2, 3}, act : {"send", "status", "receipt", "test", "dump"},
                    proxy : BOOLEAN, wait : BOOLEAN, asi : BOOLEAN, swap : BOOLEAN, expired : BOOLEAN,
                    own : BOOLEAN, index : BOOLEAN] :
    /\ x.parts = 2 => x.kind = "eth" /\ x.swap
    /\ x.kind = "eth" => x.own /\ x.index
    /\ x.expired => x.swap /\ x.own /\ x.index}

(* Every byte string up to a length, items in lists, and transactions of   *)
(* every kind for several networks.                                        *)
Strings(elems, len) == UNION {[1 .. n -> elems] : n \in 0 .. len}
RlpLists(items) == {<<"l", <<>>>>} \union {<<"l", <<x>>>> : x \in items} \union {<<"l", <<x, y>>>> : x, y \in items}

RlpItems ==
    LET long == <<1, 2, 3, 4, 5, 6, 7, 8, 9, 0, 1, 2>>
        strings == {<<"s", x>> : x \in Strings({0, 1, 5}, 2) \union {long}}
    IN strings \union RlpLists(strings) \union RlpLists({<<"s", <<>>>>, <<"s", <<0>>>>, <<"l", <<>>>>, <<"l", <<<<"s", <<5, 5>>>>>>>>})

EthJob(kind, from, to, amt, nonce, chain, bytes, note) ==
    [kind |-> kind, from |-> from, to |-> to, amt |-> amt, nonce |-> nonce, net |-> chain, data |-> bytes, memo |-> note]

EthJobs ==
    {[kind |-> "bytes", raw |-> x] : x \in Strings(0 .. 9, 4)} \union {[kind |-> "item", item |-> x] : x \in RlpItems}
    \union {EthJob("plain", from, <<7>>, amt, nonce, chain, <<>>, <<>>) :
                from \in {1, 2}, amt \in {0, 5}, nonce \in {0, 3, 10}, chain \in {0, 1, 5}}
    \union {EthJob("contract", 1, <<>>, 0, 3, 1, <<1, 2>>, <<>>), EthJob("swap", 1, <<7>>, 3, 0, 1, <<>>, <<1, 2>>),
            EthJob("token", 1, <<7>>, 3, 0, 1, <<>>, <<>>), EthJob("tokenswap", 2, <<>>, 3, 4, 5, <<>>, <<1, 2, 3>>)}

(* Messages for the addresses of several seeds, one a sub-seed, of which   *)
(* some have no wallet.                                                    *)
MsgSpec(sid, type, idxs) == [sid |-> sid, type |-> type, idxs |-> idxs]
MsgKey(sid, type, idx) == [sid |-> sid, type |-> type, idx |-> idx]

MsgSpecs == {
    <<MsgSpec(1, "", {1, 2}), MsgSpec(2, "S", {1})>>, <<MsgSpec(3, "B", {1}), MsgSpec(1, "C", {2})>>,
    <<MsgSpec(1, "C", {1}), MsgSpec(2, "C", {1}), MsgSpec(1, "C", {1, 2}), MsgSpec(4, "S", {3})>>, <<MsgSpec(2, "E", {1, 2})>>}

MCMsgJobs == [coin : {"btc", "eth"}, specs : MsgSpecs, message : {"text"}, hash : {"", "raw", "eth_sign"},
            wallets : {<<1>>, <<2, 1>>, <<1, 2>>}, addrs : {{}, {MsgKey(1, "C", 1)}, {MsgKey(2, "S", 1)}}]

MCMsgSubseeds == [s \in 1 .. 4 |-> IF s = 1 THEN {3} ELSE {}]

(* Swaps between coins and tokens, of an amount and of everything, to every *)
(* kind of address, with every kind of limit; and numbers.                 *)
Asset(chain, coin, token, abbr, full) == [chain |-> chain, coin |-> coin, token |-> token, abbr |-> abbr, full |-> full]
SwapAssets == [
    BTC |-> Asset("BTC", "BTC", "", "b", ""), ETH |-> Asset("ETH", "ETH", "", "e", ""), DOGE |-> Asset("DOGE", "DOGE", "", "d", ""),
    RUNE |-> Asset("THOR", "RUNE", "", "r", "THOR.RUNE"), AAVE |-> Asset("ETH", "ETH", "AAVE", "", "ETH.AAVE"),
    DAI |-> Asset("ETH", "ETH", "DAI", "", "ETH.DAI")]

SwapJob(from, amt, chg, into, where, bound, interval, anydest) ==
    [kind |-> "swap", send |-> from, amt |-> amt, chg |-> chg, recv |-> into, to |-> where, limit |-> bound,
     interval |-> interval, anydest |-> anydest]
MCSwapJobs ==
    {SwapJob(from, amt, "", into, where, bound, 3, FALSE) :
        from \in {"BTC", "ETH", "AAVE", "RUNE"}, amt \in {0, 3}, into \in {"DAI", "BTC", "RUNE"}, where \in {"", "addr"},
        bound \in {<<>>, <<"abs", 1200>>, <<"pct", 3>>}}
    \union {SwapJob("BTC", amt, chg, into, where, <<>>, interval, TRUE) :
        amt \in {0, 3}, chg \in {"", "type", "mmid", "addr"}, into \in {"ETH", "DOGE"}, where \in {"mmid", "type", "addr"}, interval \in {1, 21}}
    \union {[kind |-> "int", n |-> n] : n \in 0 .. 1100 \union {12345, 99999, 30000, 10203}}

(* Files written with and without their questions, by hand and by a pipe,  *)
(* texts around the maximum size, and every choice of a seed file.         *)
WriteJob(is, asked, yes, quiet, out, cmp, tty, disable, accept) ==
    [kind |-> "write", file |-> is, ask_write |-> asked, dflt_yes |-> yes, quiet |-> quiet, stdout |-> out, no_tty |-> accept,
     check_data |-> cmp, tty |-> tty, disable |-> disable, accept_defaults |-> accept]
MCPromptJobs ==
    {WriteJob(is, asked, yes, FALSE, "no", cmp, TRUE, FALSE, FALSE) :
        is \in {"absent", "old"}, asked, yes, cmp \in BOOLEAN}
    \union {WriteJob("old", TRUE, FALSE, quiet, out, FALSE, tty, TRUE, accept) :
        quiet, tty, accept \in BOOLEAN, out \in {"no", "screen"}}
    \union {[kind |-> "read", text |-> x, binary |-> bin] : x \in Strings({1, 2}, 4), bin \in BOOLEAN}
    \union {[kind |-> "seed", args |-> x, nargs |-> y, default |-> dflt, opts |-> opt] :
        x \in 0 .. 2, y \in 0 .. 1, dflt, opt \in BOOLEAN}

-------------------------------------------------------------------------------
VARIABLES subject, job, step, tx, file, disk, altered,                        \* of several
    part, where, sent, allOk, taken, told, seen, moves,                       \* of TxSend
    mmtype, data, labels, exclude, types, sids, bot, top, mid, res, picked,   \* of ChangeAddr
    ins, outs, fee, reduced,                                                  \* of TxCreate
    idx, opts, uopts, cfg, envopts, nonauto, auto, sample, usr, kills,        \* of Config
    at, kb, timer, got, shown, mode, answers,                                 \* of Prompts
    to, memo, vault, quote, expiry, limit, gas, time, after,                  \* of Swaps
    files, nth, pool, copied, saved, stage, sid, checked, have, keys, result, \* of TxSign
    view, plugged, mounted, swap, ram, orig, cmd, loop, cache, made, past,    \* of AutosignSetup
    export, verified, written, etx, signed                                    \* of MsgSign, TxFile, EthTx

sendVars == <<part, where, sent, allOk, taken, told, seen, moves>>
changeVars == <<mmtype, data, labels, exclude, types, sids, bot, top, mid, res, picked>>
createVars == <<ins, outs, fee, reduced>>
optionVars == <<idx, opts, uopts, cfg, envopts, nonauto, auto, sample, usr, kills>>
promptVars == <<at, kb, timer, got, shown, mode, answers>>
swapVars == <<to, memo, vault, quote, expiry, limit, gas, time, after>>
keyVars == <<files, nth, pool, copied, saved, stage, sid, checked, have, keys, result>>
setupVars == <<view, plugged, mounted, swap, ram, orig, cmd, loop, cache, made, past>>
otherVars == <<export, verified, written, etx, signed>>

allVars == <<subject, vars, job, step, tx, file, disk, altered, sendVars, changeVars, createVars, optionVars, promptVars,
             swapVars, keyVars, setupVars, otherVars>>

Sending == INSTANCE TxSend WITH Jobs <- SendJobs, pc <- step, net <- where

Change == INSTANCE ChangeAddr WITH pc <- step, n <- mid

Creating == INSTANCE TxCreate WITH Jobs <- CreateJobs, pc <- step

Options == INSTANCE Config WITH pc <- step

Asking == INSTANCE Prompts WITH Jobs <- PromptJobs, pc <- step

Swap == INSTANCE Swaps WITH Jobs <- SwapJobs, Fees <- SwapFees, pc <- step, clock <- time

Keys == INSTANCE TxSign WITH Jobs <- SignJobs, pc <- step, k <- nth

Setup == INSTANCE AutosignSetup WITH pc <- step

Message == INSTANCE MsgSign WITH Jobs <- MsgJobs, Subseeds <- MsgSubseeds, pc <- step, faults <- altered

Filed == INSTANCE TxFile WITH
    Jobs <- FileJobs, Values <- {0, 1, 2, 3, 6}, MaxInt <- 9, MaxData <- 2, pc <- step, faults <- altered

Ethereum == INSTANCE EthTx WITH
    Jobs <- EthJobs, Str <- 2, Few <- 2, LenBytes <- 2, Router <- 5, Token <- 6, Vault <- 8, Expiry <- 4,
    pc <- step

ASSUME SendConstants == Sending!SendAssumption
ASSUME ChangeConstants == Change!ChangeAssumption
ASSUME CreateConstants == Creating!CreateAssumption
ASSUME OptionConstants == Options!ConfigAssumption
ASSUME PromptConstants == Asking!PromptAssumption
ASSUME SwapConstants == Swap!SwapAssumption
ASSUME SigningConstants == Keys!SignAssumption
ASSUME SetupConstants == Setup!SetupAssumption /\ \E D \in Devices : Devices = {D}
ASSUME MessageConstants == Message!MsgAssumption

-------------------------------------------------------------------------------
(* The variables a subject does not use.                                   *)
Idle(x, y, z) == x = 0 /\ y = 0 /\ z = 0

NoSend == Idle(part, where, sent) /\ Idle(allOk, taken, told) /\ seen = 0 /\ moves = 0
NoChange ==
    Idle(mmtype, data, labels) /\ Idle(exclude, types, sids) /\ Idle(bot, top, mid) /\ res = 0 /\ picked = 0
NoCreate == Idle(ins, outs, fee) /\ reduced = 0
NoOption == Idle(idx, opts, uopts) /\ Idle(cfg, envopts, nonauto) /\ Idle(auto, sample, usr) /\ kills = 0
NoPrompt == Idle(at, kb, timer) /\ Idle(got, shown, mode) /\ answers = 0
NoSwap == Idle(to, memo, vault) /\ Idle(quote, expiry, limit) /\ Idle(gas, time, after)
NoKey ==
    Idle(files, nth, pool) /\ Idle(copied, saved, stage) /\ Idle(sid, checked, have) /\ keys = 0 /\ result = 0
NoSetup ==
    Idle(view, plugged, mounted) /\ Idle(swap, ram, orig) /\ Idle(cmd, loop, cache) /\ made = 0 /\ past = 0

MCInit == Init /\
    /\ \/ subject = "autosign"
       \/ subject = "create" /\ Creating!Init
       \/ subject = "sign" /\ Keys!Init
       \/ subject = "change" /\ Change!Init
       \/ subject = "options" /\ Options!Init
       \/ subject = "file" /\ Filed!Init
       \/ subject = "send" /\ Sending!Init
       \/ subject = "setup" /\ Setup!Init
       \/ subject = "message" /\ Message!Init
       \/ subject = "ether" /\ Ethereum!Init
       \/ subject = "swap" /\ Swap!Init
       \/ subject = "prompts" /\ Asking!Init
    /\ subject \in {"autosign", "change", "setup"} => job = 0
    /\ subject = "autosign" => step = 0
    /\ subject \notin {"create", "swap", "file"} => tx = 0
    /\ subject \notin {"prompts", "message", "ether"} => file = 0
    /\ subject \notin {"setup", "file"} => disk = 0
    /\ subject \notin {"message", "file", "ether"} => altered = 0
    /\ subject # "send" => NoSend
    /\ subject # "change" => NoChange
    /\ subject # "create" => NoCreate
    /\ subject # "options" => NoOption
    /\ subject # "prompts" => NoPrompt
    /\ subject # "swap" => NoSwap
    /\ subject # "sign" => NoKey
    /\ subject # "setup" => NoSetup
    /\ subject # "message" => export = 0 /\ verified = 0
    /\ subject # "file" => written = 0
    /\ subject # "ether" => etx = 0 /\ signed = 0

MCNext ==
    /\ UNCHANGED subject
    /\ \/ /\ subject = "autosign" /\ Next
          /\ UNCHANGED <<job, step, tx, file, disk, altered, sendVars, changeVars, createVars, optionVars,
                         promptVars, swapVars, keyVars, setupVars, otherVars>>
       \/ /\ subject = "create" /\ Creating!Next
          /\ UNCHANGED <<vars, file, disk, altered, sendVars, changeVars, optionVars, promptVars, swapVars, keyVars,
                         setupVars, otherVars>>
       \/ /\ subject = "sign" /\ Keys!Next
          /\ UNCHANGED <<vars, tx, file, disk, altered, sendVars, changeVars, createVars, optionVars, promptVars,
                         swapVars, setupVars, otherVars>>
       \/ /\ subject = "change" /\ Change!Next
          /\ UNCHANGED <<vars, job, tx, file, disk, altered, sendVars, createVars, optionVars, promptVars, swapVars,
                         keyVars, setupVars, otherVars>>
       \/ /\ subject = "options" /\ Options!Next
          /\ UNCHANGED <<vars, tx, file, disk, altered, sendVars, changeVars, createVars, promptVars, swapVars,
                         keyVars, setupVars, otherVars>>
       \/ /\ subject = "file" /\ Filed!Next
          /\ UNCHANGED <<vars, file, sendVars, changeVars, createVars, optionVars, promptVars, swapVars, keyVars,
                         setupVars, export, verified, etx, signed>>
       \/ /\ subject = "send" /\ Sending!Next
          /\ UNCHANGED <<vars, tx, file, disk, altered, changeVars, createVars, optionVars, promptVars, swapVars,
                         keyVars, setupVars, otherVars>>
       \/ /\ subject = "setup" /\ Setup!Next
          /\ UNCHANGED <<vars, job, tx, file, altered, sendVars, changeVars, createVars, optionVars, promptVars,
                         swapVars, keyVars, otherVars>>
       \/ /\ subject = "message" /\ Message!Next
          /\ UNCHANGED <<vars, tx, disk, sendVars, changeVars, createVars, optionVars, promptVars, swapVars,
                         keyVars, setupVars, written, etx, signed>>
       \/ /\ subject = "ether" /\ Ethereum!Next
          /\ UNCHANGED <<vars, tx, disk, sendVars, changeVars, createVars, optionVars, promptVars, swapVars,
                         keyVars, setupVars, export, verified, written>>
       \/ /\ subject = "swap" /\ Swap!Next
          /\ UNCHANGED <<vars, file, disk, altered, sendVars, changeVars, createVars, optionVars, promptVars,
                         keyVars, setupVars, otherVars>>
       \/ /\ subject = "prompts" /\ Asking!Next
          /\ UNCHANGED <<vars, tx, disk, altered, sendVars, changeVars, createVars, optionVars, swapVars, keyVars,
                         setupVars, otherVars>>

(* The program has ended.                                                  *)
ProgramEnded == subject # "autosign" /\ UNCHANGED allVars

MCSpec == MCInit /\ [][MCNext \/ ProgramEnded]_allVars

(* The transactions made balance, and pay what was asked (TxCreate), the   *)
(* change to the first unused address of its list (ChangeAddr); a swap     *)
(* goes where it was asked to, under the terms of the latest quote (Swaps).*)
MadeRight ==
    /\ subject = "create" => Creating!MadeRight
    /\ subject = "change" => Change!PicksFirstUnused
    /\ subject = "swap" => Swap!SwapRight

(* What is read is what was written, what is sent is what was asked for,   *)
(* through every file and daemon (TxFile, EthTx), and what is recorded and *)
(* told of the sending is true (TxSend).                                   *)
SentAsFiled ==
    /\ subject = "file" => Filed!FileRight
    /\ subject = "send" => Sending!RecordTrue /\ Sending!StatusTrue
    /\ subject = "ether" => Ethereum!EthRight

(* A replacement replaces (TxCreate), that of a swap too (Swaps).          *)
BumpReplaces == [][(subject = "create" => Creating!Replacing) /\ (subject = "swap" => Swap!SwapReplacing)]_allVars

(* What is signed is verified, and nothing else is refused (TxSign); the   *)
(* signing machine is set up as it says, signs with the keys of one setup, *)
(* and not after they are wiped (AutosignSetup); messages are signed and   *)
(* verified as they are (MsgSign).                                         *)
SignedRight ==
    /\ subject = "sign" => Keys!SignedIsVerified /\ Keys!AutosignRefusesOnly
    /\ subject = "setup" => Setup!SetupRight
    /\ subject = "message" => Message!MsgRight

(* Options come from the first source that gives them (Config), and no     *)
(* question is answered, or file overwritten, that the user did not see    *)
(* (Prompts).                                                              *)
OptionsRight ==
    /\ subject = "options" => Options!ConfigRight
    /\ subject = "prompts" => Asking!PromptsRight

(* Neither terminals nor transactions are told apart.                      *)
Symmetry == Permutations(Procs) \union Permutations(Tx)
===============================================================================
