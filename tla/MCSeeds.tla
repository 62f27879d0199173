------------------------------ MODULE MCSeeds ------------------------------
(* Model-checking instance of seeds and what is made of them: sub-seeds    *)
(* and shares, wallet files, phrases, derivation paths, keys and           *)
(* addresses, their lists, amounts and other values, and encrypted files.  *)
(* A behaviour is about one subject.  Sub-seeds, shares and wallets have   *)
(* variables of their own; the others share v1, v2 ..., each under its own *)
(* names.                                                                  *)
EXTENDS SubSeeds, Integers, Sequences, SequencesExt, TLC

CONSTANTS Bits, Counts,                                               \* of SeedShares
    Passwords, Presets, Salts, Labels, KeyId(_), Worlds, Offsets, Jobs, BoxSize, MaxCommands    \* of Wallets

VARIABLES subject,
    whole, split, mix, master, derived, list,
    disk, box, pc, job, in, old, out, agreed, done,
    v1, v2, v3, v4, v5, v6, v7, v8, v9, v10, v11, v12, v13, v14, v15

shared == <<whole, split, mix, master, derived, list>>
filed == <<disk, box, pc, job, in, old, out, agreed, done>>
hosted == <<v1, v2, v3, v4, v5, v6, v7, v8, v9, v10, v11, v12, v13, v14, v15>>

(* The variables a subject does not use.                                   *)
Idle(x, y, z) == x = 0 /\ y = 0 /\ z = 0

Shares == INSTANCE SeedShares WITH parent <- whole, scramble <- mix

ASSUME ShareConstants == Shares!ShareAssumption

Vault == INSTANCE Wallets

ASSUME WalletConstants == Vault!WalletsAssumption

NoShares == Idle(whole, split, mix) /\ Idle(master, derived, list)

NoVault == Idle(disk, box, pc) /\ Idle(job, in, old) /\ Idle(out, agreed, done)

NotHosted ==
    Idle(v1, v2, v3) /\ Idle(v4, v5, v6) /\ Idle(v7, v8, v9) /\ Idle(v10, v11, v12) /\ Idle(v13, v14, v15)

MCSidOf(seed) == seed

(* Splits that have no share in common are not put together.               *)
Related(f) == \A s, t \in Sessions : f[s] = f[t] \/ (f[s].master /\ f[t].master)

-------------------------------------------------------------------------------
(* Lists of every kind, for two networks and for coins with and without    *)
(* the same base, read by commands for the same coin and for others.       *)
Proto(coin, base, net, types, view) == [coin |-> coin, base |-> base, net |-> net, types |-> types, view |-> view]

KnownProtos == [
    btc |-> Proto("BTC", "BTC", "mainnet", <<"L", "C", "S", "B">>, "legacy"),
    btc_tn |-> Proto("BTC", "BTC", "testnet", <<"L", "C", "S", "B">>, "legacy"),
    bch |-> Proto("BCH", "BTC", "mainnet", <<"L", "C">>, "cash"),
    ltc |-> Proto("LTC", "LTC", "mainnet", <<"L", "C", "S", "B">>, "legacy"),
    eth |-> Proto("ETH", "ETH", "mainnet", <<"E">>, "legacy"),
    eth_rt |-> Proto("ETH", "ETH", "regtest", <<"E">>, "legacy"),
    etc |-> Proto("ETC", "ETH", "mainnet", <<"E">>, "legacy"),
    xmr |-> Proto("XMR", "XMR", "mainnet", <<"M">>, "legacy")]

AddrType(nm, wif, extra) == [name |-> nm, wif |-> wif, extra |-> extra]

AddrTypes == [
    L |-> AddrType("legacy", "wif", {}), C |-> AddrType("compressed", "wif", {}), S |-> AddrType("segwit", "wif", {}),
    B |-> AddrType("bech32", "wif", {}), E |-> AddrType("ethereum", "privkey", {"wallet_passwd"}),
    M |-> AddrType("monero", "spendkey", {"viewkey", "wallet_passwd"})]

PwFormat(min, max, dfl, valid) == [min |-> min, max |-> max, dfl |-> dfl, valid |-> valid]

PwFormats == [
    b32 |-> PwFormat(10, 42, 24, {}), b58 |-> PwFormat(8, 36, 20, {}), bip39 |-> PwFormat(12, 24, 24, {12, 18, 24}),
    xmrseed |-> PwFormat(25, 25, 25, {25}), hex |-> PwFormat(32, 64, 64, {32, 48, 64})]

ListJob(class, proto, type, spec, b16) ==
    [class |-> class, proto |-> proto, type |-> type, spec |-> spec, b16 |-> b16, sid |-> "A",
     fmt |-> "none", pwlen |-> 0, pwid |-> "id", seedlen |-> 32, hex2bip39 |-> FALSE]

PwJob(fmt, n, seedlen, h) ==
    [ListJob("PasswordList", "btc", "P", <<<<1, 2>>>>, FALSE) EXCEPT
        !.fmt = fmt, !.pwlen = n, !.seedlen = seedlen, !.hex2bip39 = h]

Specs == {<<<<x>>, <<y, z>>>> : x \in {1, 2, 6}, y \in {0, 1, 3}, z \in {3, 4}} \union {<<<<3>>, <<1>>>>, <<<<2, 1>>>>}

Spec2 == <<<<1>>, <<3>>>>

ListJobs ==
    {ListJob("AddrList", "ltc", "C", spec, FALSE) : spec \in Specs}
    \union {ListJob(c, p[1], p[2], Spec2, b) :
        c \in {"AddrList", "KeyAddrList"}, b \in BOOLEAN,
        p \in {<<"btc", "L">>, <<"btc", "B">>, <<"btc_tn", "L">>, <<"btc_tn", "S">>, <<"bch", "L">>, <<"bch", "C">>, <<"ltc", "L">>,
               <<"eth", "E">>, <<"eth_rt", "E">>, <<"etc", "E">>, <<"xmr", "M">>}}
    \union {ListJob("ViewKeyAddrList", p, "M", Spec2, FALSE) : p \in {"xmr"}}
    \union {ListJob("ViewKeyAddrList", "btc", "C", Spec2, FALSE), ListJob("KeyList", "btc", "C", Spec2, FALSE)}
    \union {PwJob(fmt, n, l, FALSE) : fmt \in DOMAIN PwFormats, n \in {0, 1, 22, 24, 26, 32, 48}, l \in {16, 32}}
    \union {PwJob("bip39", n, 32, TRUE) : n \in {0, 12}}

ListReaders == {<<p, c[1], c[2]>> : p \in DOMAIN KnownProtos, c \in {<<"AddrList", TRUE>>, <<"KeyAddrList", TRUE>>, <<"KeyAddrList", FALSE>>}}
               \union {<<"xmr", "ViewKeyAddrList", TRUE>>, <<"btc", "PasswordList", TRUE>>}

Lists == INSTANCE AddrLists WITH
    Protos <- KnownProtos, Types <- AddrTypes, PwInfo <- PwFormats, Jobs <- ListJobs, Readers <- ListReaders, MaxFails <- 1,
    job <- v1, pc <- v2, idxs <- v3, hash <- v4, rounds <- v5, list <- v6, file <- v7, name <- v8,
    reader <- v9, lines <- v10, want <- v11, got <- v12, wallet <- v13, todo <- v14, fails <- v15

-------------------------------------------------------------------------------
(* Wallets of each kind, sound or mistyped, and the commands for them.  Two *)
(* keys of one salt have one Key ID.                                       *)
WalletKey(k) == k[2]

WalletJob(cmd, src) ==
    [cmd |-> cmd, src |-> src, type |-> "words", infmt |-> "", out |-> "mmgen", seedlen |-> 0, oldfmt |-> FALSE, off |-> 0,
     outoff |-> 0, pwfile |-> "", newonly |-> FALSE, keep |-> FALSE, hp |-> 0, label |-> "", force |-> FALSE, dir |-> "work"]

WalletOf(t, len, salt, typo, oldfmt) ==
    LET enc == t \in {"mmgen", "incog", "incog_hidden"} IN
    [type |-> t, seed |-> "s", len |-> len, whole |-> TRUE, typo |-> typo, old |-> oldfmt, pw |-> IF enc THEN "p" ELSE "",
     hp |-> IF enc \/ t = "brain" THEN 1 ELSE 0, salt |-> IF enc THEN salt ELSE 0, label |-> IF t = "mmgen" THEN "x" ELSE ""]

WalletWorlds ==
    {<<"data", WalletOf("mmgen", 256, 1, FALSE, FALSE), 0>>, <<"work", WalletOf("mmgen", 128, 1, TRUE, FALSE), 0>>,
     <<"work", WalletOf("words", 128, 1, TRUE, FALSE), 0>>, <<"work", WalletOf("words", 256, 1, FALSE, FALSE), 0>>,
     <<"work", WalletOf("incog", 256, 1, TRUE, FALSE), 0>>, <<"work", WalletOf("incog", 192, 1, FALSE, TRUE), 0>>,
     <<"work", WalletOf("brain", 256, 1, FALSE, FALSE), 0>>,
     <<"box", WalletOf("incog_hidden", 128, 1, FALSE, FALSE), 0>>, <<"box", WalletOf("incog_hidden", 256, 1, FALSE, FALSE), 40>>}

WalletJobs ==
    {WalletJob("passchg", "default"), WalletJob("passchg", "file"), [WalletJob("passchg", "box") EXCEPT !.seedlen = 128]}
    \union {[WalletJob("passchg", "default") EXCEPT !.pwfile = "p", !.newonly = n, !.force = TRUE] : n \in BOOLEAN}
    \union {[WalletJob("conv", "file") EXCEPT !.out = t, !.keep = TRUE] : t \in {"mmgen", "words"}}
    \union {[WalletJob("conv", "box") EXCEPT !.out = "incog_hidden", !.off = 40, !.outoff = o, !.keep = TRUE] : o \in {0, 100}}
    \union {[WalletJob("conv", "file") EXCEPT !.out = "incog_hidden", !.outoff = 0, !.hp = 1, !.pwfile = "q", !.newonly = TRUE]}
    \union {[WalletJob("gen", "none") EXCEPT !.dir = "data", !.hp = 1, !.label = "x"]}
    \union {[WalletJob("chk", "file") EXCEPT !.oldfmt = TRUE, !.seedlen = l] : l \in {0, 192}}
    \union {[WalletJob("conv", "typed") EXCEPT !.type = t, !.keep = TRUE, !.hp = 1] : t \in {"words", "mmgen"}}

-------------------------------------------------------------------------------
(* Derivation for coins with version bytes of their own, with those of     *)
(* others, and with the same ones for two BIPs.                            *)
HdHash(cc, key, raw) == LET x == (cc * 31 + key.k * 7 + raw * 13 + IF key.pub THEN 5 ELSE 0) IN <<x % 23, x % 17>>
HdVB(bip, coin) ==
    CASE bip = 84 -> "z" [] coin = "doge" -> "d" [] bip = 49 -> "y" [] OTHER -> "x"
HdCoins == [
    btc |-> [types |-> {"L", "C", "S", "B"}, dfl |-> "L", idx |-> 0],
    doge |-> [types |-> {"L", "C"}, dfl |-> "L", idx |-> 3],
    eth |-> [types |-> {"E"}, dfl |-> "E", idx |-> 60]]
Hd == INSTANCE HdPath WITH
    Order <- 23, Hash <- HdHash, HardIdx <- 100, Coins <- HdCoins, VB <- HdVB, Master <- <<3, 5>>,
    Indexes <- {0, 1, 101}, Types <- {"", "S", "B"}, Nets <- {"mainnet", "testnet"}, MaxDepth <- 3,
    node <- v1, path <- v2

-------------------------------------------------------------------------------
(* Small word lists, some of whose words begin others, and small bytes.    *)
Singles(n) == [i \in 1 .. n |-> <<i>>]
MnLists == [
    words |-> <<<<1>>, <<1, 1, 2>>, <<1, 2>>, <<2, 1>>, <<2, 1, 1>>, <<2, 2, 1>>>>,
    bip39 |-> <<<<1, 1, 1>>, <<1, 1, 2>>, <<1, 2>>, <<1, 2, 2, 1>>, <<1, 3, 1, 1>>, <<2, 1, 1>>, <<2, 2>>, <<2, 2, 1, 1>>>>,
    xmr |-> <<<<1, 1>>, <<1, 2>>, <<2, 1, 1>>, <<2, 2>>, <<3, 1>>>>,
    two |-> Singles(2), three |-> Singles(3)]
MnKind(l, check, over, modes, lens) == [list |-> l, check |-> check, over |-> over, modes |-> modes, lens |-> lens]
MnKinds == [
    words |-> MnKind("words", "none", "refuse", {"full", "minimal", "fixed"}, {<<2, 2>>, <<3, 3>>}),
    bip39 |-> MnKind("bip39", "bip39", "refuse", {"full", "short", "fixed"}, {<<2, 2>>, <<3, 3>>}),
    xmrseed |-> MnKind("xmr", "xmr", "refuse", {"full", "short"}, {<<4, 7>>}),
    dieroll |-> MnKind("three", "none", "truncate", {}, {<<2, 3>>, <<3, 4>>}),
    seed |-> MnKind("three", "sum6", "refuse", {}, {<<2, 3>>, <<3, 4>>}),
    mmhex |-> MnKind("two", "sum6", "refuse", {}, {<<2, 4>>, <<3, 6>>}),
    plainhex |-> MnKind("two", "none", "refuse", {}, {<<2, 4>>, <<3, 6>>})]
MnHash(x) == FoldLeft(LAMBDA a, d : (a * 7 + d + 3) % 31, 5, x)
MnSum6(k, x) == MnHash(x) % 3
MnBip(x, c) == MnHash(x) % c
MnMix(x) == [i \in DOMAIN x |-> (x[i] + 1) % 4]
MnJob(k, from, md, n) == [kind |-> k, from |-> from, mode |-> md, usrlen |-> n]
MnJobs == {MnJob(k, "file", "", n) : k \in DOMAIN MnKinds, n \in {0, 2}}
    \union {MnJob("words", "keys", md, 2) : md \in {"", "short"}} \union {MnJob("bip39", "keys", "", 2)}
    \union {MnJob("dieroll", "keys", "", 0), MnJob("xmrseed", "keys", "", 2)}
MnSeeds == [1 .. 2 -> 0 .. 3] \union {<<0, 0, x>> : x \in 0 .. 3} \union {<<3, x, 1>> : x \in 0 .. 3}
           \union {<<0, x, y, 3>> : x \in 0 .. 3, y \in {0, 2}}

Mn == INSTANCE Mnemonics WITH
    Wordlists <- MnLists, Kinds <- MnKinds, ByteBase <- 4, ChunkLen <- 2, PadMax <- 1, Sum6 <- MnSum6, BipSum <- MnBip,
    Crc <- MnHash, Mix <- MnMix, Jobs <- MnJobs, SeedSet <- MnSeeds, MaxTyped <- 4,
    job <- v1, pc <- v2, mode <- v3, s <- v4, pad <- v5, range <- v6, phrase <- v7, last <- v8, seed <- v9, told <- v10

ASSUME ListsSorted == Mn!Sorted

-------------------------------------------------------------------------------
(* Amounts of a coin with a maximum, of one without, whose numbers go to   *)
(* the limits of the context, and of tokens; attributes of every kind;     *)
(* labels with wide characters; and the IDs of several addresses.          *)
AmtJob(amt, prec, digits, max, token) ==
    [kind |-> "amt", text |-> amt, args |-> {0, 10, 335, 5000, 89990}, factors |-> {<<0, 1>>, <<1, 3>>, <<5, 8>>, <<2, 1>>},
     prec |-> prec, digits |-> digits, max |-> max, token |-> token]
ValAttr(desc, init, flag) ==
    [desc |-> desc, init |-> init, none_ok |-> flag = "none_ok", reassign |-> flag = "reassign", delete |-> flag = "delete",
     set_ok |-> flag = "set_ok", reset_ok |-> flag = "reset_ok", skip |-> flag = "skip"]
AnInt(n) == [type |-> "int", v |-> n]
AStr(n) == [type |-> "str", v |-> n]
ABool(n) == [type |-> "bool", v |-> n]
ANone == [type |-> "none", v |-> 0]
ObjJob(attrs, class_attr) ==
    [kind |-> "obj", attrs |-> attrs, class_attr |-> class_attr, values |-> {AnInt(0), AnInt(1), AStr(0), AStr(1), ABool(0), ANone}]
AnId(sid, type, i, zeroes, ext) == [sid |-> sid, type |-> type, idx |-> i, zeroes |-> zeroes, ext |-> ext]
IdJob(x, y) == [kind |-> "ids", types |-> {1, 2}, monero |-> x.ext # <<>>, digits |-> 2, ids |-> <<x, y>>]
LabelChars == UNION {[1 .. n -> {1, 2}] : n \in 0 .. 4} \union {<<1, 3, 2>>}

ValueJobs ==
    {AmtJob(n, 2, 4, 9000, FALSE) : n \in {0, 10, 1234, 8990, 9000, 9010, 10000, 12344}}
    \union {AmtJob(n, 2, 4, 0, FALSE) : n \in {10, 99990, 99995, 123450, 1234560}}
    \union {AmtJob(n, prec, 6, 0, TRUE) : n \in {100, 1200, 1230}, prec \in {1, 2}}
    \union {ObjJob([a1 |-> ValAttr(desc, AnInt(0), flag), a2 |-> ValAttr("list", AStr(0), other)], FALSE) :
            desc \in {"immutable", "list"}, flag \in {"", "none_ok"}, other \in {"reassign", "delete"}}
    \union {ObjJob([a1 |-> ValAttr("lockable", init, flag), a2 |-> ValAttr("lockable", AnInt(1), "")], class_attr) :
            init \in {AnInt(0), AStr(1), ANone}, flag \in {"set_ok", "reset_ok", "skip"}, class_attr \in BOOLEAN}
    \union {[kind |-> "label", text |-> x, maxwidth |-> 7, width |-> y, encl |-> z, app |-> w] :
            x \in LabelChars, y \in 3 .. 8, z \in {<<>>, <<8, 9>>}, w \in {<<>>, <<7>>}}
    \union {IdJob(AnId(1, 1, x, 0, <<>>), AnId(y, z, w, 1, <<>>)) : x, w \in {0, 2, 10, 11, 100}, y, z \in {1, 2}}
    \union {IdJob(AnId(1, 1, 1, 0, <<x, y>>), AnId(1, 1, z, 0, <<w, 2>>)) : x, y, w \in {0, 2, 10}, z \in {1, 10}}

Vals == INSTANCE Values WITH
    Jobs <- ValueJobs, Fine <- 3, MaxSteps <- 3,
    job <- v1, pc <- v2, val <- v3, kept <- v4, decimals <- v5, locked <- v6, steps <- v7

-------------------------------------------------------------------------------
(* Protocols of every kind on two or three networks, coins that share      *)
(* version bytes, and coins that addresses are only generated for.  Keys   *)
(* about the group order, and texts that are no addresses of ours.         *)
CoinProto(cls, net, types, wif, addrs, hrp) ==
    [cls |-> cls, net |-> net, types |-> types, wif |-> wif, addrs |-> addrs, hrp |-> hrp, cashpfx |-> <<>>, cash |-> TRUE]
VersP2(x, y) == <<<<x, "p2pkh">>, <<y, "p2sh">>>>
VersLtc(x, y, z) == <<<<x, "p2pkh">>, <<y, "p2sh">>, <<z, "p2sh">>>>
VersZec(x, y, z, w) == <<<<x, "p2pkh">>, <<y, "p2sh">>, <<z, "zcash_z">>, <<w, "viewkey">>>>
VersXmr(x, y, z) == <<<<x, "monero">>, <<y, "monero_sub">>, <<z, "monero_integrated">>>>
WifStd(x) == <<<<<<x>>, "std">>>>
CashProto(net, wif, addrs, pfx, cash) ==
    [CoinProto("bch", net, {"L", "C"}, wif, addrs, <<>>) EXCEPT !.cashpfx = pfx, !.cash = cash]
BtcTypes == {"L", "C", "S", "B"}
ZecTypes == {"L", "C", "Z"}
Main == "mainnet"
Test == "testnet"
Reg == "regtest"
CoinProtos ==
    (<<"btc", Main>> :> CoinProto("btc", Main, BtcTypes, WifStd(8), VersP2(<<0>>, <<1>>), <<2, 3>>))
    @@ (<<"btc", Test>> :> CoinProto("btc", Test, BtcTypes, WifStd(9), VersP2(<<2>>, <<3>>), <<20, 2>>))
    @@ (<<"btc", Reg>> :> CoinProto("btc", Test, BtcTypes, WifStd(9), VersP2(<<2>>, <<3>>), <<2, 3, 18, 20>>))
    @@ (<<"bch", Main>> :> CashProto(Main, WifStd(8), VersP2(<<0>>, <<1>>), <<2, 9>>, TRUE))
    @@ (<<"bch", Test>> :> CashProto(Test, WifStd(9), VersP2(<<2>>, <<3>>), <<2, 3>>, FALSE))
    @@ (<<"ltc", Main>> :> CoinProto("btc", Main, BtcTypes, WifStd(10), VersLtc(<<4>>, <<1>>, <<5>>), <<12, 20>>))
    @@ (<<"ltc", Test>> :> CoinProto("btc", Test, BtcTypes, WifStd(9), VersLtc(<<2>>, <<3>>, <<6>>), <<20, 12>>))
    @@ (<<"zec", Main>> :> CoinProto("zec", Main, ZecTypes, <<<<<<8>>, "std">>, <<<<11, 3>>, "zcash_z">>>>,
                                     VersZec(<<12, 8>>, <<12, 13>>, <<13, 10>>, <<14, 11, 3>>), <<>>))
    @@ (<<"zec", Test>> :> CoinProto("zec", Test, ZecTypes, <<<<<<9>>, "std">>, <<<<11, 4>>, "zcash_z">>>>,
                                     VersZec(<<13, 5>>, <<12, 10>>, <<13, 6>>, <<14, 12, 12>>), <<>>))
    @@ (<<"eth", Main>> :> CoinProto("eth", Main, {"E"}, <<>>, <<>>, <<>>))
    @@ (<<"xmr", Main>> :> CoinProto("xmr", Main, {"M"}, <<>>, VersXmr(<<2>>, <<10>>, <<3>>), <<>>))
    @@ (<<"xmr", Test>> :> CoinProto("xmr", Test, {"M"}, <<>>, VersXmr(<<8>>, <<4>>, <<9>>), <<>>))
    @@ (<<"rune", Main>> :> CoinProto("rune", Main, {"X"}, WifStd(8), <<>>, <<20, 8>>))
    @@ (<<"rune", Test>> :> CoinProto("rune", Test, {"X"}, WifStd(8), <<>>, <<19, 20, 8>>))
AltCoin(net, wif, pkh, sh, segwit, trust) ==
    <<[net |-> net, wif |-> <<wif>>, p2pkh |-> pkh, p2sh |-> sh, segwit |-> segwit, trust |-> trust]>>
AltCoins == [
    doge |-> [mainnet |-> AltCoin(Main, 14, <<7>>, <<15>>, FALSE, 2), testnet |-> AltCoin(Test, 15, <<6>>, <<3>>, FALSE, 2)],
    mona |-> [mainnet |-> AltCoin(Main, 11, <<5>>, <<1>>, TRUE, 1), testnet |-> <<>>],
    bcg |-> [mainnet |-> AltCoin(Main, 8, <<9>>, <<10>>, TRUE, -1), testnet |-> <<>>]]
AltIds == {<<"doge", Main>>, <<"doge", Test>>, <<"mona", Main>>}
AddrHash(x) ==
    LET h[n \in 0 .. Len(x)] == IF n = 0 THEN 5 ELSE (h[n - 1] * 31 + x[n] * 7 + 3) % 4096
    IN <<h[Len(x)] \div 256, (h[Len(x)] \div 16) % 16, h[Len(x)] % 16>>
AddrJob(id, type, raw, foreign, backend, lib) ==
    [id |-> id, type |-> type, raw |-> raw, text |-> foreign, backend |-> backend, lib |-> lib, again |-> ""]
Foreign(enc, pfx, body) == [enc |-> enc, pfx |-> pfx, body |-> body]
AddrTexts ==
    {Foreign("bech32", hrp, body) : hrp \in {<<2, 3>>, <<20, 8>>}, body \in
        {<<w, 1, 2, 3, x>> \o rest : w \in {0, 1}, x \in {0, 4}, rest \in {<<>>, <<0>>, <<4>>, <<0, 0>>, <<0, 4>>}}}
    \union {Foreign("cash", pfx, <<v, x, 2, 3, 4>> \o rest) : pfx \in {<<>>, <<2, 9>>}, v \in 0 .. 3, x \in {1, 5},
                rest \in {<<>>, <<4>>, <<5>>, <<4, 0>>, <<5, 1>>, <<4, 0, 0>>}}
    \union {Foreign("b58", <<>>, ver \o body) : ver \in {<<0>>, <<1>>, <<5>>, <<12, 8>>, <<14, 11, 3>>, <<8>>, <<11, 3>>},
                body \in {<<0, 0, 7>>, <<9, 9>>, <<12, 6, 1>>, <<12, 7>>, <<1, 2, 3, 4>>, <<0, 0, 1>>}}
    \union {Foreign("hex", <<>>, body) : body \in {<<5>>, <<12, 7>>, <<0, 0>>, <<1, 2, 3>>}}
    \union {Foreign("xmr", <<>>, <<ver, 1, 2, 3, 4, 5, 6>> \o pid) : ver \in {2, 3, 8}, pid \in {<<>>, <<7, 8>>}}
NoForeign == Foreign("none", <<>>, <<>>)
AddrJobs ==
    {AddrJob(id, type, raw, NoForeign, 0, TRUE) : id \in DOMAIN CoinProtos \union AltIds, type \in {"L", "C", "S", "B", "X", "E", "Z", "M"},
        raw \in {<<0, 0>>, <<0, 9>>, <<12, 7>>, <<12, 9>>, <<15, 15>>}}
    \union {AddrJob(<<"bcg", Main>>, "L", <<0, 9>>, NoForeign, 0, TRUE), AddrJob(<<"mona", Test>>, "L", <<0, 9>>, NoForeign, 0, TRUE),
             AddrJob(<<"doge", Reg>>, "L", <<0, 9>>, NoForeign, 0, TRUE)}
    \union {AddrJob(id, type, <<0, 9>>, NoForeign, n, lib) : id \in {<<"xmr", Main>>, <<"zec", Main>>}, type \in {"L", "Z", "M"},
             n \in 0 .. 4, lib \in BOOLEAN}
    \union {AddrJob(<<"btc", Main>>, "", <<>>, x, 0, TRUE) : x \in AddrTexts}

Addrs == INSTANCE Addresses WITH
    Core <- CoinProtos, Altcoins <- AltCoins, Jobs <- AddrJobs, Readers <- DOMAIN CoinProtos \union AltIds, Order <- 199, Reduce <- 37,
    Hash <- AddrHash,
    job <- v1, pc <- v2, key <- v3, addr <- v4, text <- v5, reader <- v6, wkey <- v7, got <- v8

-------------------------------------------------------------------------------
(* Files encrypted with and without the user's own random data, and        *)
(* damaged ones; keystores; messages in pieces; random data made by one or *)
(* two threads, with and without room for it; and files to be searched.    *)
CryptJob(pw, hp, body, own, harm) ==
    [kind |-> "encrypt", passwd |-> pw, preset |-> hp, data |-> body, entropy |-> own, damage |-> harm]
StoreEnc(pw, kdf) == [key |-> <<pw, kdf>>, iv |-> 1, text |-> "secret"]
StoreJob(kdf, cipher, geth, pw, macpw, algo, at) ==
    [kind |-> "keystore", kdf |-> kdf, cipher |-> cipher, geth |-> geth, passwd |-> pw, prf |-> "hmac-sha256", enc |-> StoreEnc(pw, kdf),
     mac |-> <<algo, <<macpw, kdf>>, "secret", <<pw, kdf>>>>, addr |-> at]
SomeBytes(n) == [x \in 1 .. n |-> <<1, 0, 80, 0, 81>>[(x % 5) + 1]]
CipherJobs ==
    ({CryptJob("p", 1, body, own, harm) : body \in {<<>>, <<1>>}, own \in BOOLEAN,
         harm \in {"none", "salt", "iv", "digest", "nonce", "data", "cut"}} \ {CryptJob("p", 1, <<>>, own, "cut") : own \in BOOLEAN})
    \union {StoreJob(kdf, cipher, geth, "p", macpw, algo, at) : kdf \in {"scrypt", "pbkdf2", "other"}, cipher \in {"aes-128-ctr", "other"},
        geth \in BOOLEAN, macpw \in {"p", "q"}, algo \in {"keccak", "blake2b"}, at \in {"secret", "other"}}
    \union {[kind |-> "hash", pieces |-> <<SomeBytes(x), SomeBytes(y), SomeBytes(z)>>] : x, y, z \in 0 .. 5}
    \union {[kind |-> "rand", nbytes |-> n, threads |-> w, room |-> x] : n \in {0, 1, 2, 5}, w \in {1, 2}, x \in {3, 5}}
    \union {[kind |-> "find", content |-> x, iv |-> y, keep_searching |-> z] :
        x \in UNION {[1 .. n -> {1, 2}] : n \in {0, 1, 4, 6, 8}}, y \in {<<1, 1>>, <<2, 1>>}, z \in BOOLEAN}

Crypt == INSTANCE Ciphers WITH
    Jobs <- CipherJobs, OsRandom <- {1, 2}, Passwords <- {"p", "q"}, Presets <- {1, 2}, MaxTries <- 2,
    job <- v1, pc <- v2, drawn <- v3, file <- v4, got <- v5, q1 <- v6, left1 <- v7, workers <- v8, q2 <- v9, left2 <- v10, writer <- v11,
    buffer <- v12, blocks <- v13

-------------------------------------------------------------------------------
HostedInit ==
    \/ subject = "lists" /\ Lists!Init
    \/ /\ subject = "mnemonics" /\ Mn!Init /\ v11 = 0 /\ v12 = 0 /\ Idle(v13, v14, v15)
    \/ /\ subject = "paths" /\ Hd!Init /\ v3 = 0
       /\ Idle(v4, v5, v6) /\ Idle(v7, v8, v9) /\ Idle(v10, v11, v12) /\ Idle(v13, v14, v15)
    \/ subject = "values" /\ Vals!Init /\ Idle(v8, v9, v10) /\ Idle(v11, v12, v13) /\ v14 = 0 /\ v15 = 0
    \/ subject = "addresses" /\ Addrs!Init /\ Idle(v9, v10, v11) /\ Idle(v12, v13, v14) /\ v15 = 0
    \/ subject = "ciphers" /\ Crypt!Init /\ v14 = 0 /\ v15 = 0

MCInit == Init /\
    \/ subject = "sub-seeds" /\ NoShares /\ NoVault /\ NotHosted
    \/ /\ subject = "shares" /\ \E p \in SUBSET Bits, f \in [Sessions -> Shares!Split] : Related(f) /\ Shares!InitOf(p, f)
       /\ NoVault /\ NotHosted
    \/ subject = "wallets" /\ NoShares /\ Vault!Init /\ NotHosted
    \/ NoShares /\ NoVault /\ HostedInit

HostedNext ==
    \/ subject = "lists" /\ Lists!Next
    \/ subject = "mnemonics" /\ Mn!Next /\ UNCHANGED <<v11, v12, v13, v14, v15>>
    \/ subject = "paths" /\ Hd!Next /\ UNCHANGED <<v3, v4, v5, v6, v7, v8, v9, v10, v11, v12, v13, v14, v15>>
    \/ subject = "values" /\ Vals!Next /\ UNCHANGED <<v8, v9, v10, v11, v12, v13, v14, v15>>
    \/ subject = "addresses" /\ Addrs!Next /\ UNCHANGED <<v9, v10, v11, v12, v13, v14, v15>>
    \/ subject = "ciphers" /\ Crypt!Next /\ UNCHANGED <<v14, v15>>

MCNext ==
    \/ subject = "sub-seeds" /\ Next /\ UNCHANGED <<subject, shared, filed, hosted>>
    \/ subject = "shares" /\ Shares!Next /\ UNCHANGED <<subject, vars, filed, hosted>>
    \/ subject = "wallets" /\ Vault!Next /\ UNCHANGED <<subject, vars, shared, hosted>>
    \/ HostedNext /\ UNCHANGED <<subject, vars, shared, filed>>

allVars == <<subject, vars, shared, filed, hosted>>

MCSpec == MCInit /\ [][MCNext]_allVars

(* Shares rejoin, and no two have the same Seed ID (SeedShares).           *)
SharesRejoin == subject = "shares" => Shares!SharesRejoin /\ Shares!ShareIdsUnique

(* Lists are read back as they were, their secrets are those of their      *)
(* indexes, and importing them gives each address its ID (AddrLists).      *)
ListsRight == subject = "lists" => Lists!ListsRight

(* A wallet opens to the seed it was written for, and none is lost by a    *)
(* command that is killed (Wallets).                                       *)
WalletsOpen == subject = "wallets" => Vault!WalletsOpen

(* Seeds and keys are the same in whichever form they are read: a phrase   *)
(* is read as the seed it was written for, and its words as typed          *)
(* (Mnemonics); a node has the key of its path however it was come by, and *)
(* can be read back from its extended keys (HdPath).  Amounts, attributes, *)
(* labels and IDs are what they were made of (Values).  A WIF or address   *)
(* stands for one key or hash, of one coin and network (Addresses).  What  *)
(* is encrypted, hashed or written by threads is all there (Ciphers).      *)
FormsRight ==
    /\ subject = "mnemonics" => Mn!MnemonicsRight
    /\ subject = "paths" => Hd!PathsRight
    /\ subject = "values" => Vals!ValuesRight
    /\ subject = "addresses" => Addrs!AddressesRight
    /\ subject = "ciphers" => Crypt!CiphersRight

Symmetry == Permutations(Sessions) \union Permutations(Seeds)
=============================================================================
