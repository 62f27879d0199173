------------------------------ MODULE Addresses ------------------------------
(* Keys, their WIF texts and the addresses of every coin: a text made for  *)
(* one coin and network, and what the others read in it (key.py,           *)
(* keygen.py, addrgen.py, protocol.py, the params of proto/, bech32.py,    *)
(* cashaddr.py, altcoin/params.py).  A byte is a digit of base 16 and a    *)
(* character of base-32 texts one of base 8, so that hashes of three bytes *)
(* fit the characters exactly, as those of 20 bytes do, and others do not. *)
(* A checksum is what it was computed from.                                *)
EXTENDS Integers, Sequences, FiniteSets, SequencesExt

(* Core: the protocols, by network ID; Altcoins: the entries of a coin for *)
(* its networks; Jobs: the keys, and the texts of other programs, to begin *)
(* with; Readers: the network IDs of those who read; Order, Reduce: of the *)
(* curves; Hash(s): three bytes.                                           *)
CONSTANTS Core, Altcoins, Jobs, Readers, Order, Reduce, Hash(_)

VARIABLES job,      \* what is asked for
          pc,       \* what was done last, or "refused"
          key,      \* the key made
          addr,     \* the address made of it
          text,     \* what is written down
          reader,   \* who reads it
          wkey,     \* the key read
          got       \* the address read, or made of the key read

vars == <<job, pc, key, addr, text, reader, wkey, got>>

-------------------------------------------------------------------------------
(* Numbers, as digits, the first one the highest.                          *)
Byte == 16
KeyLen == 2
AddrLen == 3
ScriptLen == 4
B58 == 6
ByteBits == 4
CharBits == 3

Value(s, base) == LET v[i \in 0 .. Len(s)] == IF i = 0 THEN 0 ELSE (v[i - 1] * base) + s[i] IN v[Len(s)]
Digits(n, base) == LET d[r \in Nat] == IF r = 0 THEN <<>> ELSE Append(d[r \div base], r % base) IN d[n]
Zeros(n) == [i \in 1 .. n |-> 0]
Padded(s, n) == Zeros(n - Len(s)) \o s
LeadingZeros(s) == Cardinality({i \in 1 .. Len(s) : \A p \in 1 .. i : s[p] = 0})

(* Base 58 of the bytes with their leading zeros.                          *)
b58_encode(s) == Zeros(LeadingZeros(s)) \o Digits(Value(s, Byte), B58)
b58_decode(s) == Zeros(LeadingZeros(s)) \o Digits(Value(s, B58), Byte)

(* From groups of so many bits to others; what is left over is padded, or  *)
(* has to be a padding.                                                    *)
NoBytes == <<-1>>
BitsOf(s, bits) == [i \in 1 .. Len(s) * bits |-> (s[((i - 1) \div bits) + 1] \div (2 ^ (bits - 1 - ((i - 1) % bits)))) % 2]
Grouped(bs, bits, n) ==
    [i \in 1 .. n |-> Value([p \in 1 .. bits |-> IF ((i - 1) * bits) + p <= Len(bs) THEN bs[((i - 1) * bits) + p] ELSE 0], 2)]
IsPaddingAny(bs, bits) == \A i \in 1 .. Len(bs) : bs[i] = 0      \* a mutant of the next
IsPadding(bs, bits) == Len(bs) < bits /\ \A i \in 1 .. Len(bs) : bs[i] = 0
convertbits(s, from, to, pad) ==
    LET bs == BitsOf(s, from)  full == Len(bs) \div to
    IN IF pad THEN Grouped(bs, to, full + IF Len(bs) % to > 0 THEN 1 ELSE 0)
       ELSE IF IsPadding(SubSeq(bs, full * to + 1, Len(bs)), from) THEN Grouped(bs, to, full) ELSE NoBytes

-------------------------------------------------------------------------------
(* Texts: how one is encoded, the prefix before its characters, what its   *)
(* checksum was made of, and whether it has upper-case letters in it.      *)
Written(enc, pfx, chars, sum) == [enc |-> enc, pfx |-> pfx, chars |-> chars, sum |-> sum, upper |-> FALSE]
NoText == Written("none", <<>>, <<>>, <<>>)
HexText(s) == Written("hex", <<>>, s, <<>>)
B58Text(s) == Written("b58", <<>>, b58_encode(s), s)
BechText(hrp, data) == Written("bech32", hrp, data, hrp \o <<0>> \o data)

CashTypes == [p2pkh |-> 0, p2sh |-> 1]
CashVer(fmt, n) == CashTypes[fmt] * 2 + (n - AddrLen)
CashText(pfx, fmt, hash) ==
    LET data == convertbits(<<CashVer(fmt, Len(hash))>> \o hash, ByteBits, CharBits, TRUE)
    IN Written("cash", pfx, data, pfx \o <<0>> \o data)

(* Monero: the bytes by blocks, each of a fixed number of characters.      *)
Block == 2
BlockChars == 4
TailChars == 2
XmrChars(s) ==
    LET Enc(b, n) == Padded(Digits(Value(b, Byte), B58), n)  full == Len(s) \div Block
    IN FlattenSeq([i \in 1 .. full |-> Enc(SubSeq(s, i * Block - 1, i * Block), BlockChars)])
       \o Enc(SubSeq(s, full * Block + 1, Len(s)), TailChars)
XmrText(s) == Written("xmr", <<>>, XmrChars(s), s)
XmrBytes(s) ==
    LET Dec(c, n) == Padded(Digits(Value(c, B58), Byte), n)  full == Len(s) \div BlockChars  rest == Len(s) % BlockChars
    IN FlattenSeq([i \in 1 .. full |-> Dec(SubSeq(s, i * BlockChars - 3, i * BlockChars), Block)])
       \o Dec(IF rest = 0 THEN s ELSE SubSeq(s, Len(s) - rest + 1, Len(s)), 1)

(* What another program writes, with a checksum that is right.             *)
Typed(t) ==
    CASE t.enc = "hex" -> HexText(t.body)
      [] t.enc = "b58" -> B58Text(t.body)
      [] t.enc = "xmr" -> XmrText(t.body)
      [] t.enc = "none" -> NoText
      [] OTHER -> Written(t.enc, t.pfx, t.body, t.pfx \o <<0>> \o t.body)

-------------------------------------------------------------------------------
(* Protocols.  The coins that addresses are only generated for are built   *)
(* from their entries, which have no regression-test network.              *)
MMTypes == [
    L |-> [pubkey_type |-> "std", compressed |-> FALSE], C |-> [pubkey_type |-> "std", compressed |-> TRUE],
    S |-> [pubkey_type |-> "std", compressed |-> TRUE], B |-> [pubkey_type |-> "std", compressed |-> TRUE],
    X |-> [pubkey_type |-> "std", compressed |-> TRUE], E |-> [pubkey_type |-> "std", compressed |-> FALSE],
    Z |-> [pubkey_type |-> "zcash_z", compressed |-> FALSE], M |-> [pubkey_type |-> "monero", compressed |-> FALSE]]

make_proto(e) == [
    cls |-> "btc", net |-> e.net, types |-> {"L", "C"} \union (IF e.segwit THEN {"S"} ELSE {}), wif |-> <<<<e.wif, "std">>>>,
    addrs |-> <<<<e.p2pkh, "p2pkh">>>> \o (IF e.p2sh = <<>> THEN <<>> ELSE <<<<e.p2sh, "p2sh">>>>), hrp |-> <<0>>,
    cashpfx |-> <<>>, cash |-> FALSE]

Unknown == [cls |-> "none"]
AltEntry(id) ==
    LET coin == id[1]  net == id[2]
    IN IF coin \notin DOMAIN Altcoins \/ net \notin DOMAIN Altcoins[coin] THEN <<>>
       ELSE IF \A e \in {Altcoins[coin][net]} : e = <<>> \/ e[1].trust = -1 THEN <<>> ELSE Altcoins[coin][net]
init_proto(id) ==
    IF id \in DOMAIN Core THEN Core[id] ELSE LET e == AltEntry(id) IN IF e = <<>> THEN Unknown ELSE make_proto(e[1])
P == init_proto(job.id)

(* Version bytes and what they stand for: of two for one format, the last  *)
(* is written and both are read.                                           *)
VerOf(tab, name) == tab[CHOOSE i \in 1 .. Len(tab) : tab[i][2] = name /\ \A p \in i + 1 .. Len(tab) : tab[p][2] # name][1]
NameOf(tab, ver) == LET is == {i \in 1 .. Len(tab) : tab[i][1] = ver} IN IF is = {} THEN "" ELSE tab[CHOOSE i \in is : TRUE][2]
Begins(s, ver) == SubSeq(s, 1, Len(ver)) = ver
SameLength(tab) == \A i, p \in 1 .. Len(tab) : Len(tab[i][1]) = Len(tab[p][1])

-------------------------------------------------------------------------------
(* Keys.                                                                   *)
NoKey == [sec |-> <<>>, type |-> "", compressed |-> FALSE]
Key(sec, type, c) == [sec |-> sec, type |-> type, compressed |-> c]
Dummy(p) == p.cls \in {"eth", "xmr"}
DummyType(p) == IF p.cls = "xmr" THEN "monero" ELSE "std"

InGroupAny(n) == Padded(Digits(n % Order, Byte), KeyLen)      \* a mutant of the next
InGroup(n) ==
    CASE n = 0 -> <<>>
      [] n = Order -> <<>>
      [] OTHER -> Padded(Digits(n % Order, Byte), KeyLen)

(* Of a z-address the first bits are zero; a Monero key is reduced.        *)
ZecKey(sec) == [sec EXCEPT ![1] = @ % 4]
XmrKey(sec) == Reverse(Padded(Digits(Value(Reverse(sec), Byte) % Reduce, Byte), KeyLen))

preprocess_key(p, sec, type) ==
    CASE type = "zcash_z" -> ZecKey(sec)
      [] p.cls = "xmr" -> XmrKey(sec)
      [] OTHER -> IF Value(sec, Byte) \in 1 .. Order - 1 THEN sec ELSE InGroup(Value(sec, Byte))

PrivKey(p, raw, type, c) ==
    LET sec == preprocess_key(p, raw, type)
    IN IF sec = <<>> \/ (Dummy(p) /\ c) THEN NoKey ELSE Key(sec, type, c)

encode_wif(p, k) ==
    IF Dummy(p) THEN HexText(k.sec)
    ELSE B58Text(VerOf(p.wif, k.type) \o k.sec \o IF k.compressed THEN <<1>> ELSE <<>>)

WifVers(p, s) == {i \in 1 .. Len(p.wif) : Begins(s, p.wif[i][1])}
WifVer(p, s) ==
    IF SameLength(p.wif) THEN SubSeq(s, 1, Len(p.wif[1][1]))
    ELSE IF WifVers(p, s) = {} THEN <<>> ELSE p.wif[CHOOSE i \in WifVers(p, s) : TRUE][1]

decode_wif(p, t) ==
    IF Dummy(p) THEN IF t.enc = "hex" /\ t.chars # <<>> THEN Key(t.chars, DummyType(p), FALSE) ELSE NoKey
    ELSE IF t.enc # "b58" \/ t.upper \/ t.sum # b58_decode(t.chars) THEN NoKey
    ELSE LET ver == WifVer(p, t.sum)  k == SubSeq(t.sum, Len(ver) + 1, Len(t.sum))  type == NameOf(p.wif, ver)
         IN IF ver = <<>> \/ type = "" \/ Len(k) \notin {KeyLen, KeyLen + 1} \/ (Len(k) > KeyLen /\ k[Len(k)] # 1) THEN NoKey
            ELSE Key(SubSeq(k, 1, KeyLen), type, Len(k) > KeyLen)

(* The key of a WIF has to be one that is left as it is.                   *)
WifKey(p, t) ==
    LET k == decode_wif(p, t) IN IF k # NoKey /\ preprocess_key(p, k.sec, k.type) = k.sec THEN k ELSE NoKey

-------------------------------------------------------------------------------
(* Addresses: the format, the bytes, the version, and the texts that are   *)
(* views of one address.                                                   *)
Refused == [fmt |-> "", bytes |-> <<>>, ver |-> <<>>, views |-> <<>>]
Address(fmt, bytes, ver, views) == [fmt |-> fmt, bytes |-> bytes, ver |-> ver, views |-> views]

get_addr_len(fmt) == IF fmt \in {"zcash_z", "viewkey"} THEN ScriptLen ELSE AddrLen

(* Only those of Zcash, whose versions are of several lengths, have their  *)
(* own length checked.                                                     *)
ZecBytes(p, s, t) ==
    LET is == {i \in 1 .. Len(p.addrs) : Begins(s, p.addrs[i][1]) /\ Len(s) = Len(p.addrs[i][1]) + get_addr_len(p.addrs[i][2])}
    IN IF is = {} THEN Refused
       ELSE LET e == p.addrs[CHOOSE i \in is : TRUE] IN Address(e[2], SubSeq(s, Len(e[1]) + 1, Len(s)), e[1], <<t>>)

decode_addr_bytes(p, s, t) ==
    LET n == Len(p.addrs[1][1])  ver == SubSeq(s, 1, n)  fmt == NameOf(p.addrs, ver)
    IN IF fmt = "" THEN Refused ELSE Address(fmt, SubSeq(s, n + 1, Len(s)), ver, <<t>>)

FromB58(p, t) ==
    IF t.enc # "b58" \/ t.upper \/ t.sum # b58_decode(t.chars) THEN Refused
    ELSE IF p.cls = "zec" THEN ZecBytes(p, t.sum, t) ELSE decode_addr_bytes(p, t.sum, t)

(* bech32: only witness version 0, for scripts too.                        *)
Checked(t) == t.sum = t.pfx \o <<0>> \o t.chars /\ t.chars # <<>>
FromBechAny(p, t) ==      \* a mutant of the next
    LET dec == convertbits(Tail(t.chars), CharBits, ByteBits, FALSE)
    IN IF t.enc = "bech32" /\ Checked(t) /\ t.chars[1] = 0 /\ dec # NoBytes /\ Len(dec) \in {AddrLen, ScriptLen}
       THEN Address("bech32", dec, <<>>, <<t>>) ELSE Refused
FromBech(p, t) ==
    LET dec == convertbits(Tail(t.chars), CharBits, ByteBits, FALSE)
    IN IF t.enc = "bech32" /\ Checked(t) /\ t.pfx = p.hrp /\ t.chars[1] = 0 /\ dec # NoBytes /\ Len(dec) \in {AddrLen, ScriptLen}
       THEN Address("bech32", dec, <<>>, <<t>>) ELSE Refused

(* A cash address may come without its prefix, and in upper case.  Its     *)
(* version byte has the type and the length.                               *)
cashaddr_decode(t) ==
    LET bs == BitsOf(t.chars, CharBits)  ver == Value(SubSeq(bs, 1, ByteBits), 2)  end == ByteBits * (1 + AddrLen + (ver % 2))
        fmts == {f \in DOMAIN CashTypes : CashTypes[f] = ver \div 2}
    IN IF ~Checked(t) \/ fmts = {} \/ Len(bs) < end \/ ~IsPadding(SubSeq(bs, end + 1, Len(bs)), CharBits) THEN Refused
       ELSE Address(CHOOSE f \in fmts : TRUE, Grouped(SubSeq(bs, ByteBits + 1, end), ByteBits, AddrLen + (ver % 2)), <<>>, <<t>>)

FromCash(p, t) ==
    LET full == [t EXCEPT !.upper = FALSE, !.pfx = IF @ = <<>> THEN p.cashpfx ELSE @]
    IN IF t.enc # "cash" \/ ~IsPrefix(p.cashpfx, full.pfx) THEN Refused
       ELSE LET dec == cashaddr_decode(full) IN
            IF dec = Refused THEN Refused
            ELSE LET ver == VerOf(p.addrs, dec.fmt)
                 IN Address(dec.fmt, dec.bytes, ver,
                            <<full>> \o IF Len(dec.bytes) = AddrLen THEN <<B58Text(ver \o dec.bytes)>> ELSE <<>>)

BothViews(p, dec) ==
    IF dec = Refused THEN dec ELSE [dec EXCEPT !.views = <<CashText(p.cashpfx, dec.fmt, dec.bytes)>> \o @]

(* The others: hex digits in lower case; bech32 with no witness version,   *)
(* and of any length; blocks.                                              *)
FromHex(p, t) ==
    IF t.enc = "hex" /\ ~t.upper /\ Len(t.chars) = AddrLen THEN Address("p2pkh", t.chars, <<>>, <<t>>) ELSE Refused
FromThor(p, t) ==
    IF t.enc = "bech32" /\ Checked(t) /\ t.pfx = p.hrp
    THEN Address("bech32", convertbits(t.chars, CharBits, ByteBits, TRUE), <<>>, <<t>>) ELSE Refused
FromBlocks(p, t) == IF t.enc = "xmr" /\ t.sum = XmrBytes(t.chars) THEN decode_addr_bytes(p, t.sum, t) ELSE Refused

decode_addr(p, t) ==
    CASE p.cls = "btc" -> IF "B" \in p.types /\ ~t.upper /\ IsPrefix(p.hrp, t.pfx) THEN FromBech(p, t) ELSE FromB58(p, t)
      [] p.cls = "zec" -> FromB58(p, t)
      [] p.cls = "bch" -> IF t.enc = "b58" THEN BothViews(p, FromB58(p, t)) ELSE FromCash(p, t)
      [] p.cls = "eth" -> FromHex(p, t)
      [] p.cls = "rune" -> FromThor(p, t)
      [] p.cls = "xmr" -> FromBlocks(p, t)

-------------------------------------------------------------------------------
(* Addresses of keys.                                                      *)
to_pubkey(k) == <<IF k.compressed THEN 2 ELSE 4>> \o k.sec
pubhash2redeem_script(hash) == <<0>> \o hash
pubhash2addr(p, hash, fmt) ==
    CASE p.cls = "eth" -> HexText(hash)
      [] p.cls = "bch" /\ p.cash -> CashText(p.cashpfx, fmt, hash)
      [] OTHER -> B58Text(VerOf(p.addrs, fmt) \o hash)

zhash256(k, n) == SubSeq(Hash(<<n>> \o k.sec), 1, 2)
xmr_viewkey(k) == XmrKey(SubSeq(Hash(k.sec), 1, KeyLen))
scalarmultbase(s) == Hash(<<7>> \o s)

encode_addr_bech32x(p, hash) == BechText(p.hrp, convertbits(hash, ByteBits, CharBits, TRUE))
pubhash2segwitaddr(p, hash) == pubhash2addr(p, Hash(pubhash2redeem_script(hash)), "p2sh")
pubhash2bech32addr(p, hash) == BechText(p.hrp, <<0>> \o convertbits(hash, ByteBits, CharBits, TRUE))

AddrText(p, type, k) ==
    LET hash == Hash(to_pubkey(k)) IN
    CASE type \in {"L", "C", "E"} -> pubhash2addr(p, hash, "p2pkh")
      [] type = "S" -> pubhash2segwitaddr(p, hash)
      [] type = "B" -> pubhash2bech32addr(p, hash)
      [] type = "X" -> encode_addr_bech32x(p, hash)
      [] type = "Z" -> B58Text(VerOf(p.addrs, "zcash_z") \o zhash256(k, 0) \o zhash256(k, 1))
      [] type = "M" -> XmrText(VerOf(p.addrs, "monero") \o scalarmultbase(k.sec) \o scalarmultbase(xmr_viewkey(k)))

check_data(type, k) == k.type = MMTypes[type].pubkey_type /\ k.compressed = MMTypes[type].compressed
CoinAddr(p, type, k) == IF type \in p.types /\ check_data(type, k) THEN decode_addr(p, AddrText(p, type, k)) ELSE Refused

ViewKeyText(p, k) ==
    LET b == zhash256(k, 1)
    IN B58Text(VerOf(p.addrs, "viewkey") \o zhash256(k, 0) \o [b EXCEPT ![1] = (@ \div 2) * 2, ![2] = 2 + (@ % 2)])

-------------------------------------------------------------------------------
(* The backends of a type of public key, of which the first is taken if    *)
(* none is asked for; those not safe from timing are for tests.  A library *)
(* that is not there is replaced by one of these.                          *)
Backends == [std |-> <<"libsecp256k1", "python-ecdsa">>, monero |-> <<"nacl", "ed25519ll-djbec", "ed25519">>, zcash_z |-> <<"nacl">>]
Safe == {"libsecp256k1", "nacl"}
Backend(n, type, lib) ==
    LET b == IF n = 0 THEN Backends[type][1] ELSE IF n \in 1 .. Len(Backends[type]) THEN Backends[type][n] ELSE ""
    IN IF b = "libsecp256k1" /\ ~lib THEN "python-ecdsa" ELSE b

Refuse == pc' = "refused" /\ UNCHANGED <<key, addr, text, reader, wkey, got>>

(* The protocol and the key generator.                                     *)
KeyGenerator ==
    /\ pc = "start" /\ UNCHANGED job
    /\ IF P = Unknown THEN Refuse
       ELSE IF job.type = "" THEN pc' = "typed" /\ text' = Typed(job.text) /\ UNCHANGED <<key, addr, reader, wkey, got>>
       ELSE IF job.type \notin P.types \/ Backend(job.backend, MMTypes[job.type].pubkey_type, job.lib) \notin Safe THEN Refuse
       ELSE pc' = "ready" /\ UNCHANGED <<key, addr, text, reader, wkey, got>>

new_key ==
    /\ pc = "ready" /\ UNCHANGED job
    /\ \E k \in {PrivKey(P, job.raw, MMTypes[job.type].pubkey_type, MMTypes[job.type].compressed)} :
         IF k = NoKey THEN Refuse
         ELSE pc' = "key" /\ key' = k /\ UNCHANGED <<addr, text, reader, wkey, got>>

to_addr ==
    /\ pc = "key" /\ UNCHANGED job
    /\ \E a \in {CoinAddr(P, job.type, key)} :
         IF a = Refused THEN Refuse
         ELSE pc' = "addr" /\ addr' = a /\ text' = a.views[1] /\ UNCHANGED <<key, reader, wkey, got>>

to_wif == pc = "addr" /\ pc' = "wif" /\ text' = encode_wif(P, key) /\ UNCHANGED <<job, key, addr, reader, wkey, got>>

to_viewkey ==
    /\ pc = "addr" /\ job.type = "Z" /\ UNCHANGED <<job, key, reader, wkey, got>>
    /\ text' = ViewKeyText(P, key) /\ pc' = "viewkey" /\ addr' = decode_addr(P, text')

(* Another view, another case, or no prefix.                               *)
retype ==
    /\ pc = "addr" /\ text = addr.views[1] /\ UNCHANGED <<job, pc, key, addr, reader, wkey, got>>
    /\ \/ \E i \in 2 .. Len(addr.views) : text' = addr.views[i]
       \/ text.enc = "cash" /\ text' = [text EXCEPT !.pfx = <<>>]
       \/ text' = [text EXCEPT !.upper = TRUE]

read_addr ==
    /\ pc \in {"addr", "viewkey", "typed"} /\ pc' = "read_addr" /\ UNCHANGED <<job, key, addr, text, wkey>>
    /\ \E id \in Readers : reader' = id /\ got' = decode_addr(init_proto(id), text)

read_wif ==
    /\ pc \in {"wif", "typed"} /\ pc' = "read_wif" /\ UNCHANGED <<job, key, addr, text, got>>
    /\ \E id \in Readers : reader' = id /\ wkey' = WifKey(init_proto(id), text)

(* The address of the key read, of some type.                              *)
wif2addr ==
    /\ pc = "read_wif" /\ wkey # NoKey /\ pc' = "again" /\ UNCHANGED <<key, addr, text, reader, wkey>>
    /\ \E type \in init_proto(reader).types :
         job' = [job EXCEPT !.again = type] /\ got' = CoinAddr(init_proto(reader), type, wkey)

Init ==
    /\ job \in Jobs /\ pc = "start" /\ key = NoKey /\ addr = Refused /\ text = NoText /\ reader = <<"", "">>
    /\ wkey = NoKey /\ got = Refused

Next == KeyGenerator \/ new_key \/ to_addr \/ to_wif \/ to_viewkey \/ retype \/ read_addr \/ read_wif \/ wif2addr

-------------------------------------------------------------------------------
(* The keys of curves that have an order are usable: not zero and below    *)
(* the order, whatever they were made of or read from.                     *)
Usable(k) == k.type = "std" => Value(k.sec, Byte) \in 1 .. Order - 1
KeysUsable == (key # NoKey => Usable(key)) /\ (wkey # NoKey => Usable(wkey))

(* A WIF read where it was written gives the key, and elsewhere the same   *)
(* key or none; and its address is the one it had.                         *)
Q == init_proto(reader)
WifsRight ==
    pc \in {"read_wif", "again"} /\ key # NoKey =>
        /\ reader = job.id => wkey = key
        /\ wkey # NoKey /\ text.enc = "b58" => wkey = key
        /\ pc = "again" /\ reader = job.id /\ job.again = job.type => got = addr
        /\ pc = "again" /\ got # Refused /\ text.enc = "b58" => MMTypes[job.again] = MMTypes[job.type]

(* An address read where it was made is that address, whatever view of it, *)
(* and elsewhere one of the same kind and hash or none; one of the main    *)
(* network is none on the others, and the reverse.                         *)
Chars(t) == [t EXCEPT !.upper = FALSE]
AddrsRight ==
    pc = "read_addr" /\ addr # Refused =>
        /\ reader = job.id /\ ~text.upper => got.fmt = addr.fmt /\ got.bytes = addr.bytes /\ ToSet(got.views) = ToSet(addr.views)
        /\ got # Refused /\ job.id \in DOMAIN Core /\ reader \in DOMAIN Core =>
             /\ got.fmt = addr.fmt /\ got.bytes = addr.bytes
             /\ text.enc # "hex" => Q.net = P.net
             /\ text.enc = "bech32" => Q.hrp = P.hrp

(* What is read has one text in every encoding: written again, an address  *)
(* of the usual length is what was typed.                                  *)
Again(p, a) ==
    CASE p.cls = "bch" /\ a.views[1].enc = "cash" -> CashText(p.cashpfx, a.fmt, a.bytes)
      [] p.cls = "rune" -> encode_addr_bech32x(p, a.bytes)
      [] a.fmt = "bech32" -> pubhash2bech32addr(p, a.bytes)
      [] p.cls = "eth" -> HexText(a.bytes)
      [] OTHER -> B58Text(a.ver \o a.bytes)
Usual(p) == IF p.cls = "rune" THEN {AddrLen} ELSE {AddrLen, ScriptLen}
OneText ==
    pc = "read_addr" /\ got # Refused /\ Q.cls # "xmr" /\ Len(got.bytes) \in Usual(Q) =>
        Chars(got.views[1]) = Again(Q, got)

AddressesRight == KeysUsable /\ WifsRight /\ AddrsRight /\ OneText
===============================================================================
