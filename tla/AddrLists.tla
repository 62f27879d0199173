------------------------------- MODULE AddrLists -------------------------------
(* Address, key and password lists: generated from a seed for a list of    *)
(* indexes, written to a file, read back by the same or another command,   *)
(* perhaps after someone edited the file, and imported into the tracking   *)
(* wallet of a Bitcoin daemon.  The n-th secret of a seed for a scramble   *)
(* key is <<sid, scramble, n>>.                                            *)
EXTENDS Integers, FiniteSets, SequencesExt

CONSTANTS
    Protos,     \* coin, base coin, network, address types and view of each protocol
    Types,      \* MMGenAddrType.mmtypes
    PwInfo,     \* PasswordList.pw_info
    Jobs,       \* lists to generate
    Readers,    \* <<protocol, class of list, check of keys>> to read them with
    MaxFails    \* bound on import calls that fail

VARIABLES job, pc, idxs,
    hash, rounds, list,     \* derive_coin_privkey_bytes(); the entries
    file, name,             \* lines of the file, its name
    reader, lines, want, got,   \* AddrFile.parse_file(): lines left, tags expected, entries
    wallet, todo, fails     \* the daemon's labels by address; addresses left to import

listing == <<job, idxs, hash, rounds, list>>
reading == <<reader, lines, want, got>>
importing == <<wallet, todo, fails>>
vars == <<listing, pc, file, name, reading, importing>>

None == "none"

P == Protos[job.proto]
T == Types[job.type]

-------------------------------------------------------------------------------
(* An index list is written as numbers and ranges: AddrIdxList reads it,   *)
(* AddrListIDStr writes it in the names of files.                          *)
GoodPiece(p) == Len(p) \in {1, 2} /\ p[1] >= 1 /\ p[1] <= p[Len(p)]

IdxsOf(pieces) == SetToSortSeq(UNION {p[1] .. p[Len(p)] : p \in Range(pieces)}, <)

Upto(ret, n) == Append(Front(ret), <<Last(ret)[1], n>>)

PiecesOf(is) ==
    LET Put(st, n) ==
            IF n = st.prev + 1
            THEN [ret |-> IF n = Last(is) THEN Upto(st.ret, n) ELSE st.ret, prev |-> n]
            ELSE LET ret == IF st.prev = Last(Last(st.ret)) THEN st.ret ELSE Upto(st.ret, st.prev)
                 IN [ret |-> Append(ret, <<n>>), prev |-> n]
    IN FoldLeft(Put, [ret |-> <<<<is[1]>>>>, prev |-> is[1]], Tail(is)).ret

-------------------------------------------------------------------------------
(* Passwords: the length asked for must be one of the format's, and give   *)
(* no more bytes than the seed has.                                        *)
DefaultLen == 0
HalfLen == 1

Asked == CASE job.pwlen = DefaultLen -> PwInfo[job.fmt].dfl
           [] job.pwlen = HalfLen -> PwInfo[job.fmt].dfl \div 2
           [] OTHER -> job.pwlen

LengthOk(fmt, n) ==
    LET d == PwInfo[fmt]
    IN n \in d.min .. d.max /\ (d.valid # {} => n \in d.valid)

(* Bytes a password of n characters holds: bit_length(base ^ n) \div 8.    *)
PwBytes(fmt, n) ==
    CASE fmt = "hex" -> n \div 2
      [] fmt = "bip39" -> (n \div 3) * 4
      [] fmt = "xmrseed" -> 32
      [] fmt = "b32" -> (5 * n + 1) \div 8
      [] fmt = "b58" -> ((n * 5858) \div 1000 + 1) \div 8

PasswordOk ==
    /\ LengthOk(job.fmt, Asked)
    /\ job.fmt = "xmrseed" => job.seedlen = 32
    /\ PwBytes(job.fmt, Asked) <= job.seedlen

PwScramble == IF job.hex2bip39 THEN <<"hex", PwBytes(job.fmt, Asked) * 2, job.pwid>>
                               ELSE <<job.fmt, Asked, job.pwid>>

(* The scramble key keeps the keys of coins, types and networks apart, but *)
(* for those of Bitcoin and its forks.                                     *)
Words(b, w) == IF b THEN <<w>> ELSE <<>>

AddrScramble(p, type) ==
    IF p.base = "BTC" /\ type = "L" /\ p.net = "mainnet" THEN <<>>
    ELSE Words(p.base # "BTC", p.coin) \o Words(p.base # "ETH", Types[type].name) \o Words(p.net # "mainnet", p.net)

Scramble == IF job.class = "PasswordList" THEN PwScramble ELSE AddrScramble(P, job.type)

Generate ==
    /\ pc = "start"
    /\ IF (\A n \in DOMAIN job.spec : GoodPiece(job.spec[n]))
          /\ (IF job.class = "PasswordList" THEN PasswordOk
              ELSE job.class = "ViewKeyAddrList" => "viewkey" \in T.extra)
       THEN idxs' = IdxsOf(job.spec) /\ hash' = <<job.sid, Scramble>> /\ pc' = "derive"
       ELSE UNCHANGED <<idxs, hash>> /\ pc' = "died"
    /\ UNCHANGED <<job, rounds, list, file, name, reading, importing>>

(* The type, network and spelling of an address are its own; BTC and BCH   *)
(* have the same, but for the spelling.                                    *)
AddrOf(key, type, p) ==
    [key |-> key, type |-> type, base |-> p.base, net |-> p.net, view |-> p.view]

Entry(n, key) ==
    [idx |-> n, key |-> key,
     main |-> IF job.class = "PasswordList" THEN <<job.fmt, Asked, key>> ELSE AddrOf(key, job.type, P),
     more |-> IF job.class \in {"KeyAddrList", "ViewKeyAddrList"}
              THEN [f \in T.extra |-> IF f = "wallet_passwd" /\ job.class = "ViewKeyAddrList" THEN <<"viewkey", key>>
                                      ELSE <<f, key>>]
              ELSE <<>>]

(* One sha512 round; the secret of an index is that of its round.          *)
Round ==
    /\ pc = "derive"
    /\ rounds' = rounds + 1
    /\ hash' = Append(SubSeq(hash, 1, 2), rounds + 1)
    /\ IF rounds + 1 = idxs[Len(list) + 1]
       THEN list' = Append(list, Entry(rounds + 1, hash'))
       ELSE list' = list
    /\ pc' = IF Len(list') = Len(idxs) THEN "listed" ELSE pc
    /\ UNCHANGED <<job, idxs, file, name, reading, importing>>

-------------------------------------------------------------------------------
(* The first line names the seed, coin, type and network, each left out    *)
(* where it is the usual one.                                              *)
CoinShown == ~ (P.coin = "BTC" \/ (P.coin = "BCH" /\ P.view = "legacy"))

(* Mutant: the usual type of the coin is always left out.                  *)
LabelTypeless == Words(CoinShown, P.coin) \o Words(P.net # "mainnet", P.net)

Label ==
    Words(CoinShown, P.coin)
    \o Words(~ (job.type = "E" \/ (job.type = "L" /\ P.net = "mainnet")), T.name)
    \o Words(P.net # "mainnet", P.net)

Line(tag, n, val) == [tag |-> tag, idx |-> n, val |-> val]

HasKeys(class) == class \in {"KeyAddrList", "ViewKeyAddrList"}

LinesOf(e) ==
    CASE job.class = "KeyList" -> <<Line("key", e.idx, e.key)>>
      [] job.class \in {"PasswordList", "AddrList"} -> <<Line("entry", e.idx, e.main)>>
      [] OTHER ->
            <<Line("entry", e.idx, e.main)>>
            \o (IF job.b16 THEN <<Line("orig_hex", 0, e.key)>> ELSE <<>>)
            \o (IF job.class = "KeyAddrList" THEN <<Line(T.wif, 0, e.key)>> ELSE <<>>)
            \o (IF "viewkey" \in DOMAIN e.more THEN <<Line("viewkey", 0, e.more["viewkey"])>> ELSE <<>>)
            \o (IF "wallet_passwd" \in DOMAIN e.more THEN <<Line("wallet_passwd", 0, e.more["wallet_passwd"])>> ELSE <<>>)

WriteFile ==
    /\ pc = "listed"
    /\ file' = [sid |-> job.sid, label |-> IF job.class = "PasswordList" THEN <<>> ELSE Label,
                pw |-> IF job.class = "PasswordList" THEN <<job.pwid, job.fmt, Asked>> ELSE <<>>, edited |-> FALSE,
                body |-> FlattenSeq([n \in DOMAIN list |-> LinesOf(list[n])])]
    /\ name' = <<job.class, job.sid,
                 IF job.class = "PasswordList" THEN <<job.pwid, job.fmt, job.hex2bip39, Asked>>
                 ELSE Words(CoinShown, P.coin)
                      \o Words(job.type \notin {"L", "E"}, job.type) \o Words(P.net # "mainnet", P.net),
                 PiecesOf(idxs)>>
    /\ pc' = "filed"
    /\ UNCHANGED <<listing, reading, importing>>

(* Someone exchanges two lines of the file, or drops one.                  *)
Edit ==
    /\ pc = "filed" /\ ~ file.edited /\ todo = <<>>
    /\ \E x, y \in DOMAIN file.body :
          /\ x <= y
          /\ file' = [file EXCEPT !.edited = TRUE, !.body = IF x = y THEN RemoveAt(@, x)
                                           ELSE [@ EXCEPT ![x] = file.body[y], ![y] = file.body[x]]]
    /\ UNCHANGED <<listing, pc, name, reading, importing>>

-------------------------------------------------------------------------------
(* parse_addrfile_label(): the words that are there say what is left out.  *)
Networks == {"mainnet", "testnet", "regtest"}

NetOf(label) == IF label # <<>> /\ Last(label) \in Networks THEN Last(label) ELSE "mainnet"

CoinAndType(label) ==
    LET rest == IF label # <<>> /\ Last(label) \in Networks THEN Front(label) ELSE label
        btc == {Types[Protos["btc"].types[n]].name : n \in DOMAIN Protos["btc"].types}
    IN IF Len(rest) = 1 /\ rest[1] \in btc THEN <<"BTC", rest[1]>>
       ELSE IF Len(rest) = 0 THEN <<"BTC", "legacy">>
       ELSE IF Len(rest) = 2 THEN rest ELSE <<rest[1], None>>

ProtoOf(coin, net) == CHOOSE p \in DOMAIN Protos : Protos[p].coin = coin /\ Protos[p].net = net

TypeNamed(p, tname) ==
    IF tname = None THEN Protos[p].types[1]
    ELSE CHOOSE t \in Range(Protos[p].types) : Types[t].name = tname

Labelled == LET ct == CoinAndType(file.label)
                p == ProtoOf(ct[1], NetOf(file.label))
            IN [proto |-> p, type |-> TypeNamed(p, ct[2])]

R == Protos[reader.proto]

(* The first line: the list must be of the reader's base coin and network. *)
Open ==
    /\ pc = "filed"
    /\ \E r \in Readers : reader' = [proto |-> r[1], class |-> r[2], check |-> r[3]]
    /\ lines' = file.body /\ want' = <<>> /\ got' = <<>>
    /\ pc' = IF reader'.class = "PasswordList"
             THEN IF file.pw # <<>> THEN "parse" ELSE "bad"
             ELSE IF file.pw = <<>> /\ file.body # <<>>   \* at least three lines
                     /\ Protos[Labelled.proto].base = Protos[reader'.proto].base
                     /\ Protos[Labelled.proto].net = Protos[reader'.proto].net
                  THEN "parse" ELSE "bad"
    /\ UNCHANGED <<listing, file, name, importing>>

(* An entry is a line with the index, and the lines of its keys.  The key  *)
(* in hexadecimal is passed over by get_line().                            *)
Rest == IF lines[1].tag = "orig_hex" THEN Tail(lines) ELSE lines

Valid(a) == /\ a.base = R.base /\ a.net = R.net
            /\ a.type = "B" => "B" \in Range(R.types)
            /\ a.view = "cash" => R.coin = "BCH"

WantedKeys ==
    IF ~ HasKeys(reader.class) THEN <<>>
    ELSE LET t == Types[Labelled.type]
         IN Words(reader.class = "KeyAddrList", t.wif) \o Words("viewkey" \in t.extra, "viewkey")
            \o Words("wallet_passwd" \in t.extra, "wallet_passwd")

ReadLine ==
    /\ pc = "parse" /\ lines # <<>>
    /\ IF Rest = <<>> THEN pc' = "bad" /\ UNCHANGED <<lines, want, got>>
       ELSE LET ln == Rest[1]
            IN /\ lines' = Tail(Rest)
               /\ IF want = <<>>
                  THEN IF ln.tag = "entry" /\ (IF file.pw # <<>> THEN TRUE ELSE Valid(ln.val))
                       THEN /\ got' = Append(got, [idx |-> ln.idx, main |-> ln.val, key |-> <<>>])
                            /\ want' = IF file.pw # <<>> THEN <<>> ELSE WantedKeys
                            /\ pc' = pc
                       ELSE pc' = "bad" /\ UNCHANGED <<want, got>>
                  ELSE IF ln.tag = want[1]
                       THEN /\ got' = IF ln.tag \in {"viewkey", "wallet_passwd"} THEN got
                                      ELSE [got EXCEPT ![Len(got)].key = ln.val]
                            /\ want' = Tail(want) /\ pc' = pc
                       ELSE pc' = "bad" /\ UNCHANGED <<want, got>>
    /\ UNCHANGED <<listing, file, name, reader, importing>>

Matches(e) == e.key = e.main.key

Verify ==
    /\ pc = "parse" /\ lines = <<>>
    /\ pc' = IF want # <<>> \/ (reader.check /\ reader.class = "KeyAddrList" /\ ~ \A e \in Range(got) : Matches(e))
             THEN "bad" ELSE "read"
    /\ UNCHANGED <<listing, file, name, reading, importing>>

-------------------------------------------------------------------------------
(* mmgen-addrimport: one call for each address, or one for all of them.    *)
MmgenID(e) == <<file.sid, Labelled.type, e.idx>>

Spelled(a) == <<a.key, a.type>>

WithLabels(es) == [a \in DOMAIN wallet \union {Spelled(e.main) : e \in es} |->
                  IF \E e \in es : Spelled(e.main) = a THEN MmgenID(CHOOSE e \in es : Spelled(e.main) = a)
                  ELSE wallet[a]]

StartImport ==
    /\ pc = "read" /\ file.pw = <<>> /\ R.base = "BTC" /\ reader.class # "ViewKeyAddrList"
    /\ todo' = got /\ pc' = "import"
    /\ UNCHANGED <<listing, file, name, reading, wallet, fails>>

Import ==
    /\ pc = "import" /\ todo # <<>>
    /\ \/ todo' = Tail(todo) /\ wallet' = WithLabels({todo[1]})
       \/ todo = got /\ todo' = <<>> /\ wallet' = WithLabels(Range(todo))     \* --batch
    /\ pc' = IF todo' = <<>> THEN "imported" ELSE pc
    /\ UNCHANGED <<listing, file, name, reading, fails>>

(* A call fails and the program ends; of a batch, some may have been done. *)
(* The user gives the command again, with the same file.                   *)
ImportFails ==
    /\ pc = "import" /\ todo # <<>> /\ fails < MaxFails
    /\ IF todo = got THEN \E es \in SUBSET Range(got) : wallet' = WithLabels(es) ELSE UNCHANGED wallet
    /\ pc' = "filed" /\ fails' = fails + 1
    /\ UNCHANGED <<listing, file, name, reading, todo>>

Init ==
    /\ job \in Jobs
    /\ pc = "start" /\ idxs = <<>> /\ hash = <<>> /\ rounds = 0 /\ list = <<>>
    /\ file = [sid |-> None, label |-> <<>>, pw |-> <<>>, edited |-> FALSE, body |-> <<>>] /\ name = <<>>
    /\ reader = [proto |-> job.proto, class |-> job.class, check |-> TRUE]
    /\ lines = <<>> /\ want = <<>> /\ got = <<>> /\ wallet = <<>> /\ todo = <<>> /\ fails = 0

Next == \/ Generate \/ Round \/ WriteFile \/ Edit
        \/ Open \/ ReadLine \/ Verify
        \/ StartImport \/ Import \/ ImportFails

-------------------------------------------------------------------------------
(* A list is read back only as what it was: by a command for the same coin *)
(* (or one with the same keys), entry for entry if no one changed it, each *)
(* address that of its index; and the keys, if checked, those of the       *)
(* addresses.  Ethereum Classic lists are taken for Ethereum ones, though. *)
ReadBack ==
    pc = "read" /\ reader.class # "PasswordList" =>
        /\ Labelled = [proto |-> Labelled.proto, type |-> job.type]
        /\ P.coin # "ETC" /\ R.coin # "ETC" =>
              \A e \in Range(got) : e.main.key = <<job.sid, AddrScramble(R, job.type), e.idx>>
        /\ ~ file.edited => [n \in DOMAIN got |-> got[n].idx] = idxs
        /\ reader.class = "KeyAddrList" /\ (reader.check \/ ~ file.edited) => \A e \in Range(got) : e.key = e.main.key

(* The secret of an index is the same whatever list it is generated in.    *)
OwnSecret == \A e \in Range(list) : e.key = <<job.sid, Scramble, e.idx>>

(* The name of the file tells the list, and reads back as its indexes.     *)
NameTells == pc = "filed" => IdxsOf(name[4]) = idxs /\ \A p \in Range(name[4]) : GoodPiece(p)

(* Passwords hold no more than the seed does.                              *)
NoMoreThanSeed ==
    \A e \in Range(list) : job.class = "PasswordList" => PwBytes(job.fmt, e.main[2]) <= job.seedlen

(* An import that ends, after any number of failed ones, leaves each       *)
(* address with its ID, and no ID with two addresses.                      *)
ImportedOnce ==
    /\ pc = "imported" => \A e \in Range(got) : wallet[Spelled(e.main)] = MmgenID(e)
    /\ \A a, x \in DOMAIN wallet : wallet[a] = wallet[x] => a = x

ListsRight == ReadBack /\ OwnSecret /\ NameTells /\ NoMoreThanSeed /\ ImportedOnce
================================================================================
