-------------------------------- MODULE HdPath ---------------------------------
(* Hierarchical-deterministic derivation: nodes derived from a master key  *)
(* along a path, privately or publicly, written as extended keys and read  *)
(* back.  Private keys are integers modulo a small group order, the public *)
(* key of k is [pub |-> TRUE, k |-> k].                                    *)
EXTENDS Integers, SequencesExt

CONSTANTS
    Order,          \* of the group
    Hash(_, _, _),  \* hmac-sha512 of chaincode, key and index: <<addend, chaincode>>
    HardIdx,        \* hardened_idx0
    Coins,          \* supported coins: address types, the default one, chain index
    VB(_, _),       \* version bytes of <<BIP, coin>>; "x" are the usual ones
    Master,         \* <<key, chaincode>>
    Indexes, Types, Nets,
    MaxDepth        \* bound on the depth of unchecked paths

VARIABLES
    node,       \* the node at hand
    path        \* history: <<index, hardened, checked>> of each step to it

vars == <<node, path>>

NoIdx == -1

Key(pub, k) == [pub |-> pub, k |-> k]

GoodKey(k) == k # 0 /\ k < Order

Config(coin, type, net, checks) ==
    [coin |-> coin, net |-> net, checks |-> checks,
     type |-> IF type # "" THEN type ELSE IF Coins[coin].dfl = "L" THEN "C" ELSE Coins[coin].dfl]

ConfigOk(c) == c.coin \in DOMAIN Coins /\ c.type \in Coins[c.coin].types

BipOf(type) == CASE type = "B" -> 84 [] type = "S" -> 49 [] OTHER -> 44

Node(cfg, depth, idx, hard, key, cc, par) ==
    [cfg |-> cfg, depth |-> depth, idx |-> idx, hard |-> hard, key |-> key, cc |-> cc, par |-> par]

MasterNode(cfg) == Node(cfg, 0, 0, TRUE, Key(FALSE, Master[1]), Master[2], 0)

(* A ValueError.                                                           *)
Error == Node(Config("btc", "C", "mainnet", TRUE), -1, 0, FALSE, Key(FALSE, 0), 0, 0)

-------------------------------------------------------------------------------
(* What each level of a checked path must be, and what it is by default.   *)
MustBeHard(depth) == depth \in 1 .. 3

HardAllowed(depth, hard) == hard = "none" \/ hard = (IF MustBeHard(depth) THEN "yes" ELSE "no")

IdxAllowed(cfg, depth, idx) ==
    CASE depth = 1 -> idx \in {NoIdx, BipOf(cfg.type)}
      [] depth = 2 -> idx \in {NoIdx, Coins[cfg.coin].idx}
      [] depth = 4 -> idx \in {0, 1}
      [] OTHER -> idx # NoIdx

Idx(cfg, depth, idx) ==
    CASE depth = 1 -> BipOf(cfg.type)
      [] depth = 2 -> Coins[cfg.coin].idx
      [] OTHER -> idx

Raw(idx, hard) == idx + (IF hard THEN HardIdx ELSE 0)

(* Plausible bug: the private key is hashed for every index.               *)
AsIs(key) == key

Public(key) == Key(TRUE, key.k)

(* The child of a node: what is hashed is the private key for a hardened   *)
(* index, else the public one, and the result is added to either: a private *)
(* key cannot be added to as a public one.                                 *)
Child(n, idx, hard, public) ==
    LET in == IF hard THEN n.key ELSE Public(n.key)
        h == Hash(n.cc, in, Raw(idx, hard))
        k == (n.key.k + h[1]) % Order
    IN IF ~ (hard /\ public) /\ GoodKey(h[1]) /\ GoodKey(k)
       THEN Node(n.cfg, n.depth + 1, idx, hard, Key(public, k), h[2], n.key.k)
       ELSE Error

Derive(n, idx, hard, public) ==
    LET depth == n.depth + 1 IN
    IF n = Error \/ (n.key.pub /\ ~ public) \/ depth > 5 THEN Error
    ELSE IF ~ n.cfg.checks
         THEN IF idx = NoIdx \/ hard = "none" \/ Raw(idx, hard = "yes") >= 2 * HardIdx THEN Error
              ELSE Child(n, idx, hard = "yes", public)
    ELSE IF (public /\ MustBeHard(depth)) \/ ~ HardAllowed(depth, hard) \/ ~ IdxAllowed(n.cfg, depth, idx)
            \/ Raw(Idx(n.cfg, depth, idx), MustBeHard(depth)) >= 2 * HardIdx
         THEN Error
    ELSE Child(n, Idx(n.cfg, depth, idx), MustBeHard(depth), public)

ToChain(n, idx, hard, public) ==
    LET acct == Derive(IF n.depth = 2 THEN n ELSE Derive(Derive(n, NoIdx, "none", FALSE), NoIdx, "none", FALSE), 0, "none", FALSE)
    IN Derive(acct, idx, IF public THEN "no" ELSE hard, public)

FromPath(cfg, steps) == FoldLeft(LAMBDA n, s : Derive(n, s[1], s[2], FALSE), MasterNode(cfg), steps)

-------------------------------------------------------------------------------
(* Extended keys.  Where two BIPs share version bytes the first of 49, 84, *)
(* 44 is what they are read as.                                            *)
Serialize(n, pub) ==
    [vb |-> VB(BipOf(n.cfg.type), n.cfg.coin), public |-> pub, depth |-> n.depth, par |-> n.par,
     raw |-> Raw(n.idx, n.hard /\ n.depth > 0), cc |-> n.cc, k |-> n.key.k]

BipRead(vb) ==
    IF vb = "x" THEN 44
    ELSE SelectSeq(<<49, 84, 44>>, LAMBDA b : \E c \in DOMAIN Coins : VB(b, c) = vb)[1]

TypeRead(bip) == CASE bip = 84 -> "B" [] bip = 49 -> "S" [] OTHER -> ""

Parse(x, coin, type) ==
    LET cfg == Config(coin, IF type # "" THEN type ELSE TypeRead(BipRead(x.vb)), "mainnet", TRUE)
        hard == x.raw >= HardIdx \/ x.depth = 0
    IN IF ~ ConfigOk(cfg) \/ (x.depth = 0 /\ (x.par # 0 \/ x.raw # 0)) \/ ~ GoodKey(x.k) THEN Error
       ELSE Node(cfg, x.depth, IF x.raw >= HardIdx THEN x.raw - HardIdx ELSE x.raw, hard, Key(x.public, x.k), x.cc, x.par)

-------------------------------------------------------------------------------
Step(n) == <<n.idx, n.hard, n.cfg.checks>>

InitCfg(cfg) ==
    /\ node = Error /\ ConfigOk(cfg)
    /\ node' = MasterNode(cfg)
    /\ UNCHANGED path

DeriveChild(idx, hard, public) ==
    /\ node # Error
    /\ ~ node.cfg.checks => node.depth < MaxDepth
    /\ LET n == Derive(node, idx, hard, public) IN
       /\ n # Error
       /\ node' = n /\ path' = Append(path, Step(n))

DeriveChain(idx, hard, public) ==
    /\ node.depth \in {0, 2} /\ node.cfg.checks
    /\ LET n == ToChain(node, idx, hard, public) IN
       /\ n # Error
       /\ node' = n
       /\ path' = path \o (IF node.depth = 2 THEN <<>>
                           ELSE <<<<BipOf(n.cfg.type), TRUE, TRUE>>, <<Coins[n.cfg.coin].idx, TRUE, TRUE>>>>)
                       \o <<<<0, TRUE, TRUE>>, Step(n)>>

(* The node is written as an extended key and read back.                   *)
Reread(pub, coin, type) ==
    /\ node # Error
    /\ node.key.pub => pub
    /\ LET n == Parse(Serialize(node, pub), coin, type) IN n # Error /\ node' = n
    /\ UNCHANGED path

Init == node = Error /\ path = <<>>

Next ==
    \/ \E c \in DOMAIN Coins, t \in Types, n \in Nets, b \in BOOLEAN : InitCfg(Config(c, t, n, b))
    \/ \E i \in Indexes \union {NoIdx}, h \in {"yes", "no", "none"}, p \in BOOLEAN :
        DeriveChild(i, h, p) \/ DeriveChain(i, h, p)
    \/ \E p \in BOOLEAN, c \in DOMAIN Coins, t \in Types : Reread(p, c, t)

-------------------------------------------------------------------------------
(* The private key and chaincode BIP-32 gives the end of a path.           *)
Reference ==
    FoldLeft(LAMBDA r, s :
                LET h == Hash(r[2], IF s[2] THEN Key(FALSE, r[1]) ELSE Key(TRUE, r[1]), s[1] + IF s[2] THEN HardIdx ELSE 0)
                IN <<(r[1] + h[1]) % Order, h[2]>>,
             Master, path)

(* However a node was come by, derived publicly or privately, step by step *)
(* or at once, exported and read in between, its key is the path's.        *)
KeyOfPath == node # Error => <<node.key.k, node.cc>> = Reference

InRange == \A n \in DOMAIN path : path[n][1] < HardIdx

(* An extended key read for its coin, with the address type where version  *)
(* bytes do not tell it, is the node it was written from.                  *)
TypeTold(c) ==
    LET bip == BipRead(VB(BipOf(c.type), c.coin)) IN
    bip = BipOf(c.type) /\ Config(c.coin, TypeRead(bip), c.net, TRUE).type = c.type

ReadsBack(pub) ==
    LET c == node.cfg
        same == [node EXCEPT !.key = Key(pub, @.k), !.cfg.checks = TRUE]
    IN /\ Parse(Serialize(node, pub), c.coin, c.type) = same
       /\ TypeTold(c) => Parse(Serialize(node, pub), c.coin, "") = same

RoundTrip ==
    node # Error /\ InRange /\ node.cfg.net = "mainnet" =>
        ReadsBack(TRUE) /\ (~ node.key.pub => ReadsBack(FALSE))

(* Paths of checked steps are those of BIP-44, 49 and 84.                  *)
Standard ==
    node # Error /\ (\A n \in DOMAIN path : path[n][3]) =>
        /\ \A n \in DOMAIN path : path[n][2] = (n <= 3)
        /\ Len(path) >= 1 => path[1][1] \in {44, 49, 84}
        /\ Len(path) >= 4 => path[4][1] \in {0, 1}

PathsRight == KeyOfPath /\ RoundTrip /\ Standard
===============================================================================
