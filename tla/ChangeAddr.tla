----------------------------- MODULE ChangeAddr -----------------------------
(* How a change address, or one to receive a swap, is picked from the      *)
(* tracking wallet when the user names an address list or only an address  *)
(* type.  The entries are sorted by seed, address type and index, those of *)
(* no seed last; the first one of a list is found by bisection within the  *)
(* entries of its seed.                                                    *)
EXTENDS Integers, FiniteSets, Sequences

CONSTANTS
    Types,      \* address types, 1 .. n in the order their letters sort
    Preferred,  \* proto.preferred_mmtypes, a sequence
    Lists,      \* the lists the wallet may hold, each a sorted sequence
    AnyType,    \* the user named no type
    NoAddr      \* no address

Foreign == 99   \* the seed of an address that is not the wallet's

Entry == [sid : Nat, type : Nat, idx : Nat, used : BOOLEAN, label : BOOLEAN]

Sorted(s) ==
    \A i, j \in DOMAIN s : i < j =>
        \/ s[i].sid < s[j].sid
        \/ s[i].sid = s[j].sid /\ (s[i].sid = Foreign \/ s[i].type <= s[j].type)

(* What is assumed of the constants.                                       *)
ChangeAssumption ==
    /\ Types \subseteq Nat /\ AnyType \notin Types /\ Preferred \in Seq(Types)
    /\ \A s \in Lists : s \in Seq(Entry) /\ Sorted(s)
    /\ NoAddr \notin Entry

VARIABLES
    data,       \* the entries of the wallet
    mmtype,     \* the type the user named, or AnyType
    labels,     \* autochg_ignore_labels
    exclude,    \* addresses the transaction already uses
    pc,
    types,      \* the types left to try
    sids,       \* the seeds left to look at
    bot, top, n,\* the bisection
    res,        \* what was found in each seed: an entry, "none" or "used"
    picked      \* the address

vars == <<data, mmtype, labels, exclude, pc, types, sids, bot, top, n, res, picked>>

fixed == <<data, mmtype, labels, exclude>>

Seeds == {data[i].sid : i \in DOMAIN data} \ {Foreign}

(* sid_ranges: the first and the last entry of each seed.                  *)
SidRange(s) ==
    LET is == {i \in DOMAIN data : data[i].sid = s}
    IN <<CHOOSE i \in is : \A j \in is : i <= j, CHOOSE i \in is : \A j \in is : i >= j>>

BelowOrIn(e, s, t) == e.sid < s \/ (e.sid = s /\ e.type <= t)

(* twmmid < al_id:0                                                        *)
Below(e, s, t) == e.sid < s \/ (e.sid = s /\ e.type < t)

InList(e, s, t) == e.sid = s /\ e.type = t

NextType ==
    /\ pc = "type"
    /\ IF types = <<>>
       THEN pc' = "done" /\ UNCHANGED <<types, sids, res>>
       ELSE pc' = "seed" /\ sids' = Seeds /\ res' = {} /\ types' = types
    /\ UNCHANGED <<fixed, bot, top, n, picked>>

(* get_change_address() for the addresses of one seed.                     *)
NextSeed(s) ==
    /\ pc = "seed"
    /\ s \in sids
    /\ sids' = sids \ {s}
    /\ bot' = SidRange(s)[1] /\ top' = SidRange(s)[2]
    /\ n' = (top' - 1) \div 2 + 1
    /\ pc' = "bisect"
    /\ UNCHANGED <<fixed, types, res, picked>>

Sid == data[top].sid

Bisect ==
    /\ pc = "bisect"
    /\ bot # top
    /\ IF Below(data[n], Sid, Head(types))
       THEN bot' = n + 1 /\ top' = top
       ELSE bot' = bot /\ top' = n
    /\ n' = (bot' + top' - 2) \div 2 + 1
    /\ UNCHANGED <<fixed, pc, types, sids, res, picked>>

Free(e) == ~e.used /\ <<e.sid, e.type, e.idx>> \notin exclude /\ (labels \/ ~e.label)

Scan ==
    /\ pc = "bisect"
    /\ bot = top
    /\ LET s == Sid
           after == {i \in bot .. Len(data) : InList(data[i], s, Head(types))}
           free == {i \in after : Free(data[i])}
       IN res' = res \union
            IF ~InList(data[bot], s, Head(types)) THEN {}
            ELSE IF free = {} THEN {NoAddr}
            ELSE {data[CHOOSE i \in free : \A j \in free : i <= j]}
    /\ pc' = "seed"
    /\ UNCHANGED <<fixed, types, sids, bot, top, n, picked>>

(* When every seed has been looked at: with several addresses the user     *)
(* chooses one, with none the next type is tried.                          *)
Choose ==
    /\ pc = "seed"
    /\ sids = {}
    /\ IF res \ {NoAddr} # {}
       THEN picked' \in res \ {NoAddr} /\ pc' = "done" /\ types' = types
       ELSE picked' = picked /\ pc' = "type" /\ types' = Tail(types)
    /\ UNCHANGED <<fixed, sids, bot, top, n, res>>

Ids(s) == {<<s[i].sid, s[i].type, s[i].idx>> : i \in DOMAIN s}

Init ==
    /\ data \in Lists
    /\ mmtype \in Types \union {AnyType}
    /\ labels \in BOOLEAN
    /\ exclude \in {{}} \union {{id} : id \in Ids(data)}
    /\ pc = "type"
    /\ types = IF mmtype = AnyType THEN Preferred ELSE <<mmtype>>
    /\ sids = {} /\ bot = 1 /\ top = 1 /\ n = 1 /\ res = {} /\ picked = NoAddr

Next == NextType \/ Bisect \/ Scan \/ Choose \/ \E s \in sids : NextSeed(s)

Spec == Init /\ [][Next]_vars

-------------------------------------------------------------------------------
(* The address picked has never been paid to, is not in the transaction    *)
(* already, has no label unless the user said so, belongs to a seed of the *)
(* wallet and is the first such address of its list; no address of a type  *)
(* that is preferred was free; and if none is picked, none was free.       *)
FreeOfType(t) == {i \in DOMAIN data : data[i].sid # Foreign /\ data[i].type = t /\ Free(data[i])}

Tried == IF mmtype = AnyType THEN Preferred ELSE <<mmtype>>

PicksFirstUnused ==
    pc = "done" =>
        IF picked = NoAddr THEN \A k \in DOMAIN Tried : FreeOfType(Tried[k]) = {}
        ELSE \E k \in DOMAIN Tried : \E i \in FreeOfType(Tried[k]) :
                /\ data[i] = picked
                /\ \A j \in FreeOfType(Tried[k]) : data[j].sid = picked.sid => i <= j
                /\ \A h \in 1 .. (k - 1) : FreeOfType(Tried[h]) = {}
===============================================================================
