------------------------------- MODULE TwDump -------------------------------
(* A tracking wallet exported to a JSON file, possibly with some addresses *)
(* pruned, and imported on another computer.  The dump carries a checksum  *)
(* of everything in it and one of its ID-to-address mappings; a checksum   *)
(* is modelled by what it was made from.  "btc" wallets are the daemon's,  *)
(* "eth" wallets are a file.                                               *)
EXTENDS Naturals, FiniteSets

CONSTANTS
    Entries,    \* entries a wallet may hold: id, address, comment, amount
    Networks,   \* coin and network
    NoWallet    \* no tracking wallet

VARIABLES
    coin, net,  \* the importing program's coin and network
    wallet,     \* the wallet exported
    orig,       \* history: the entries that were to be exported
    dump,       \* the file
    bad,        \* history: it was damaged
    copy,       \* the importing computer's wallet
    todo,       \* entries still to be imported
    ignore,     \* --ignore-checksum
    pc

vars == <<coin, net, wallet, orig, dump, bad, copy, todo, ignore, pc>>

(* What is assumed of the constants: entries are records of these fields.  *)
DumpAssumption == \A e \in Entries : e = [id |-> e.id, addr |-> e.addr, comment |-> e.comment, amt |-> e.amt]

Mappings(es) == {<<e.id, e.addr>> : e \in es}

Damaged == [sum |-> {}]

(* The entries that are not marked, with their amounts or without.         *)
Export(n, pruned, amts) ==
    /\ pc = "start"
    /\ coin = "eth" => pruned = {}
    /\ orig' = wallet \ pruned
    /\ LET out == {[e EXCEPT !.amt = IF amts THEN @ ELSE 0] : e \in orig'}
           data == [net |-> n, maps |-> Mappings(out), entries |-> out]
       IN dump' = [data |-> data, sum |-> data]
    /\ pc' = "dumped"
    /\ UNCHANGED <<coin, net, wallet, bad, copy, todo, ignore>>

(* The file is damaged, or edited.                                         *)
Change(old, new) ==
    /\ pc = "dumped" /\ ~bad
    /\ bad' = TRUE
    /\ dump' = [dump EXCEPT !.data.entries = (@ \ {old}) \union {new}]
    /\ dump' # dump
    /\ UNCHANGED <<coin, net, wallet, orig, copy, todo, ignore, pc>>

-------------------------------------------------------------------------------
Exists == IF coin = "btc" THEN copy # NoWallet ELSE copy \notin {NoWallet, {}}

(* A wallet that holds anything is left alone.  The daemon's wallet is     *)
(* created before the file is looked at.                                   *)
StartImport(ign) ==
    /\ pc = "dumped"
    /\ ignore' = ign
    /\ IF Exists THEN pc' = "died" /\ copy' = copy
                 ELSE pc' = "read" /\ copy' = {}
    /\ UNCHANGED <<coin, net, wallet, orig, dump, bad, todo>>

VerifyChecksum == dump.data.net = net /\ (ignore \/ dump.sum = dump.data)

VerifyData ==
    /\ dump.data.net = net
    /\ ignore \/ dump.sum = dump.data
    /\ Mappings(dump.data.entries) = dump.data.maps

ReadDump ==
    /\ pc = "read"
    /\ IF VerifyData THEN pc' = "import" /\ todo' = dump.data.entries
                     ELSE pc' = "died" /\ todo' = todo
    /\ UNCHANGED <<coin, net, wallet, orig, dump, bad, copy, ignore>>

(* Bitcoin addresses are imported one by one, or in one call, and their    *)
(* balances are found by a scan; the other wallet is written at once.      *)
DoImport(es) ==
    /\ pc = "import"
    /\ es \subseteq todo
    /\ coin = "btc" => Cardinality(es) = 1 \/ es = todo
    /\ coin = "eth" => es = todo
    /\ copy' = copy \union IF coin = "btc" THEN {[e EXCEPT !.amt = 0] : e \in es} ELSE es
    /\ todo' = todo \ es
    /\ pc' = IF todo' = {} THEN "imported" ELSE "import"
    /\ UNCHANGED <<coin, net, wallet, orig, dump, bad, ignore>>

(* The daemon goes away; the command is run again with the same file.      *)
Interrupted ==
    /\ pc \in {"read", "import"}
    /\ pc' = "died"
    /\ UNCHANGED <<coin, net, wallet, orig, dump, bad, copy, todo, ignore>>

Again ==
    /\ pc = "died"
    /\ pc' = "dumped"
    /\ UNCHANGED <<coin, net, wallet, orig, dump, bad, copy, todo, ignore>>

-------------------------------------------------------------------------------
Init ==
    /\ coin \in {"btc", "eth"} /\ net \in Networks
    /\ wallet \in SUBSET Entries
    /\ \A d, e \in wallet : d.id = e.id \/ d.addr = e.addr => d = e
    /\ orig = wallet /\ dump = Damaged /\ bad = FALSE
    /\ copy = NoWallet /\ todo = {} /\ ignore = FALSE
    /\ pc = "start"

Next ==
    \/ \E n \in Networks, pruned \in SUBSET wallet, amts \in BOOLEAN : Export(n, pruned, amts)
    \/ dump # Damaged /\ \E old \in dump.data.entries, new \in Entries : Change(old, new)
    \/ \E ign \in BOOLEAN : StartImport(ign)
    \/ ReadDump \/ Interrupted \/ Again
    \/ \E es \in SUBSET todo : DoImport(es)

Spec == Init /\ [][Next]_vars

-------------------------------------------------------------------------------
(* An import that ends well gives the wallet that was dumped: the          *)
(* addresses that were not pruned under the IDs they had, whatever became  *)
(* of the file and even if its checksum was ignored; and their labels, if  *)
(* it was not.  At no time is anything in the new wallet that was not in   *)
(* the old one under the same ID.                                          *)
Labels(es) == {<<e.id, e.comment>> : e \in es}

DumpRestores ==
    /\ copy # NoWallet => Mappings(copy) \subseteq Mappings(orig)
    /\ pc = "imported" =>
          /\ Mappings(copy) = Mappings(orig)
          /\ ~ignore => Labels(copy) = Labels(orig)
===============================================================================
