------------------------------- MODULE TwView -------------------------------
(* The interactive list of the tracking wallet's addresses.  The user      *)
(* sorts and filters it, and names an entry by the number it has on the    *)
(* screen, to label, delete or refresh it; or, before the wallet is        *)
(* dumped, marks entries to be left out (pruning).  Meanwhile the wallet   *)
(* changes.  Addresses are numbered in the order of their MMGen IDs.       *)
EXTENDS Integers, FiniteSets, Sequences, SequencesExt

CONSTANTS
    Addrs,      \* a set of integers
    Wallets,    \* what the wallet may hold: amount, used, label of each address
    Height,     \* lines of the list that fit on the screen
    MaxKeys     \* bound: keys pressed

VARIABLES
    wallet,     \* the tracking wallet, and the daemon's view of its addresses
    prune,      \* "no", or the list is one to be pruned: "warn" or "quiet" (warn_used)
    data,       \* self.data: what was read from the wallet, sorted
    view,       \* sort_key, reverse, showempty, showused, all_labels
    disp,       \* self.disp_data
    pos, top,   \* self.pos, self.max_pos
    pc, keys,   \* where the program is; keys pressed
    tag,        \* entries marked
    sel, n,     \* numbers given to [p]rune, and how many have been dealt with
    auto, dfl,  \* the same names of a_prune()
    told        \* history: the user's answers

vars == <<wallet, prune, data, view, disp, pos, top, pc, keys, tag, sel, n, auto, dfl, told>>

pruning == <<tag, sel, n, auto, dfl, told>>

shownVars == <<disp, pos, top>>

Holding == [amt : Nat, used : BOOLEAN, label : BOOLEAN, there : BOOLEAN]

(* An address that has a balance has been used.                            *)
ViewAssumption ==
    /\ Addrs \subseteq Int /\ IsFiniteSet(Addrs) /\ Height \in Nat \ {0}
    /\ \A w \in Wallets : w \in [Addrs -> Holding] /\ \A a \in Addrs : w[a].amt > 0 => w[a].used

Gone == [amt |-> 0, used |-> FALSE, label |-> FALSE, there |-> FALSE]

(* Entries are read once, and carry what the wallet said then.             *)
Entry(a) == [addr |-> a, amt |-> wallet[a].amt, used |-> wallet[a].used, label |-> wallet[a].label]

SortFunc(key, e) == IF key = "amt" THEN e.amt ELSE e.addr

Ascending(S) == CHOOSE f \in [1..Cardinality(S) -> S] : \A i, j \in DOMAIN f : i < j => f[i] < f[j]

(* Python's sort is stable, reversed or not.                               *)
SortData(key, s) ==
    LET Before(i, j) ==
            LET x == SortFunc(key, s[i])
                y == SortFunc(key, s[j])
            IN (IF view.reverse THEN x > y ELSE x < y) \/ (x = y /\ i < j)
        order == CHOOSE f \in [DOMAIN s -> DOMAIN s] : \A i, j \in DOMAIN s : i < j => Before(f[i], f[j])
    IN [i \in DOMAIN s |-> s[order[i]]]

GetData ==
    LET there == {a \in Addrs : wallet'[a].there}
        read == Ascending(there)
        entries == [i \in DOMAIN read |-> [addr |-> read[i], amt |-> wallet'[read[i]].amt,
                                           used |-> wallet'[read[i]].used, label |-> wallet'[read[i]].label]]
    IN SortData(view.key, entries)

GetDispData(d, v) ==
    LET Listed(e) ==
            \/ v.labels /\ e.label
            \/ /\ v.empty \/ e.amt > 0
               /\ v.showused = 1 \/ e.used = (v.showused = 2)
        order == Ascending({i \in DOMAIN d : Listed(d[i])})
    IN [i \in DOMAIN order |-> d[order[i]]]

(* The screen is drawn before every key; a list that has changed is shown  *)
(* from its top.                                                           *)
Format ==
    /\ pc = "format"
    /\ disp' = GetDispData(data, view)
    /\ top' = IF Len(disp') > Height THEN Len(disp') - Height ELSE 0
    /\ LET p == IF disp' # disp THEN 0 ELSE pos IN pos' = IF p < top' THEN p ELSE top'
    /\ pc' = "key"
    /\ UNCHANGED <<wallet, prune, data, view, keys, pruning>>

Key == pc = "key" /\ keys < MaxKeys /\ keys' = keys + 1

SortAction(key) ==
    /\ Key
    /\ view' = [view EXCEPT !.key = key]
    /\ data' = SortData(key, data)
    /\ pos' = IF data' # data THEN 0 ELSE pos
    /\ pc' = "format"
    /\ UNCHANGED <<wallet, prune, disp, top, pruning>>

ReverseAction ==
    /\ Key
    /\ view' = [view EXCEPT !.reverse = ~@]
    /\ data' = Reverse(data)
    /\ pc' = "format"
    /\ UNCHANGED <<wallet, prune, shownVars, pruning>>

DisplayAction ==
    /\ Key
    /\ \/ view' = [view EXCEPT !.empty = ~@]
       \/ view' = [view EXCEPT !.showused = (@ + 1) % 3]
       \/ view' = [view EXCEPT !.labels = ~@]
    /\ pc' = "format"
    /\ UNCHANGED <<wallet, prune, data, shownVars, pruning>>

Lesser(x, y) == IF x < y THEN x ELSE y

ScrollAction ==
    /\ Key
    /\ pos' \in {pos - Lesser(pos, 1), pos + Lesser(top - pos, 1),
                 pos - Lesser(Height, pos), pos + Lesser(Height, top - pos), 0, top}
    /\ pc' = "format"
    /\ UNCHANGED <<wallet, prune, data, view, disp, top, pruning>>

-------------------------------------------------------------------------------
Item(i) == disp[i].addr

(* The user may decline, and is then asked for another number with the     *)
(* same screen.                                                            *)
ItemAction(i) ==
    /\ Key
    /\ prune = "no"
    /\ i \in DOMAIN disp
    /\ LET a == Item(i)
       IN    \/ /\ wallet' = [wallet EXCEPT ![a].label = IF wallet[a].there THEN ~disp[i].label ELSE FALSE]
                /\ data' = [j \in DOMAIN data |->
                              IF data[j].addr = a THEN [data[j] EXCEPT !.label = ~@] ELSE data[j]]
             \/ wallet' = [wallet EXCEPT ![a] = Gone] /\ data' = GetData
             \/ wallet' = wallet /\ data' = GetData
             \/ UNCHANGED <<wallet, data>>
    /\ pc' = IF data' = data THEN pc ELSE "format"
    /\ UNCHANGED <<prune, view, shownVars, pruning>>

(* Another command, or a payment.                                          *)
Outside(a) ==
    /\ prune = "no" /\ keys < MaxKeys /\ keys' = keys + 1
    /\ \/ wallet' = [wallet EXCEPT ![a].amt = 1, ![a].used = TRUE] /\ wallet[a].there /\ wallet[a].amt = 0
       \/ wallet' = [wallet EXCEPT ![a] = Gone]
    /\ wallet' # wallet
    /\ UNCHANGED <<prune, data, view, shownVars, pc, pruning>>

-------------------------------------------------------------------------------
Nobody == [amt |-> FALSE, used |-> FALSE]

Prune(numbers) ==
    /\ Key
    /\ prune # "no"
    /\ sel' = Ascending(numbers) /\ n' = 0
    /\ auto' = Nobody /\ dfl' = Nobody /\ told' = <<>>
    /\ pc' = "prune"
    /\ UNCHANGED <<wallet, prune, data, view, shownVars, tag>>

Chosen(i) == disp[sel[i]]

(* Addresses that are used and empty are asked about on request only.      *)
Warned(e) == prune = "warn" /\ e.used /\ e.amt = 0

QuestionAlways(e) == IF e.amt > 0 THEN "amt" ELSE IF Warned(e) THEN "used" ELSE "none"

(* Which question an entry needs, if any: balances come first.             *)
Question(e) ==
    CASE e.amt > 0 /\ ~dfl.amt -> "amt"
      [] Warned(e) /\ ~dfl.used -> "used"
      [] OTHER -> "none"

Unasked ==
    /\ pc = "prune" /\ n < Len(sel)
    /\ LET e == Chosen(n + 1)
           q == Question(e)
       IN /\ IF q = "none" THEN TRUE ELSE auto[q]
          /\ tag' = [tag EXCEPT ![e.addr] = q = "none"]
    /\ n' = n + 1
    /\ UNCHANGED <<wallet, prune, data, view, shownVars, pc, keys, sel, auto, dfl, told>>

(* do_entry(): the answers P and S hold for what is to come and go back    *)
(* over the entries already dealt with.  Skipping all used addresses skips *)
(* those with balances too.                                                *)
Ask(all, yes) ==
    /\ pc = "prune" /\ n < Len(sel)
    /\ LET e == Chosen(n + 1)
           q == Question(e)
           skipUsed == IF q = "used" THEN all /\ ~yes ELSE auto.used /\ ~dfl.used
           Redone(f) == CASE skipUsed /\ f.used -> FALSE
                          [] q = "amt" /\ f.amt > 0 -> yes
                          [] q = "used" /\ f.used /\ f.amt = 0 -> yes
                          [] OTHER -> tag[f.addr]
           before == IF all THEN {Chosen(i) : i \in 1..n} ELSE {}
       IN /\ q # "none" /\ ~auto[q]
          /\ told' = Append(told, [addr |-> e.addr, q |-> q, all |-> all, yes |-> yes])
          /\ auto' = [auto EXCEPT ![q] = all, !.amt = IF q = "amt" THEN all ELSE @ \/ skipUsed]
          /\ dfl' = [dfl EXCEPT ![q] = all /\ yes, !.amt = IF q = "amt" THEN all /\ yes ELSE @ /\ ~skipUsed]
          /\ tag' = [a \in Addrs |->
                       IF a = e.addr THEN yes
                       ELSE IF \E f \in before : f.addr = a THEN Redone(CHOOSE f \in before : f.addr = a)
                       ELSE tag[a]]
    /\ n' = n + 1
    /\ UNCHANGED <<wallet, prune, data, view, shownVars, pc, keys, sel>>

PruneDone ==
    /\ pc = "prune" /\ n = Len(sel)
    /\ pc' = "format"
    /\ UNCHANGED <<wallet, prune, data, view, shownVars, keys, pruning>>

Unprune(numbers) ==
    /\ Key
    /\ prune # "no"
    /\ \/ tag' = [a \in Addrs |-> tag[a] /\ \A i \in numbers : disp[i].addr # a]
       \/ tag' = [a \in Addrs |-> FALSE]
    /\ pc' = "format"
    /\ UNCHANGED <<wallet, prune, data, view, shownVars, sel, n, auto, dfl, told>>

-------------------------------------------------------------------------------
Init ==
    /\ wallet \in Wallets
    /\ prune \in {"no", "warn", "quiet"}
    /\ view = [key |-> "twmmid", reverse |-> FALSE, empty |-> TRUE, showused |-> 1, labels |-> FALSE]
    /\ data = LET order == Ascending(Addrs) IN [i \in DOMAIN order |-> Entry(order[i])]
    /\ disp = data /\ pos = 0 /\ top = 0
    /\ pc = "format" /\ keys = 0
    /\ tag = [a \in Addrs |-> FALSE]
    /\ sel = <<>> /\ n = 0 /\ auto = Nobody /\ dfl = Nobody /\ told = <<>>

Next ==
    \/ Format \/ ReverseAction \/ DisplayAction \/ ScrollAction \/ Unasked \/ PruneDone
    \/ \E key \in {"amt", "twmmid"} : SortAction(key)
    \/ \E i \in DOMAIN disp : ItemAction(i)
    \/ \E a \in Addrs : Outside(a)
    \/ \E numbers \in SUBSET DOMAIN disp : Prune(numbers) \/ Unprune(numbers)
    \/ \E all, yes \in BOOLEAN : Ask(all, yes)

Spec == Init /\ [][Next]_vars

-------------------------------------------------------------------------------
(* The screen shows part of the list, however it was scrolled before the   *)
(* list became shorter.                                                    *)
OnList == pc = "key" => pos <= top /\ (disp # <<>> => pos < Len(disp))

(* The numbers given name entries of the screen, no address twice; one     *)
(* that has a balance has been used.                                       *)
NumbersRight ==
    pc = "prune" =>
        /\ sel \in Seq(DOMAIN disp)
        /\ \A i, j \in DOMAIN sel : Chosen(i).addr = Chosen(j).addr => i = j
        /\ \A i \in DOMAIN sel :
              LET e == Chosen(i) IN e.addr \in Addrs /\ e.amt \in Nat /\ (e.amt > 0 => e.used) /\ e.used \in BOOLEAN

(* When all numbers have been dealt with, the entries marked are those the *)
(* answers say, taken together: "skip all used" means every used address;  *)
(* otherwise the answer for all with a balance, or all used, decides, or   *)
(* the answer for the entry itself; an address nobody has paid to is       *)
(* marked without a question, as an empty one is when used addresses are   *)
(* not asked about.                                                        *)
Answer(q) == {t \in ToSet(told) : t.q = q /\ t.all}

ToldFor(e) ==
    LET q == IF e.amt > 0 THEN "amt" ELSE "used" IN
    IF e.amt = 0 /\ ~Warned(e) THEN TRUE
    ELSE IF \E t \in Answer("used") : ~t.yes THEN FALSE
    ELSE IF Answer(q) # {} THEN \A t \in Answer(q) : t.yes
    ELSE \E t \in ToSet(told) : t.addr = e.addr /\ t.yes

PrunedAsTold ==
    pc = "prune" /\ n = Len(sel) => \A i \in DOMAIN sel : tag[Chosen(i).addr] = ToldFor(Chosen(i))
===============================================================================
