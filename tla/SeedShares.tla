----------------------------- MODULE SeedShares -----------------------------
(***************************************************************************)
(* N-of-N seed splitting (mmgen/seedsplit.py).  All shares but the last    *)
(* are derived from the parent seed; the last makes the XOR of all of them *)
(* the parent.  A split is made anew in every session that needs a share,  *)
(* so shares taken years apart must belong together.  With a master share, *)
(* what the user keeps as the first share is a base seed, from which the   *)
(* share proper is derived when the shares are joined.                     *)
(***************************************************************************)
EXTENDS Naturals, Sequences, FiniteSets

CONSTANTS
    Sessions,
    Bits,           \* seeds are sets of bits
    SidOf(_),       \* the Seed ID of a seed
    Unasked,        \* a scrambled seed nobody has computed yet
    Counts,         \* share counts
    MaxNonce        \* SeedShare.max_nonce

BitSeeds == SUBSET Bits

(* What is assumed of the constants.                                       *)
ShareAssumption ==
    /\ IsFiniteSet(Bits)
    /\ \A b \in BitSeeds : b # Unasked
    /\ Counts \subseteq Nat \ {0, 1}
    /\ MaxNonce \in Nat

VARIABLES
    parent,     \* the parent seed
    split,      \* the split each session makes: share count, with master share or not
    scramble,   \* the seed of each split, share index and nonce, revealed as it is used
    master,     \* the base seed of each nonce of the master share, the same for all splits
    derived,    \* the share derived from each base seed for each share count
    list        \* each session's SeedShareList

vars == <<parent, split, scramble, master, derived, list>>

Split == [count : Counts, master : BOOLEAN]

Indexes == UNION {1..n : n \in Counts}

Nonces == 0..MaxNonce

Sampled(f, q) == IF f[q] = Unasked THEN BitSeeds ELSE {f[q]}

New == [pc |-> "new", start |-> 0, nonce |-> 0, data |-> <<>>, last |-> Unasked]

TypeOK ==
    /\ parent \in BitSeeds
    /\ split \in [Sessions -> Split]
    /\ scramble \in [Split \X Indexes \X Nonces -> {Unasked} \union BitSeeds]
    /\ master \in [Nonces -> {Unasked} \union BitSeeds]
    /\ derived \in [BitSeeds \X Counts -> {Unasked} \union BitSeeds]
    /\ \A s \in Sessions :
        /\ list[s].pc \in {"new", "master", "shares", "last", "ready", "dead"}
        /\ list[s].start \in Nonces /\ list[s].nonce \in Nonces
        /\ \A k \in DOMAIN list[s].data : list[s].data[k].idx = k /\ list[s].data[k].nonce \in Nonces
        /\ Len(list[s].data) = split[s].count <=> list[s].pc = "ready"

InitOf(p, f) ==
    /\ parent = p /\ split = f
    /\ scramble = [q \in Split \X Indexes \X Nonces |-> Unasked]
    /\ master = [n \in Nonces |-> Unasked]
    /\ derived = [q \in BitSeeds \X Counts |-> Unasked]
    /\ list = [s \in Sessions |-> New]

Init == \E p \in BitSeeds, f \in [Sessions -> Split] : InitOf(p, f)

----------------------------------------------------------------------------
(* The sessions share nothing, so they are taken one after the other.      *)
MyTurn(s) == \A t \in Sessions \ {s} : list[t].pc \in {"new", "ready", "dead"}

At(s, pc) == list[s].pc = pc /\ MyTurn(s)

SidsOf(data) == {data[k].sid : k \in DOMAIN data}

Taken(l) == SidsOf(l.data) \union {SidOf(parent)}

(* What the list needs next: shares derived from the parent, or the last   *)
Fill(s, l) == [l EXCEPT !.pc = IF Len(l.data) < split[s].count - 1 THEN "shares" ELSE "last"]

(* "throw out entire split list and redo with new start nonce": all but    *)
(* the master share goes.                                                  *)
Restart(s, l, start) ==
    Fill(s, [l EXCEPT !.start = start, !.nonce = start,
                      !.data = IF split[s].master THEN SubSeq(@, 1, 1) ELSE <<>>])

Dead(l) == [l EXCEPT !.pc = "dead"]

Begin(s) ==
    /\ At(s, "new")
    /\ list' = [list EXCEPT ![s] =
           IF split[s].master THEN [@ EXCEPT !.pc = "master"] ELSE Restart(s, @, 0)]
    /\ UNCHANGED <<parent, split, scramble, master, derived>>

(* make_master_share(): the share derived from a base that is given up for *)
(* the next is of no use.                                                  *)
Master(s) ==
    LET l == list[s] IN
    /\ At(s, "master")
    /\ \E base \in Sampled(master, l.nonce) :
        /\ master' = [master EXCEPT ![l.nonce] = base]
        /\ IF SidOf(base) # SidOf(parent)
           THEN LET q == <<base, split[s].count>> IN
                /\ \E share \in Sampled(derived, q) : derived' = [derived EXCEPT ![q] = share]
                /\ list' = [list EXCEPT ![s] = Restart(s, [l EXCEPT
                       !.data = <<[sid |-> SidOf(base), idx |-> 1, nonce |-> l.nonce]>>], 0)]
           ELSE /\ list' = [list EXCEPT ![s] =
                       IF l.nonce < MaxNonce THEN [l EXCEPT !.nonce = l.nonce + 1] ELSE Dead(l)]
                /\ UNCHANGED derived
    /\ UNCHANGED <<parent, split, scramble>>

(* _generate(), for long sub-seeds only, nonces counted from nonce_start   *)
AddShare(s) ==
    LET l == list[s]
        idx == Len(l.data) + 1
        q == <<split[s], idx, l.nonce>>
    IN
    /\ At(s, "shares")
    /\ \E seed \in Sampled(scramble, q) :
        /\ scramble' = [scramble EXCEPT ![q] = seed]
        /\ list' = [list EXCEPT ![s] =
               IF SidOf(seed) \notin Taken(l)
               THEN Fill(s, [l EXCEPT
                      !.data = Append(@, [sid |-> SidOf(seed), idx |-> idx, nonce |-> l.nonce]),
                      !.nonce = l.start])
               ELSE IF l.nonce < MaxNonce THEN [l EXCEPT !.nonce = l.nonce + 1]
               ELSE Dead(l)]
    /\ UNCHANGED <<parent, split, master, derived>>

Xor(f) == {b \in Bits : Cardinality({i \in DOMAIN f : b \in f[i]}) % 2 = 1}

Base(s) == master[list[s].data[1].nonce]

(* Mutant: the base seed takes the place of the share derived from it.     *)
ShareFromBase(s, i, base) ==
    IF i = split[s].count THEN list[s].last
    ELSE IF i = 1 /\ split[s].master THEN Base(s)
    ELSE scramble[<<split[s], i, list[s].data[i].nonce>>]

(* get_share_by_idx()                                                      *)
Share(s, i, base) ==
    IF i = split[s].count THEN list[s].last
    ELSE IF i = 1 /\ split[s].master
    THEN IF base THEN Base(s) ELSE derived[<<Base(s), split[s].count>>]
    ELSE scramble[<<split[s], i, list[s].data[i].nonce>>]

(* SeedShareLast: what is missing to the parent                            *)
LastSeed(s) ==
    Xor([i \in 0..(split[s].count - 1) |-> IF i = 0 THEN parent ELSE Share(s, i, FALSE)])

Last(s) ==
    LET l == list[s]
        seed == LastSeed(s)
    IN
    /\ At(s, "last")
    /\ list' = [list EXCEPT ![s] =
           IF SidOf(seed) \notin Taken(l)
           THEN [l EXCEPT !.last = seed, !.pc = "ready",
                          !.data = Append(@, [sid |-> SidOf(seed), idx |-> split[s].count, nonce |-> l.start])]
           ELSE IF l.start < MaxNonce THEN Restart(s, l, l.start + 1)
           ELSE Dead(l)]
    /\ UNCHANGED <<parent, split, scramble, master, derived>>

Next == \E s \in Sessions : Begin(s) \/ Master(s) \/ AddShare(s) \/ Last(s)

Spec == Init /\ [][Next]_vars

----------------------------------------------------------------------------
Ready == {s \in Sessions : list[s].pc = "ready"}

(* The sessions whose share i the user may hold for the split of s: those  *)
(* that made the same split, and for a master share any that has one.      *)
Sources(s, i) ==
    {t \in Ready : split[t] = split[s] \/ (i = 1 /\ split[s].master /\ split[t].master)}

(* join_shares(): kept is the seed in each file, the master's base first.  *)
Joined(n, withMaster, kept) ==
    Xor([i \in 1..n |-> IF i = 1 /\ withMaster THEN derived[<<kept[1], n>>] ELSE kept[i]])

(* Shares of a split, each exported in whatever session, join to the seed; *)
(* and one master share, exported once, serves splits of any size.         *)
SharesRejoin ==
    \A s \in Ready : LET n == split[s].count IN
        \A from \in [1..n -> Ready] :
            (\A i \in 1..n : from[i] \in Sources(s, i)) =>
                Joined(n, split[s].master, [i \in 1..n |->
                    IF split[s].master /\ i = 1 THEN Base(from[i]) ELSE Share(from[i], i, TRUE)]) = parent

(* Every share of a split, the master's base and the last share included,  *)
(* has a Seed ID of its own, which is not the parent's, and a share looked *)
(* up by that ID is the share with that index.                             *)
ShareIdsUnique ==
    \A s \in Ready : \A i \in 1..split[s].count :
        /\ SidOf(Share(s, i, TRUE)) = list[s].data[i].sid
        /\ list[s].data[i].sid # SidOf(parent)
        /\ \A j \in 1..split[s].count : list[s].data[i].sid = list[s].data[j].sid => i = j
=============================================================================
