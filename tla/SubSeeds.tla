------------------------------ MODULE SubSeeds ------------------------------
(***************************************************************************)
(* The sub-seeds of a seed (mmgen/subseed.py).  Long and short sub-seeds   *)
(* are generated in turn, index by index, each with the first nonce whose  *)
(* Seed ID is new.  A list is kept per session of a program and grows as   *)
(* sub-seeds are asked for, by index or by Seed ID; nothing is stored, so  *)
(* the user relies on every later session finding the same ones.           *)
(***************************************************************************)
EXTENDS Naturals, Sequences

CONSTANTS
    Sessions, NoSession,
    Seeds,
    Sids, NoSid,
    SidOf(_),           \* the Seed ID of a seed, not necessarily unique
    Unasked,            \* a scrambled seed nobody has computed yet
    NotFound,
    MaxIdx, MaxNonce    \* SubSeedIdxRange.max_idx, SubSeed.max_nonce

ASSUME SubSeedAssumption ==
    /\ NoSession \notin Sessions /\ NoSid \notin Sids
    /\ \A b \in Seeds : SidOf(b) \in Sids
    /\ \A b \in Seeds : b # Unasked
    /\ MaxIdx \in Nat /\ MaxNonce \in Nat
    /\ NotFound \notin [sid : Sids, idx : 1..MaxIdx, length : {"long", "short"}]

Length == {"long", "short"}

Entry == [sid : Sids, idx : 1..MaxIdx, nonce : 0..MaxNonce]

(* get_subseed_by_ss_idx(idx), get_subseed_by_seed_id(sid, last_idx); also *)
(* format(), which is the same as asking for the last index.               *)
Request ==
    [by : {"idx"}, length : Length, idx : 1..MaxIdx, sid : {NoSid}]
    \union [by : {"sid"}, length : {"long"}, idx : 1..MaxIdx, sid : Sids]

VARIABLES
    parent,     \* the parent seed
    scramble,   \* scramble_seed() of it, a fixed function revealed as it is used
    data,       \* each session's self.data
    dead,       \* sessions ended by SubSeedNonceRangeExceeded
    who,        \* the session whose request is being served, or NoSession
    req,        \* that request, or the last one
    adding,     \* the length being added
    nonce,      \* the nonce to be tried
    match,      \* match1: the long one added had the Seed ID asked for
    ans         \* the answer to the last request

vars == <<parent, scramble, data, dead, who, req, adding, nonce, match, ans>>

NoRequest == [by |-> "none", length |-> "long", idx |-> 1, sid |-> NoSid]

Answers == ([sid : Sids, idx : 1..MaxIdx, length : Length]) \union {NotFound}

TypeOK ==
    /\ parent \in Seeds
    /\ scramble \in [Length \X (1..MaxIdx) \X (0..MaxNonce) -> {Unasked} \union Seeds]
    /\ data \in [Sessions -> [Length -> Seq(Entry)]]
    /\ dead \subseteq Sessions
    /\ who \in Sessions \union {NoSession} /\ req \in Request \union {NoRequest}
    /\ adding \in Length /\ nonce \in 0..MaxNonce /\ match \in BOOLEAN
    /\ ans \in Answers

Init ==
    /\ parent \in Seeds
    /\ scramble = [q \in Length \X (1..MaxIdx) \X (0..MaxNonce) |-> Unasked]
    /\ data = [s \in Sessions |-> [l \in Length |-> <<>>]]
    /\ dead = {} /\ who = NoSession /\ req = NoRequest
    /\ adding = "long" /\ nonce = 0 /\ match = FALSE /\ ans = NotFound

----------------------------------------------------------------------------
SidsOf(list) == {list[k].sid : k \in DOMAIN list}

(* Mutant: a sub-seed is compared with those of its own length only.       *)
TakenByLength(s) == SidsOf(data[s][adding]) \union {SidOf(parent)}

(* Mutant: short ones do not matter as long as long ones are asked for.    *)
TakenAsAsked(s) ==
    SidsOf(data[s]["long"]) \union {SidOf(parent)} \union (IF req.length = "short" THEN SidsOf(data[s]["short"]) ELSE {})

Taken(s) == SidsOf(data[s]["long"]) \union SidsOf(data[s]["short"]) \union {SidOf(parent)}

(* Mutant: short sub-seeds are not looked at.                              *)
HasLong(d, sid) == sid \in SidsOf(d["long"])

Has(d, sid) == sid \in SidsOf(d["long"]) \union SidsOf(d["short"])

(* What both lookups answer once the data are there.                       *)
Answer(d, r) ==
    IF r.by = "sid" /\ ~Has(d, r.sid)
    THEN NotFound
    ELSE LET l == IF r.by = "idx" THEN r.length
                  ELSE IF r.sid \in SidsOf(d["long"]) THEN "long" ELSE "short"
             k == IF r.by = "idx" THEN r.idx
                  ELSE CHOOSE n \in DOMAIN d[l] : d[l][n].sid = r.sid
         IN  [sid |-> d[l][k].sid, idx |-> d[l][k].idx, length |-> l]

(* len(self) is the number of long sub-seeds.                              *)
Covered(s, r) ==
    \/ r.idx <= Len(data[s]["long"])
    \/ r.by = "sid" /\ Has(data[s], r.sid)

Ask(s, r) ==
    /\ who = NoSession /\ s \notin dead
    /\ req' = r
    /\ IF Covered(s, r)
       THEN ans' = Answer(data[s], r) /\ UNCHANGED <<who, adding, nonce, match>>
       ELSE who' = s /\ adding' = "long" /\ nonce' = 0 /\ match' = FALSE /\ UNCHANGED ans
    /\ UNCHANGED <<parent, scramble, data, dead>>

(* The loop variable of _generate()                                        *)
Idx(s) == Len(data[s]["long"]) + (IF adding = "long" THEN 1 ELSE 0)

Stop(found, idx) == adding = "short" /\ (found \/ idx = req.idx)

(* One turn of the loop of add_subseed(): the sub-seed is made and its ID  *)
(* compared with those of all sub-seeds so far and of the parent.          *)
Add(s, seed) ==
    LET sid == SidOf(seed)
        idx == Idx(s)
        found == match \/ (req.by = "sid" /\ sid = req.sid)
        d == [data[s] EXCEPT ![adding] = Append(@, [sid |-> sid, idx |-> idx, nonce |-> nonce])]
    IN  IF sid \in Taken(s)
        THEN /\ IF nonce < MaxNonce
                THEN nonce' = nonce + 1 /\ UNCHANGED <<dead, who>>
                ELSE dead' = dead \union {s} /\ who' = NoSession /\ UNCHANGED nonce
             /\ UNCHANGED <<data, adding, match, ans>>
        ELSE /\ data' = [data EXCEPT ![s] = d]
             /\ nonce' = 0 /\ match' = (found /\ adding = "long")
             /\ adding' = IF adding = "long" THEN "short" ELSE "long"
             /\ IF Stop(found, idx)
                THEN who' = NoSession /\ ans' = Answer(d, req)
                ELSE UNCHANGED <<who, ans>>
             /\ UNCHANGED dead

Try ==
    /\ who # NoSession
    /\ LET q == <<adding, Idx(who), nonce>> IN
       \E seed \in IF scramble[q] = Unasked THEN Seeds ELSE {scramble[q]} :
           /\ scramble' = [scramble EXCEPT ![q] = seed]
           /\ Add(who, seed)
    /\ UNCHANGED <<parent, req>>

Next == Try \/ \E s \in Sessions, r \in Request : Ask(s, r)

Spec == Init /\ [][Next]_vars

----------------------------------------------------------------------------
(* No two sub-seeds of a seed, long or short, have the same Seed ID, and   *)
(* none has the parent's: wallets, addresses and keys are told apart by    *)
(* Seed ID alone.                                                          *)
IdsUnique ==
    \A s \in Sessions :
        /\ ~Has(data[s], SidOf(parent))
        /\ \A l, m \in Length : \A j \in DOMAIN data[s][l], k \in DOMAIN data[s][m] :
              data[s][l][j].sid = data[s][m][k].sid => l = m /\ j = k

(* Two sessions find the same sub-seeds under the same indexes, whatever   *)
(* was asked for in either, in whatever order, by index or by ID, and      *)
(* wherever generation stopped on a match.                                 *)
SameInEverySession ==
    \A s, t \in Sessions, l \in Length :
        \A k \in DOMAIN data[s][l] \intersect DOMAIN data[t][l] : data[s][l][k] = data[t][l][k]

(* "Not found" is the truth for every session: there is no sub-seed with   *)
(* that ID up to the index searched.                                       *)
NotFoundIsTrue ==
    who = NoSession /\ req.by = "sid" /\ ans = NotFound /\ dead = {} =>
        \A s \in Sessions, l \in Length : \A k \in DOMAIN data[s][l] :
            k <= req.idx => data[s][l][k].sid # req.sid
=============================================================================
