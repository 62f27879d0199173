-------------------------- MODULE SubSeeds_proofs --------------------------
(***************************************************************************)
(* Proofs that the sub-seeds of a seed have distinct Seed IDs, that all    *)
(* sessions find the same ones, and that a search misses none; that shares *)
(* of a split rejoin, in whatever sessions they were made (SeedShares);    *)
(* and that no command for wallets, killed anywhere, loses the seed        *)
(* (Wallets); for every scrambling function, any Seed IDs, sessions,       *)
(* requests, wallets, passwords and ranges of indexes and nonces.          *)
(***************************************************************************)
EXTENDS MCSeeds, FiniteSetTheorems, WellFoundedInduction, TLAPS

Positions == Length \X (1..MaxIdx) \X (0..MaxNonce)

(* The IDs a sub-seed's may not be one of: those of all made before it.    *)
Before(s, l, k) ==
    {data[s]["long"][j].sid : j \in 1..(IF l = "long" THEN k - 1 ELSE k)}
    \union {data[s]["short"][j].sid : j \in 1..(k - 1)}
    \union {SidOf(parent)}

Typed ==
    /\ parent \in Seeds
    /\ scramble \in [Positions -> {Unasked} \union Seeds]
    /\ data \in [Sessions -> [Length -> Seq(Entry)]]
    /\ who \in Sessions \union {NoSession}
    /\ who # NoSession => req \in Request
    /\ adding \in Length /\ nonce \in 0..MaxNonce

(* Both lists are of one length, but for one being made.                   *)
Shape ==
    /\ \A s \in Sessions :
        \/ Len(data[s]["long"]) = Len(data[s]["short"])
        \/ /\ Len(data[s]["long"]) = Len(data[s]["short"]) + 1
           /\ s \in dead \/ (who = s /\ adding = "short")
    /\ who # NoSession =>
        /\ who \notin dead
        /\ Idx(who) \in 1..req.idx
        /\ adding = "short" => Len(data[who]["long"]) = Len(data[who]["short"]) + 1

Asked(l, k, n) == scramble[<<l, k, n>>] # Unasked

SidAt(l, k, n) == SidOf(scramble[<<l, k, n>>])

(* Each nonce below an entry's was tried and its ID was taken.             *)
Rightly(s, l, k) ==
    LET e == data[s][l][k] IN
    /\ Asked(l, k, e.nonce) /\ SidAt(l, k, e.nonce) = e.sid
    /\ e.idx = k
    /\ e.sid \notin Before(s, l, k)
    /\ \A n \in 0..(e.nonce - 1) : Asked(l, k, n) /\ SidAt(l, k, n) \in Before(s, l, k)

Entries == \A s \in Sessions, l \in Length : \A k \in DOMAIN data[s][l] : Rightly(s, l, k)

Tried ==
    who # NoSession =>
        \A n \in 0..(nonce - 1) : Asked(adding, Idx(who), n) /\ SidAt(adding, Idx(who), n) \in Taken(who)

SeedInv == Typed /\ Shape /\ Entries /\ Tried /\ SameInEverySession

----------------------------------------------------------------------------
(* What Append does.                                                      *)
LEMMA Appended ==
    ASSUME NEW S, NEW seq \in Seq(S), NEW x \in S
    PROVE  /\ Append(seq, x) \in Seq(S)
           /\ Len(Append(seq, x)) = Len(seq) + 1
           /\ DOMAIN Append(seq, x) = 1..(Len(seq) + 1)
           /\ Append(seq, x)[Len(seq) + 1] = x
           /\ \A k \in DOMAIN seq : k \in DOMAIN Append(seq, x) /\ Append(seq, x)[k] = seq[k]
  OBVIOUS

(* Entry k of a list is of the index, ID and nonce types.                  *)
LEMMA EntryTypes ==
    ASSUME Typed, NEW s \in Sessions, NEW l \in Length, NEW k \in DOMAIN data[s][l]
    PROVE  /\ k \in Nat \ {0} /\ k <= Len(data[s][l])
           /\ data[s][l][k] \in Entry
<1>1. data[s][l] \in Seq(Entry)
  BY DEF Typed
<1> QED
  BY <1>1

(* The IDs compared with are those of all sub-seeds made before.           *)
LEMMA TakenIsBefore ==
    ASSUME SeedInv, who # NoSession
    PROVE  Taken(who) = Before(who, adding, Idx(who))
<1> DEFINE a == Len(data[who]["long"])
           b == Len(data[who]["short"])
<1>1. who \in Sessions /\ adding \in Length
  BY DEF SeedInv, Typed
<1>2. /\ data[who]["long"] \in Seq(Entry) /\ data[who]["short"] \in Seq(Entry)
  BY <1>1 DEF SeedInv, Typed, Length
<1>3. /\ a \in Nat /\ b \in Nat
      /\ DOMAIN data[who]["long"] = 1..a /\ DOMAIN data[who]["short"] = 1..b
  BY <1>2
<1>4. CASE adding = "long"
  <2>1. a = b /\ Idx(who) = a + 1
    BY <1>1, <1>4 DEF SeedInv, Shape, Idx
  <2> QED
    BY <1>3, <1>4, <2>1 DEF Taken, Before, SidsOf
<1>5. CASE adding = "short"
  <2>1. a = b + 1 /\ Idx(who) = a
    BY <1>1, <1>3, <1>5 DEF SeedInv, Shape, Idx
  <2> QED
    BY <1>3, <1>5, <2>1 DEF Taken, Before, SidsOf
<1> QED
  BY <1>1, <1>4, <1>5 DEF Length

(* What was made before an entry is there, and stays what it is.           *)
LEMMA EarlierThere ==
    ASSUME Typed, Shape, NEW s \in Sessions, NEW l \in Length, NEW k \in DOMAIN data[s][l]
    PROVE  /\ \A j \in 1..(IF l = "long" THEN k - 1 ELSE k) : j \in DOMAIN data[s]["long"]
           /\ \A j \in 1..(k - 1) : j \in DOMAIN data[s]["short"]
<1>1. data[s]["long"] \in Seq(Entry) /\ data[s]["short"] \in Seq(Entry)
  BY DEF Typed, Length
<1>2. \/ Len(data[s]["long"]) = Len(data[s]["short"])
      \/ Len(data[s]["long"]) = Len(data[s]["short"]) + 1
  BY DEF Shape
<1>3. l = "long" \/ l = "short"
  BY DEF Length
<1> QED
  BY <1>1, <1>2, <1>3

(* Two sessions that agree have made the same before any entry of one that *)
(* the other has come to.                                                  *)
LEMMA SameBefore ==
    ASSUME SeedInv, who # NoSession,
           NEW t \in Sessions, Idx(who) \in DOMAIN data[t][adding]
    PROVE  Before(t, adding, Idx(who)) = Before(who, adding, Idx(who))
<1> DEFINE k == Idx(who)
           a == Len(data[who]["long"])
           b == Len(data[who]["short"])
<1>1. who \in Sessions /\ adding \in Length
  BY DEF SeedInv, Typed
<1>2. /\ \A j \in 1..(IF adding = "long" THEN k - 1 ELSE k) : j \in DOMAIN data[t]["long"]
      /\ \A j \in 1..(k - 1) : j \in DOMAIN data[t]["short"]
  BY <1>1, EarlierThere DEF SeedInv
<1>3. data[who]["long"] \in Seq(Entry) /\ data[who]["short"] \in Seq(Entry)
  BY <1>1 DEF SeedInv, Typed, Length
<1>4. /\ \A j \in 1..(IF adding = "long" THEN k - 1 ELSE k) : j \in DOMAIN data[who]["long"]
      /\ \A j \in 1..(k - 1) : j \in DOMAIN data[who]["short"]
  <2>1. CASE adding = "long"
    BY <1>1, <1>3, <2>1 DEF SeedInv, Shape, Idx
  <2>2. CASE adding = "short"
    BY <1>1, <1>3, <2>2 DEF SeedInv, Shape, Idx
  <2> QED
    BY <1>1, <2>1, <2>2 DEF Length
<1>5. /\ \A j \in 1..(IF adding = "long" THEN k - 1 ELSE k) : data[t]["long"][j] = data[who]["long"][j]
      /\ \A j \in 1..(k - 1) : data[t]["short"][j] = data[who]["short"][j]
  BY <1>1, <1>2, <1>4 DEF SeedInv, SameInEverySession, Length
<1> QED
  BY <1>5 DEF Before

----------------------------------------------------------------------------
(* With no sub-seed made and no value known there is nothing to keep.      *)
LEMMA InitInv == Init => SeedInv
<1> SUFFICES ASSUME Init PROVE SeedInv
  OBVIOUS
<1>1. /\ data = [s \in Sessions |-> [l \in Length |-> <<>>]]
      /\ who = NoSession
  BY DEF Init
<1>2. Typed
  <2>1. data \in [Sessions -> [Length -> Seq(Entry)]]
    BY <1>1
  <2>2. scramble \in [Positions -> {Unasked} \union Seeds]
    BY DEF Init, Positions
  <2> QED
    BY <1>1, <2>1, <2>2, SubSeedAssumption DEF Init, Typed, Length
<1>3. \A s \in Sessions, l \in Length : data[s][l] = <<>>
  BY <1>1
<1>4. Shape
  BY <1>1, <1>3 DEF Shape, Length
<1>5. Entries /\ SameInEverySession
  BY <1>3 DEF Entries, SameInEverySession
<1>6. Tried
  BY <1>1 DEF Tried
<1> QED
  BY <1>2, <1>4, <1>5, <1>6 DEF SeedInv

(* While neither the lists nor what is known of the seeds change, what has *)
(* been said of their entries holds.                                       *)
LEMMA EntriesStay ==
    ASSUME SeedInv, UNCHANGED <<parent, scramble, data>>
    PROVE  Entries' /\ SameInEverySession'
<1>1. SameInEverySession'
  BY DEF SeedInv, SameInEverySession
<1>2. ASSUME NEW s \in Sessions, NEW l \in Length, NEW k \in DOMAIN data[s][l]
      PROVE  Rightly(s, l, k)'
  <2>1. Rightly(s, l, k)
    BY DEF SeedInv, Entries
  <2>2. Before(s, l, k)' = Before(s, l, k)
    BY DEF Before
  <2>3. \A n : Asked(l, k, n)' = Asked(l, k, n) /\ SidAt(l, k, n)' = SidAt(l, k, n)
    BY DEF Asked, SidAt
  <2>4. data[s][l][k]' = data[s][l][k]
    OBVIOUS
  <2> QED
    BY <2>1, <2>2, <2>3, <2>4 DEF Rightly
<1>3. Entries'
  BY <1>2 DEF Entries
<1> QED
  BY <1>1, <1>3

(* A request starts the loop only if there is something to generate.       *)
LEMMA AskKeeps ==
    ASSUME SeedInv, NEW s \in Sessions, NEW r \in Request, Ask(s, r)
    PROVE  SeedInv'
<1>1. UNCHANGED <<parent, scramble, data, dead>>
  BY DEF Ask
<1>2. Entries' /\ SameInEverySession'
  BY <1>1, EntriesStay
<1>3. CASE Covered(s, r)
  <2>1. who' = NoSession
    BY <1>3 DEF Ask
  <2>2. Typed'
    BY <1>1, <1>3, <2>1 DEF SeedInv, Typed, Ask
  <2>3. Shape'
    BY <1>1, <2>1, SubSeedAssumption DEF SeedInv, Shape, Ask
  <2> QED
    BY <1>2, <2>1, <2>2, <2>3 DEF SeedInv, Tried
<1>4. CASE ~Covered(s, r)
  <2>1. who' = s /\ req' = r /\ adding' = "long" /\ nonce' = 0 /\ s \notin dead /\ who = NoSession
    BY <1>4 DEF Ask
  <2>2. Typed'
    BY <1>1, <2>1, SubSeedAssumption DEF SeedInv, Typed, Length
  <2>3. r.idx \in Nat /\ Len(data[s]["long"]) \in Nat /\ Len(data[s]["long"]) < r.idx
    <3>1. data[s]["long"] \in Seq(Entry)
      BY DEF SeedInv, Typed, Length
    <3>2. r.idx \in 1..MaxIdx
      BY DEF Request
    <3> QED
      BY <1>4, <3>1, <3>2, SubSeedAssumption DEF Covered
  <2>4. Idx(who)' = Len(data[s]["long"]) + 1
    BY <1>1, <2>1 DEF Idx
  <2>5. Shape'
    BY <1>1, <2>1, <2>3, <2>4, SubSeedAssumption DEF SeedInv, Shape
  <2> QED
    BY <1>2, <2>1, <2>2, <2>5 DEF SeedInv, Tried
<1> QED
  BY <1>3, <1>4

(* A sub-seed with an ID that is taken: the next nonce, or the end.        *)
LEMMA CollisionKeeps ==
    ASSUME SeedInv, who # NoSession, UNCHANGED <<parent, req>>,
           NEW seed \in Seeds,
           scramble[<<adding, Idx(who), nonce>>] \in {Unasked, seed},
           scramble' = [scramble EXCEPT ![<<adding, Idx(who), nonce>>] = seed],
           Add(who, seed), SidOf(seed) \in Taken(who)
    PROVE  SeedInv'
<1> DEFINE q == <<adding, Idx(who), nonce>>
<1>1. /\ UNCHANGED <<data, adding>>
      /\ \/ nonce < MaxNonce /\ nonce' = nonce + 1 /\ UNCHANGED <<dead, who>>
         \/ dead' = dead \union {who} /\ who' = NoSession /\ UNCHANGED nonce
  BY DEF Add
<1>2. who \in Sessions /\ adding \in Length /\ nonce \in 0..MaxNonce /\ MaxNonce \in Nat
  BY SubSeedAssumption DEF SeedInv, Typed
<1>3. scramble' \in [Positions -> {Unasked} \union Seeds]
  BY DEF SeedInv, Typed
<1>4. \A l, k, n : <<l, k, n>> \in Positions /\ Asked(l, k, n) => Asked(l, k, n)' /\ SidAt(l, k, n)' = SidAt(l, k, n)
  BY DEF SeedInv, Typed, Asked, SidAt
<1>5. Typed'
  BY <1>1, <1>2, <1>3 DEF SeedInv, Typed
<1>6. Shape'
  BY <1>1, <1>2 DEF SeedInv, Shape, Idx
<1>7. SameInEverySession'
  BY <1>1 DEF SeedInv, SameInEverySession
<1>8. Idx(who) \in 1..MaxIdx
  <2>1. req.idx \in 1..MaxIdx
    BY DEF SeedInv, Typed, Request
  <2> QED
    BY <2>1, SubSeedAssumption DEF SeedInv, Shape
<1>9. Entries'
  <2> SUFFICES ASSUME NEW t \in Sessions, NEW l \in Length, NEW k \in DOMAIN data[t][l]
               PROVE  Rightly(t, l, k)'
    BY <1>1 DEF Entries
  <2>1. Rightly(t, l, k)
    BY DEF SeedInv, Entries
  <2>2. data[t][l][k] \in Entry
    BY EntryTypes DEF SeedInv
  <2>3. k \in 1..MaxIdx /\ data[t][l][k].nonce \in 0..MaxNonce
    BY <2>1, <2>2 DEF Rightly, Entry
  <2>4. Before(t, l, k)' = Before(t, l, k)
    BY <1>1 DEF Before
  <2>5. \A n \in 0..data[t][l][k].nonce : <<l, k, n>> \in Positions
    BY <2>3, <1>2 DEF Positions
  <2>6. data[t][l][k]' = data[t][l][k]
    BY <1>1
  <2>7. \A n \in 0..data[t][l][k].nonce :
            Asked(l, k, n) => Asked(l, k, n)' /\ SidAt(l, k, n)' = SidAt(l, k, n)
    BY <1>4, <2>5
  <2> QED
    BY <2>1, <2>3, <2>4, <2>6, <2>7 DEF Rightly
<1>10. Tried'
  <2> SUFFICES ASSUME who' # NoSession, NEW n \in 0..(nonce' - 1)
               PROVE  Asked(adding, Idx(who), n)' /\ SidAt(adding, Idx(who), n)' \in Taken(who)'
    BY DEF Tried
  <2>1. nonce' = nonce + 1 /\ who' = who
    BY <1>1
  <2>2. Idx(who)' = Idx(who) /\ Taken(who)' = Taken(who)
    BY <1>1, <2>1 DEF Idx, Taken, SidsOf
  <2>3. CASE n = nonce
    <3>1. <<adding, Idx(who), nonce>> \in Positions
      BY <1>2, <1>8 DEF Positions
    <3>2. scramble'[q] = seed /\ seed # Unasked
      BY <3>1, SubSeedAssumption DEF SeedInv, Typed
    <3> QED
      BY <1>1, <2>1, <2>2, <2>3, <3>2 DEF Asked, SidAt
  <2>4. CASE n # nonce
    <3>1. n \in 0..(nonce - 1)
      BY <1>2, <2>1, <2>4
    <3>2. <<adding, Idx(who), n>> \in Positions
      BY <1>2, <1>8, <3>1 DEF Positions
    <3>3. Asked(adding, Idx(who), n) /\ SidAt(adding, Idx(who), n) \in Taken(who)
      BY <3>1 DEF SeedInv, Tried
    <3>4. Asked(adding, Idx(who), n)' /\ SidAt(adding, Idx(who), n)' = SidAt(adding, Idx(who), n)
      <4>1. /\ scramble'[<<adding, Idx(who), n>>] = scramble[<<adding, Idx(who), n>>]
        BY <1>4, <3>2, <2>4 DEF SeedInv, Typed
      <4> QED
        BY <1>1, <2>2, <3>3, <4>1 DEF Asked, SidAt
    <3> QED
      BY <2>2, <3>3, <3>4
  <2> QED
    BY <2>3, <2>4
<1> QED
  BY <1>5, <1>6, <1>7, <1>9, <1>10 DEF SeedInv

(* A sub-seed with a new ID joins the list.                                *)
LEMMA AddedKeeps ==
    ASSUME SeedInv, who # NoSession, UNCHANGED <<parent, req>>,
           NEW seed \in Seeds,
           scramble[<<adding, Idx(who), nonce>>] \in {Unasked, seed},
           scramble' = [scramble EXCEPT ![<<adding, Idx(who), nonce>>] = seed],
           Add(who, seed), SidOf(seed) \notin Taken(who)
    PROVE  SeedInv'
<1> DEFINE q == <<adding, Idx(who), nonce>>
           e == [sid |-> SidOf(seed), idx |-> Idx(who), nonce |-> nonce]
           a == Len(data[who]["long"])
           b == Len(data[who]["short"])
<1>1. /\ data' = [data EXCEPT ![who] = [data[who] EXCEPT ![adding] = Append(@, e)]]
      /\ nonce' = 0 /\ adding' = (IF adding = "long" THEN "short" ELSE "long")
      /\ UNCHANGED dead
  BY DEF Add
<1>2. \/ who' = NoSession /\ adding = "short"
      \/ who' = who /\ (adding = "short" => Idx(who) # req.idx)
  BY DEF Add, Stop
<1>3. who \in Sessions /\ adding \in Length /\ nonce \in 0..MaxNonce /\ MaxNonce \in Nat
  BY SubSeedAssumption DEF SeedInv, Typed
<1>4. /\ data[who]["long"] \in Seq(Entry) /\ data[who]["short"] \in Seq(Entry)
      /\ a \in Nat /\ b \in Nat
  BY <1>3 DEF SeedInv, Typed, Length
<1>5. req.idx \in 1..MaxIdx /\ MaxIdx \in Nat /\ Idx(who) \in 1..req.idx /\ Idx(who) \in 1..MaxIdx
  <2>1. req.idx \in 1..MaxIdx
    BY DEF SeedInv, Typed, Request
  <2> QED
    BY <2>1, SubSeedAssumption DEF SeedInv, Shape
<1>6. e \in Entry
  BY <1>3, <1>5, SubSeedAssumption DEF Entry
<1>7. Len(data[who][adding]) + 1 = Idx(who) /\ data[who][adding] \in Seq(Entry)
  <2>1. CASE adding = "long"
    BY <1>3, <1>4, <2>1 DEF SeedInv, Shape, Idx
  <2>2. CASE adding = "short"
    BY <1>3, <1>4, <2>2 DEF SeedInv, Shape, Idx
  <2> QED
    BY <1>3, <2>1, <2>2 DEF Length
<1>8. /\ data' \in [Sessions -> [Length -> Seq(Entry)]]
      /\ data'[who][adding] = Append(data[who][adding], e)
      /\ \A t \in Sessions, l \in Length : t # who \/ l # adding => data'[t][l] = data[t][l]
  BY <1>1, <1>3, <1>6, <1>7 DEF SeedInv, Typed
<1>9. \A t \in Sessions, l \in Length : \A k \in DOMAIN data[t][l] :
          k \in DOMAIN data'[t][l] /\ data'[t][l][k] = data[t][l][k]
  <2> HIDE DEF e
  <2>1. \A k \in DOMAIN data[who][adding] :
            /\ k \in DOMAIN Append(data[who][adding], e)
            /\ Append(data[who][adding], e)[k] = data[who][adding][k]
    BY <1>6, <1>7, Appended
  <2> QED
    BY <1>3, <1>8, <2>1
<1>10. /\ DOMAIN data'[who][adding] = 1..Idx(who)
       /\ data'[who][adding][Idx(who)] = e
       /\ Len(data'[who][adding]) = Idx(who)
  <2> HIDE DEF e
  <2>1. /\ Len(Append(data[who][adding], e)) = Idx(who)
        /\ DOMAIN Append(data[who][adding], e) = 1..Idx(who)
        /\ Append(data[who][adding], e)[Idx(who)] = e
    BY <1>6, <1>7, Appended
  <2> QED
    BY <1>8, <2>1
<1>11. scramble' \in [Positions -> {Unasked} \union Seeds]
  BY DEF SeedInv, Typed
<1>12. \A l, k, n : <<l, k, n>> \in Positions /\ Asked(l, k, n) => Asked(l, k, n)' /\ SidAt(l, k, n)' = SidAt(l, k, n)
  BY DEF SeedInv, Typed, Asked, SidAt
<1>13. Typed'
  BY <1>1, <1>2, <1>3, <1>8, <1>11 DEF SeedInv, Typed, Length
<1>14. Shape'
  <2>1. CASE adding = "long"
    <3>1. a = b /\ Idx(who) = a + 1
      BY <1>3, <2>1 DEF SeedInv, Shape, Idx
    <3>2. Len(data'[who]["long"]) = a + 1 /\ Len(data'[who]["short"]) = b /\ adding' = "short" /\ who' = who
      BY <1>1, <1>2, <1>3, <1>8, <1>10, <2>1, <3>1 DEF Length
    <3>3. Idx(who)' = a + 1
      BY <1>4, <3>2 DEF Idx
    <3>4. \A t \in Sessions \ {who} : data'[t]["long"] = data[t]["long"] /\ data'[t]["short"] = data[t]["short"]
      BY <1>8 DEF Length
    <3> QED
      BY <1>1, <1>3, <1>4, <1>5, <3>1, <3>2, <3>3, <3>4 DEF SeedInv, Shape
  <2>2. CASE adding = "short"
    <3>1. a = b + 1 /\ Idx(who) = a
      BY <1>3, <1>4, <2>2 DEF SeedInv, Shape, Idx
    <3>2. Len(data'[who]["long"]) = a /\ Len(data'[who]["short"]) = a /\ adding' = "long"
      BY <1>1, <1>3, <1>8, <1>10, <2>2, <3>1 DEF Length
    <3>3. \A t \in Sessions \ {who} : data'[t]["long"] = data[t]["long"] /\ data'[t]["short"] = data[t]["short"]
      BY <1>8 DEF Length
    <3>4. who' # NoSession => who' = who /\ Idx(who)' = a + 1 /\ a # req.idx
      BY <1>2, <2>2, <3>1, <3>2 DEF Idx
    <3>5. a \in 1..req.idx /\ req'.idx = req.idx /\ a \in Int /\ req.idx \in Int
      BY <1>4, <1>5, <3>1
    <3>6. who' # NoSession => Idx(who)' \in 1..req'.idx
      BY <3>4, <3>5
    <3> QED
      BY <1>1, <1>2, <1>3, <2>2, <3>2, <3>3, <3>4, <3>6, SubSeedAssumption DEF SeedInv, Shape
  <2> QED
    BY <1>3, <2>1, <2>2 DEF Length
<1>15. \A t \in Sessions, l \in Length : \A k \in DOMAIN data[t][l] : Before(t, l, k)' = Before(t, l, k)
  <2> SUFFICES ASSUME NEW t \in Sessions, NEW l \in Length, NEW k \in DOMAIN data[t][l]
               PROVE  Before(t, l, k)' = Before(t, l, k)
    OBVIOUS
  <2>1. /\ \A j \in 1..(IF l = "long" THEN k - 1 ELSE k) : data'[t]["long"][j] = data[t]["long"][j]
        /\ \A j \in 1..(k - 1) : data'[t]["short"][j] = data[t]["short"][j]
    BY <1>9, EarlierThere DEF SeedInv, Length
  <2> QED
    BY <2>1 DEF Before
<1>16. PICK s \in Sessions, l \in Length, k \in Nat : s = who /\ l = adding /\ k = Idx(who)
  BY <1>3, <1>5
<1>17. Before(s, l, k)' = Taken(who)
  <2>1. Taken(who) = Before(s, l, k)
    BY <1>16, TakenIsBefore
  <2>2. CASE l = "long"
    <3>1. a = b /\ k = a + 1
      BY <1>16, <2>2 DEF SeedInv, Shape, Idx
    <3>2. /\ \A j \in 1..(k - 1) : data'[s]["long"][j] = data[s]["long"][j]
          /\ \A j \in 1..(k - 1) : data'[s]["short"][j] = data[s]["short"][j]
      BY <1>4, <1>9, <1>16, <3>1 DEF Length
    <3> QED
      BY <2>1, <2>2, <3>2 DEF Before
  <2>3. CASE l = "short"
    <3>1. a = b + 1 /\ k = a
      BY <1>4, <1>16, <2>3 DEF SeedInv, Shape, Idx
    <3>2. \A j \in 1..k : data'[s]["long"][j] = data[s]["long"][j]
      <4>1. \A j \in 1..k : j \in 1..a
        BY <3>1
      <4> QED
        BY <1>4, <1>9, <1>16, <4>1 DEF Length
    <3>3. \A j \in 1..(k - 1) : data'[s]["short"][j] = data[s]["short"][j]
      <4>1. \A j \in 1..(k - 1) : j \in 1..b
        BY <1>4, <3>1
      <4> QED
        BY <1>4, <1>9, <1>16, <4>1 DEF Length
    <3> QED
      BY <2>1, <2>3, <3>2, <3>3 DEF Before
  <2> QED
    BY <2>2, <2>3 DEF Length
<1>18. Entries'
  <2> SUFFICES ASSUME NEW t \in Sessions, NEW m \in Length, NEW i \in DOMAIN data'[t][m]
               PROVE  Rightly(t, m, i)'
    BY DEF Entries
  <2>1. CASE i \in DOMAIN data[t][m]
    <3>1. Rightly(t, m, i)
      BY <2>1 DEF SeedInv, Entries
    <3>2. i \in 1..MaxIdx /\ data[t][m][i].nonce \in 0..MaxNonce
      <4>1. data[t][m][i] \in Entry
        BY <2>1, EntryTypes DEF SeedInv
      <4> QED
        BY <3>1, <4>1 DEF Rightly, Entry
    <3>3. Before(t, m, i)' = Before(t, m, i) /\ data[t][m][i]' = data[t][m][i]
      BY <1>9, <1>15, <2>1
    <3>4. \A n \in 0..data[t][m][i].nonce :
              Asked(m, i, n) => Asked(m, i, n)' /\ SidAt(m, i, n)' = SidAt(m, i, n)
      <4>1. \A n \in 0..data[t][m][i].nonce : <<m, i, n>> \in Positions
        BY <1>3, <3>2 DEF Positions
      <4> QED
        BY <1>12, <4>1
    <3> QED
      BY <3>1, <3>2, <3>3, <3>4 DEF Rightly
  <2>2. CASE i \notin DOMAIN data[t][m]
    <3>1. t = s /\ m = l /\ i = k
      <4>1. t = who /\ m = adding
        BY <1>8, <2>2
      <4>2. DOMAIN data[who][adding] = 1..(Idx(who) - 1)
        BY <1>5, <1>7
      <4> QED
        BY <1>5, <1>10, <1>16, <2>2, <4>1, <4>2
    <3>2. data'[t][m][i] = e
      BY <1>10, <1>16, <3>1
    <3>3. \A n \in 0..nonce : <<m, i, n>> \in Positions
      BY <1>3, <1>5, <1>16, <3>1 DEF Positions
    <3>4. scramble'[<<m, i, nonce>>] = seed /\ seed # Unasked
      BY <1>3, <1>16, <3>1, <3>3, SubSeedAssumption DEF SeedInv, Typed
    <3>5. \A n \in 0..(nonce - 1) : Asked(m, i, n) /\ SidAt(m, i, n) \in Taken(who)
      BY <1>16, <3>1 DEF SeedInv, Tried
    <3>6. \A n \in 0..(nonce - 1) : Asked(m, i, n)' /\ SidAt(m, i, n)' \in Taken(who)
      <4> SUFFICES ASSUME NEW n \in 0..(nonce - 1) PROVE Asked(m, i, n)' /\ SidAt(m, i, n)' \in Taken(who)
        OBVIOUS
      <4>1. <<m, i, n>> \in Positions
        BY <1>3, <3>3
      <4>2. Asked(m, i, n) /\ SidAt(m, i, n) \in Taken(who)
        BY <3>5
      <4> QED
        BY <1>12, <4>1, <4>2
    <3>7. Before(t, m, i)' = Taken(who)
      BY <1>17, <3>1
    <3>8. e.nonce = nonce /\ e.sid = SidOf(seed) /\ e.idx = i
      BY <1>16, <3>1
    <3>9. scramble'[<<m, i, e.nonce>>] # Unasked /\ SidOf(scramble'[<<m, i, e.nonce>>]) = e.sid
      BY <3>4, <3>8
    <3> HIDE DEF e
    <3> QED
      BY <3>2, <3>6, <3>7, <3>8, <3>9 DEF Rightly, Asked, SidAt
  <2> QED
    BY <2>1, <2>2
<1>19. \A t \in Sessions : t # who /\ k \in DOMAIN data[t][l] => data[t][l][k] = e
  <2> SUFFICES ASSUME NEW t \in Sessions, t # who, k \in DOMAIN data[t][l]
               PROVE  data[t][l][k] = e
    OBVIOUS
  <2> DEFINE f == data[t][l][k]
  <2>1. Before(t, l, k) = Taken(who)
    BY <1>16, TakenIsBefore, SameBefore
  <2>2. f \in Entry /\ f.nonce \in 0..MaxNonce /\ f.nonce \in Nat
    BY <1>3, EntryTypes DEF SeedInv, Entry
  <2>3. /\ Asked(l, k, f.nonce) /\ SidAt(l, k, f.nonce) = f.sid
        /\ f.idx = k
        /\ f.sid \notin Taken(who)
        /\ \A n \in 0..(f.nonce - 1) : Asked(l, k, n) /\ SidAt(l, k, n) \in Taken(who)
    BY <2>1 DEF SeedInv, Entries, Rightly
  <2>4. \A n \in 0..(nonce - 1) : Asked(l, k, n) /\ SidAt(l, k, n) \in Taken(who)
    BY <1>16 DEF SeedInv, Tried
  <2>5. ~(f.nonce < nonce)
    BY <1>3, <2>2, <2>3, <2>4
  <2>6. ~(nonce < f.nonce)
    <3> SUFFICES ASSUME nonce < f.nonce PROVE FALSE
      OBVIOUS
    <3>1. Asked(l, k, nonce) /\ SidAt(l, k, nonce) \in Taken(who)
      BY <1>3, <2>2, <2>3
    <3>2. scramble[q] = seed
      BY <1>16, <3>1 DEF Asked
    <3> QED
      BY <1>16, <3>1, <3>2 DEF SidAt
  <2>7. f.nonce = nonce
    BY <1>3, <2>2, <2>5, <2>6
  <2>8. f.sid = SidOf(seed)
    <3>1. scramble[q] = seed
      BY <1>16, <2>3, <2>7 DEF Asked
    <3> QED
      BY <1>16, <2>3, <2>7, <3>1 DEF SidAt
  <2>9. f = [sid |-> f.sid, idx |-> f.idx, nonce |-> f.nonce]
    BY <2>2 DEF Entry
  <2> QED
    BY <1>16, <2>3, <2>7, <2>8, <2>9
<1>20. SameInEverySession'
  <2> SUFFICES ASSUME NEW t \in Sessions, NEW u \in Sessions, NEW m \in Length,
                      NEW i \in DOMAIN data'[t][m] \intersect DOMAIN data'[u][m]
               PROVE  data'[t][m][i] = data'[u][m][i]
    BY DEF SameInEverySession
  <2>1. \A v \in Sessions : i \in DOMAIN data'[v][m] =>
            \/ i \in DOMAIN data[v][m] /\ data'[v][m][i] = data[v][m][i]
            \/ v = s /\ m = l /\ i = k /\ data'[v][m][i] = e
    <3> SUFFICES ASSUME NEW v \in Sessions, i \in DOMAIN data'[v][m], i \notin DOMAIN data[v][m]
                 PROVE  v = s /\ m = l /\ i = k /\ data'[v][m][i] = e
      BY <1>9
    <3>1. v = who /\ m = adding
      BY <1>8
    <3>2. DOMAIN data[who][adding] = 1..(Idx(who) - 1)
      BY <1>5, <1>7
    <3>3. i = k
      BY <1>5, <1>10, <1>16, <3>1, <3>2
    <3> QED
      BY <1>10, <1>16, <3>1, <3>3
  <2>2. i \in DOMAIN data[t][m] /\ i \in DOMAIN data[u][m] => data[t][m][i] = data[u][m][i]
    BY DEF SeedInv, SameInEverySession
  <2> HIDE DEF e
  <2>3. \A v \in Sessions : i \in DOMAIN data[v][m] /\ m = l /\ i = k /\ v # s => data[v][m][i] = e
    BY <1>16, <1>19
  <2>4. \A v \in Sessions : v = s /\ m = l /\ i = k => i \notin DOMAIN data[v][m]
    BY <1>5, <1>7, <1>16
  <2> QED
    BY <2>1, <2>2, <2>3, <2>4
<1>21. Tried'
  BY <1>1 DEF Tried
<1> QED
  BY <1>13, <1>14, <1>18, <1>20, <1>21 DEF SeedInv

----------------------------------------------------------------------------
(* Every step of every session keeps the invariant.                        *)
LEMMA NextInv == SeedInv /\ [Next]_vars => SeedInv'
<1> SUFFICES ASSUME SeedInv, [Next]_vars PROVE SeedInv'
  OBVIOUS
<1>1. CASE Try
  <2> DEFINE q == <<adding, Idx(who), nonce>>
  <2>1. /\ who # NoSession
        /\ UNCHANGED <<parent, req>>
    BY <1>1 DEF Try
  <2>2. PICK seed \in IF scramble[q] = Unasked THEN Seeds ELSE {scramble[q]} :
            scramble' = [scramble EXCEPT ![q] = seed] /\ Add(who, seed)
    BY <1>1 DEF Try
  <2>3. q \in Positions
    <3>1. req.idx \in 1..MaxIdx
      BY <2>1 DEF SeedInv, Typed, Request
    <3>2. Idx(who) \in 1..MaxIdx
      BY <2>1, <3>1, SubSeedAssumption DEF SeedInv, Shape
    <3> QED
      BY <3>2 DEF SeedInv, Typed, Positions
  <2>4. seed \in Seeds /\ scramble[q] \in {Unasked, seed}
    BY <2>2, <2>3 DEF SeedInv, Typed
  <2>5. CASE SidOf(seed) \in Taken(who)
    BY <2>1, <2>2, <2>4, <2>5, CollisionKeeps
  <2>6. CASE SidOf(seed) \notin Taken(who)
    BY <2>1, <2>2, <2>4, <2>6, AddedKeeps
  <2> QED
    BY <2>5, <2>6
<1>2. CASE \E s \in Sessions, r \in Request : Ask(s, r)
  BY <1>2, AskKeeps
<1>3. CASE UNCHANGED vars
  <2>1. UNCHANGED <<parent, scramble, data, dead, who, req, adding, nonce>>
    BY <1>3 DEF vars
  <2>2. Typed'
    BY <2>1 DEF SeedInv, Typed
  <2>3. Shape'
    BY <2>1 DEF SeedInv, Shape, Idx
  <2>4. Entries' /\ SameInEverySession'
    BY <2>1, EntriesStay
  <2>5. Tried'
    BY <2>1 DEF SeedInv, Tried, Asked, SidAt, Idx, Taken, SidsOf
  <2> QED
    BY <2>2, <2>3, <2>4, <2>5 DEF SeedInv
<1> QED
  BY <1>1, <1>2, <1>3 DEF Next

(* So it holds of all reachable states.                                    *)
LEMMA Invariance == Spec => []SeedInv
<1> QED
  BY InitInv, NextInv, PTL DEF Spec

(* Every session finds the same sub-seeds, whatever it has asked for: no   *)
(* sub-seed depends on what add_subseed() was called for.                  *)
THEOREM SameForEver == Spec => []SameInEverySession
<1>1. SeedInv => SameInEverySession
  BY DEF SeedInv
<1> QED
  BY <1>1, Invariance, PTL

(* All Seed IDs of a seed's sub-seeds are distinct, and not the seed's.    *)
THEOREM IdsDistinct == Spec => []IdsUnique
<1>1. SeedInv => IdsUnique
  <2> SUFFICES ASSUME SeedInv, NEW s \in Sessions
               PROVE  /\ ~Has(data[s], SidOf(parent))
                      /\ \A l, m \in Length : \A j \in DOMAIN data[s][l], k \in DOMAIN data[s][m] :
                            data[s][l][j].sid = data[s][m][k].sid => l = m /\ j = k
    BY DEF IdsUnique
  <2>1. \A l \in Length : \A k \in DOMAIN data[s][l] :
            data[s][l][k].sid \notin Before(s, l, k) /\ k \in Nat \ {0}
    BY EntryTypes DEF SeedInv, Entries, Rightly
  <2>2. ~Has(data[s], SidOf(parent))
    BY <2>1 DEF Has, SidsOf, Before, Length
  <2>3. ASSUME NEW l \in Length, NEW m \in Length, NEW j \in DOMAIN data[s][l], NEW k \in DOMAIN data[s][m],
               j < k \/ (j = k /\ l = "long" /\ m = "short")
        PROVE  data[s][l][j].sid \in Before(s, m, k)
    BY <2>1, <2>3 DEF Before, Length
  <2> SUFFICES ASSUME NEW l \in Length, NEW m \in Length, NEW j \in DOMAIN data[s][l], NEW k \in DOMAIN data[s][m],
                      data[s][l][j].sid = data[s][m][k].sid
               PROVE  l = m /\ j = k
    BY <2>2
  <2>4. ~(j < k) /\ ~(k < j)
    BY <2>1, <2>3
  <2>5. j = k
    BY <2>1, <2>4
  <2>6. l = m
    BY <2>1, <2>3, <2>5 DEF Length
  <2> QED
    BY <2>5, <2>6
<1> QED
  BY <1>1, Invariance, PTL

----------------------------------------------------------------------------
(* A search that finds nothing.  The session that answers has then made    *)
(* all sub-seeds up to the index searched; others, having the same ones,   *)
(* have none with that ID either.                                          *)
MatchTrue == who # NoSession /\ match => Has(data[who], req.sid)

Searched ==
    who = NoSession /\ req.by = "sid" /\ ans = NotFound /\ dead = {} =>
        \E s \in Sessions : ~Has(data[s], req.sid) /\ \A l \in Length : req.idx <= Len(data[s][l])

SearchInv == req \in Request \union {NoRequest} /\ match \in BOOLEAN /\ MatchTrue /\ Searched

(* An answer to a search is "not found" only if it is not there.           *)
LEMMA AnswerTells ==
    ASSUME NEW d \in [Length -> Seq(Entry)], NEW r \in Request, r.by = "sid", Answer(d, r) = NotFound
    PROVE  ~Has(d, r.sid)
<1> SUFFICES ASSUME Has(d, r.sid) PROVE FALSE
  OBVIOUS
<1>1. PICK l \in Length : l = (IF r.sid \in SidsOf(d["long"]) THEN "long" ELSE "short")
  BY DEF Length
<1>2. r.sid \in SidsOf(d[l])
  BY <1>1 DEF Has
<1>3. PICK k \in DOMAIN d[l] : k = (CHOOSE n \in DOMAIN d[l] : d[l][n].sid = r.sid)
  BY <1>2 DEF SidsOf
<1>4. Answer(d, r) = [sid |-> d[l][k].sid, idx |-> d[l][k].idx, length |-> l]
  BY <1>1, <1>3 DEF Answer
<1>5. d[l][k] \in Entry
  BY <1>1
<1> QED
  BY <1>1, <1>4, <1>5, SubSeedAssumption DEF Entry, Length

LEMMA SearchInit == Init => SearchInv
<1> SUFFICES ASSUME Init PROVE SearchInv
  OBVIOUS
<1>1. who = NoSession /\ req = NoRequest /\ match = FALSE
  BY DEF Init
<1>2. req.by # "sid"
  BY <1>1 DEF NoRequest
<1> QED
  BY <1>1, <1>2 DEF SearchInv, MatchTrue, Searched

LEMMA SearchAsk ==
    ASSUME SeedInv, SearchInv, NEW s \in Sessions, NEW r \in Request, Ask(s, r)
    PROVE  SearchInv'
<1>1. req' = r /\ data' = data /\ dead' = dead /\ who = NoSession /\ s \notin dead
  BY DEF Ask
<1>2. data[s] \in [Length -> Seq(Entry)]
  BY DEF SeedInv, Typed
<1>3. CASE Covered(s, r)
  <2>1. who' = NoSession /\ match' = match /\ ans' = Answer(data[s], r)
    BY <1>1, <1>3 DEF Ask
  <2>2. ASSUME r.by = "sid", ans' = NotFound
        PROVE  ~Has(data[s], r.sid) /\ \A l \in Length : r.idx <= Len(data[s][l])
    <3>1. ~Has(data[s], r.sid)
      BY <1>2, <2>1, <2>2, AnswerTells
    <3>2. r.idx <= Len(data[s]["long"])
      BY <1>3, <3>1 DEF Covered
    <3>3. Len(data[s]["long"]) = Len(data[s]["short"])
      <4>1. s # NoSession
        BY SubSeedAssumption
      <4> QED
        BY <1>1, <4>1 DEF SeedInv, Shape
    <3> QED
      BY <3>1, <3>2, <3>3 DEF Length
  <2>3. Searched'
    BY <1>1, <2>2 DEF Searched
  <2> QED
    BY <1>1, <2>1, <2>3 DEF SearchInv, MatchTrue
<1>4. CASE ~Covered(s, r)
  <2>1. who' = s /\ match' = FALSE
    BY <1>4 DEF Ask
  <2> QED
    BY <1>1, <2>1, SubSeedAssumption DEF SearchInv, MatchTrue, Searched
<1> QED
  BY <1>3, <1>4

LEMMA SearchAdd ==
    ASSUME SeedInv, SearchInv, who # NoSession, NEW seed \in Seeds, Add(who, seed), req' = req
    PROVE  SearchInv'
<1> DEFINE sid == SidOf(seed)
           found == match \/ (req.by = "sid" /\ sid = req.sid)
           e == [sid |-> sid, idx |-> Idx(who), nonce |-> nonce]
           d == [data[who] EXCEPT ![adding] = Append(@, e)]
<1>1. who \in Sessions /\ req \in Request /\ adding \in Length
  BY DEF SeedInv, Typed
<1>2. data[who] \in [Length -> Seq(Entry)]
  BY <1>1 DEF SeedInv, Typed
<1>3. CASE sid \in Taken(who)
  <2>1. data' = data /\ match' = match /\ (who' = who \/ (who' = NoSession /\ who \in dead'))
    BY <1>3 DEF Add
  <2> QED
    BY <1>1, <2>1 DEF SearchInv, MatchTrue, Searched
<1>4. CASE sid \notin Taken(who)
  <2>1. /\ data' = [data EXCEPT ![who] = d] /\ match' = (found /\ adding = "long")
        /\ IF Stop(found, Idx(who)) THEN who' = NoSession /\ ans' = Answer(d, req) ELSE UNCHANGED <<who, ans>>
    BY <1>4 DEF Add
  <2>2. data'[who] = d /\ data \in [Sessions -> [Length -> Seq(Entry)]]
    BY <1>1, <2>1 DEF SeedInv, Typed
  <2>3. Idx(who) \in 1..MaxIdx
    BY <1>1, SubSeedAssumption DEF SeedInv, Shape, Request
  <2>4. e \in Entry
    BY <2>3, SubSeedAssumption DEF SeedInv, Typed, Entry
  <2>5. /\ d[adding] = Append(data[who][adding], e)
        /\ \A l \in Length : l # adding => d[l] = data[who][l]
    BY <1>1, <1>2
  <2>6. /\ d[adding] \in Seq(Entry)
        /\ Len(d[adding]) = Len(data[who][adding]) + 1
        /\ SidsOf(d[adding]) = SidsOf(data[who][adding]) \union {sid}
    <3>1. data[who][adding] \in Seq(Entry)
      BY <1>1, <1>2
    <3> HIDE DEF e
    <3>2. /\ d[adding] \in Seq(Entry)
          /\ Len(d[adding]) = Len(data[who][adding]) + 1
          /\ \A k \in DOMAIN data[who][adding] : d[adding][k] = data[who][adding][k]
          /\ d[adding][Len(data[who][adding]) + 1] = e
      BY <2>4, <2>5, <3>1
    <3>3. DOMAIN d[adding] = DOMAIN data[who][adding] \union {Len(data[who][adding]) + 1}
      BY <3>1, <3>2
    <3>4. e.sid = sid
      BY DEF e
    <3> QED
      BY <3>2, <3>3, <3>4 DEF SidsOf
  <2>7. Has(data[who], req.sid) \/ sid = req.sid => Has(d, req.sid)
    BY <1>1, <2>5, <2>6 DEF Has, Length
  <2>8. found => Has(d, req.sid)
    BY <2>7 DEF SearchInv, MatchTrue
  <2>9. MatchTrue'
    BY <2>1, <2>2, <2>8 DEF MatchTrue
  <2>10. d \in [Length -> Seq(Entry)]
    <3> HIDE DEF e
    <3>1. Append(data[who][adding], e) \in Seq(Entry)
      BY <2>5, <2>6
    <3>2. d = [l \in Length |-> IF l = adding THEN Append(data[who][l], e) ELSE data[who][l]]
      BY <1>1, <1>2
    <3> QED
      BY <1>1, <1>2, <3>1, <3>2
  <2>11. Searched'
    <3> HIDE DEF d
    <3> SUFFICES ASSUME who' = NoSession, req.by = "sid", ans' = NotFound
                 PROVE  ~Has(data'[who], req.sid) /\ \A l \in Length : req.idx <= Len(data'[who][l])
      BY <1>1 DEF Searched
    <3>1. Stop(found, Idx(who)) /\ Answer(d, req) = NotFound
      BY <2>1
    <3>3. ~Has(d, req.sid)
      BY <1>1, <2>10, <3>1, AnswerTells
    <3>4. adding = "short" /\ Idx(who) = req.idx
      BY <2>8, <3>1, <3>3 DEF Stop
    <3>5. Len(data[who]["long"]) = Len(data[who]["short"]) + 1 /\ Len(data[who]["long"]) = req.idx
      BY <1>1, <1>2, <3>4 DEF SeedInv, Shape, Idx, Length
    <3> QED
      BY <2>2, <2>5, <2>6, <3>3, <3>4, <3>5 DEF Length
  <2> QED
    BY <2>1, <2>9, <2>11 DEF SearchInv
<1> QED
  BY <1>3, <1>4

LEMMA SearchStep == SeedInv /\ SearchInv /\ [Next]_vars => SearchInv'
<1> SUFFICES ASSUME SeedInv, SearchInv, [Next]_vars PROVE SearchInv'
  OBVIOUS
<1>1. CASE Try
  <2>1. PICK seed \in IF scramble[<<adding, Idx(who), nonce>>] = Unasked THEN Seeds
                      ELSE {scramble[<<adding, Idx(who), nonce>>]} : Add(who, seed)
    BY <1>1 DEF Try
  <2>2. <<adding, Idx(who), nonce>> \in Positions
    BY <1>1, SubSeedAssumption DEF Try, SeedInv, Typed, Shape, Request, Positions
  <2>3. seed \in Seeds
    BY <2>1, <2>2 DEF SeedInv, Typed
  <2> QED
    BY <1>1, <2>1, <2>3, SearchAdd DEF Try
<1>2. CASE \E s \in Sessions, r \in Request : Ask(s, r)
  BY <1>2, SearchAsk
<1>3. CASE UNCHANGED vars
  BY <1>3 DEF vars, SearchInv, MatchTrue, Searched
<1> QED
  BY <1>1, <1>2, <1>3 DEF Next

(* When a session finds no sub-seed with some ID, no session has one up to *)
(* the index searched.                                                     *)
THEOREM SearchIsExhaustive == Spec => []NotFoundIsTrue
<1>1. SeedInv /\ SearchInv => NotFoundIsTrue
  <2> SUFFICES ASSUME SeedInv, SearchInv, who = NoSession, req.by = "sid", ans = NotFound, dead = {},
                      NEW s \in Sessions, NEW l \in Length, NEW k \in DOMAIN data[s][l], k <= req.idx
               PROVE  data[s][l][k].sid # req.sid
    BY DEF NotFoundIsTrue
  <2>1. PICK t \in Sessions : ~Has(data[t], req.sid) /\ \A m \in Length : req.idx <= Len(data[t][m])
    BY DEF SearchInv, Searched
  <2>2. req.idx \in Nat /\ data[t][l] \in Seq(Entry) /\ data[s][l] \in Seq(Entry)
    BY DEF SearchInv, Request, NoRequest, SeedInv, Typed
  <2>3. k \in DOMAIN data[t][l]
    BY <2>1, <2>2
  <2>4. data[s][l][k] = data[t][l][k]
    BY <2>3 DEF SeedInv, SameInEverySession
  <2> QED
    BY <2>1, <2>3, <2>4 DEF Has, SidsOf, Length
<1> QED
  BY <1>1, SearchInit, SearchStep, Invariance, PTL DEF Spec
----------------------------------------------------------------------------
(* The shares of a seed (SeedShares), made anew in every session.          *)
USE DEF Shares!vars

LEMMA Counted == ASSUME NEW T PROVE Shares!Cardinality(T) = Cardinality(T)
BY DEF Shares!Cardinality, Cardinality

LEMMA Odd ==
    ASSUME NEW f, NEW b \in Bits
    PROVE  b \in Shares!Xor(f) <=> Cardinality({i \in DOMAIN f : b \in f[i]}) % 2 = 1
<1> DEFINE Q(c) == Cardinality({i \in DOMAIN f : c \in f[i]}) % 2 = 1
<1>1. Shares!Xor(f) = {c \in Bits : Q(c)}
  BY Counted DEF Shares!Xor
<1> HIDE DEF Q
<1>2. b \in {c \in Bits : Q(c)} <=> Q(b)
  OBVIOUS
<1> QED
  BY <1>1, <1>2 DEF Q

(* What makes the XOR of a seed and some shares makes, with them, the      *)
(* seed.                                                                   *)
LEMMA XorBack ==
    ASSUME NEW m \in Nat \ {0}, NEW p \in SUBSET Bits, NEW g, DOMAIN g = 1 .. m,
           g[m] = Shares!Xor([i \in 0 .. (m - 1) |-> IF i = 0 THEN p ELSE g[i]])
    PROVE  Shares!Xor(g) = p
<1> DEFINE f == [i \in 0 .. (m - 1) |-> IF i = 0 THEN p ELSE g[i]]
<1>1. ASSUME NEW b \in Bits PROVE b \in Shares!Xor(g) <=> b \in p
  <2> DEFINE S == {i \in 1 .. (m - 1) : b \in g[i]}
             A == {i \in DOMAIN f : b \in f[i]}
             B == {i \in DOMAIN g : b \in g[i]}
  <2>1. IsFiniteSet(S) /\ Cardinality(S) \in Nat /\ 0 \notin S /\ m \notin S
    <3>1. IsFiniteSet(1 .. (m - 1)) /\ S \subseteq 1 .. (m - 1)
      BY FS_Interval
    <3>2. IsFiniteSet(S) /\ Cardinality(S) \in Nat
      BY <3>1, FS_Subset, FS_CardinalityType
    <3>3. 0 \notin 1 .. (m - 1) /\ m \notin 1 .. (m - 1)
      OBVIOUS
    <3> HIDE DEF S
    <3> QED
      BY <3>1, <3>2, <3>3
  <2>2. /\ Cardinality(S \union {0}) = Cardinality(S) + 1
        /\ Cardinality(S \union {m}) = Cardinality(S) + 1
    BY <2>1, FS_AddElement
  <2>3. A = IF b \in p THEN S \union {0} ELSE S
    OBVIOUS
  <2>4. B = IF b \in g[m] THEN S \union {m} ELSE S
    OBVIOUS
  <2>5. b \in g[m] <=> Cardinality(A) % 2 = 1
    <3>1. g[m] = Shares!Xor(f)
      OBVIOUS
    <3> HIDE DEF f
    <3> QED
      BY <3>1, Odd
  <2>6. b \in Shares!Xor(g) <=> Cardinality(B) % 2 = 1
    BY Odd
  <2> HIDE DEF A, B, S, f
  <2>7. CASE b \in p
    BY <2>1, <2>2, <2>3, <2>4, <2>5, <2>6, <2>7
  <2>8. CASE b \notin p
    BY <2>1, <2>2, <2>3, <2>4, <2>5, <2>6, <2>8
  <2> QED
    BY <2>7, <2>8
<1>2. Shares!Xor(g) \subseteq Bits
  BY DEF Shares!Xor
<1> QED
  BY <1>1, <1>2

LEMMA LeastOf ==
    ASSUME NEW T, T \subseteq Nat, T # {}
    PROVE  \E m \in T : \A j \in T : m <= j
<1> DEFINE R == OpToRel(<, Nat)
<1>1. IsWellFoundedOn(R, Nat)
  BY NatLessThanWellFounded
<1>2. \A i \in Nat, j \in Nat : i < j => <<i, j>> \in R
  BY DEF OpToRel
<1> HIDE DEF R
<1>3. PICK m \in T : \A j \in T : <<j, m>> \notin R
  BY <1>1, WFMin
<1>4. \A j \in T : ~ (j < m)
  BY <1>2, <1>3
<1> QED
  BY <1>3, <1>4

(* The Seed IDs an entry must not have.                                    *)
SidsBefore(d, k) == {d[j].sid : j \in 1 .. (k - 1)} \union {SidOf(whole)}

(* The nonce of the master share is the first whose base has a Seed ID of  *)
(* its own, and that of another share the first from the start number a.   *)
MasterAt(m) ==
    /\ m \in 0 .. MaxNonce /\ master[m] # Unasked /\ SidOf(master[m]) # SidOf(whole)
    /\ \A j \in 0 .. (m - 1) : master[j] # Unasked /\ SidOf(master[j]) = SidOf(whole)

Collided(sp, a, k, m, sids) ==
    \A j \in a .. (m - 1) : mix[<<sp, k, j>>] # Unasked /\ SidOf(mix[<<sp, k, j>>]) \in sids

Chosen(sp, a, d, k) ==
    IF k = 1 /\ sp.master
    THEN MasterAt(d[1].nonce) /\ d[1].sid = SidOf(master[d[1].nonce])
         /\ derived[<<master[d[1].nonce], sp.count>>] # Unasked
    ELSE LET m == d[k].nonce IN
         /\ m \in 0 .. MaxNonce /\ a <= m /\ mix[<<sp, k, m>>] # Unasked
         /\ d[k].sid = SidOf(mix[<<sp, k, m>>]) /\ d[k].sid \notin SidsBefore(d, k)
         /\ Collided(sp, a, k, m, SidsBefore(d, k))

(* The first n shares of the list d are those of split sp from a.          *)
Valid(sp, a, d, n) == \A k \in 1 .. n : Chosen(sp, a, d, k)

LEMMA SameShares ==
    ASSUME NEW sp, NEW a \in Nat, NEW n \in Nat, NEW d, NEW e, Valid(sp, a, d, n), Valid(sp, a, e, n)
    PROVE  \A k \in 1 .. n : d[k].nonce = e[k].nonce /\ d[k].sid = e[k].sid
<1> DEFINE T == {k \in 1 .. n : ~(d[k].nonce = e[k].nonce /\ d[k].sid = e[k].sid)}
<1> SUFFICES ASSUME T # {} PROVE FALSE
  OBVIOUS
<1>1. PICK k \in T : \A j \in T : k <= j
  <2>1. T \subseteq Nat
    OBVIOUS
  <2> QED
    BY <2>1, LeastOf
<1>2. k \in 1 .. n /\ \A j \in 1 .. (k - 1) : d[j].sid = e[j].sid
  BY <1>1
<1>3. SidsBefore(d, k) = SidsBefore(e, k)
  BY <1>2 DEF SidsBefore
<1>4. Chosen(sp, a, d, k) /\ Chosen(sp, a, e, k)
  BY <1>2 DEF Valid
<1>5. CASE k = 1 /\ sp.master
  <2> DEFINE x == d[1].nonce
             y == e[1].nonce
  <2>1. MasterAt(x) /\ MasterAt(y) /\ d[1].sid = SidOf(master[x]) /\ e[1].sid = SidOf(master[y])
    BY <1>4, <1>5 DEF Chosen
  <2>2. x \in Nat /\ y \in Nat /\ ~(x < y) /\ ~(y < x)
    BY <2>1, SubSeedAssumption DEF MasterAt
  <2>3. x = y
    BY <2>2
  <2> QED
    BY <1>1, <1>5, <2>1, <2>3
<1>6. CASE ~(k = 1 /\ sp.master)
  <2> DEFINE x == d[k].nonce
             y == e[k].nonce
  <2>1. /\ x \in Nat /\ a <= x /\ d[k].sid = SidOf(mix[<<sp, k, x>>]) /\ d[k].sid \notin SidsBefore(d, k)
        /\ y \in Nat /\ a <= y /\ e[k].sid = SidOf(mix[<<sp, k, y>>]) /\ e[k].sid \notin SidsBefore(d, k)
        /\ \A j \in a .. (x - 1) : SidOf(mix[<<sp, k, j>>]) \in SidsBefore(d, k)
        /\ \A j \in a .. (y - 1) : SidOf(mix[<<sp, k, j>>]) \in SidsBefore(d, k)
    BY <1>3, <1>4, <1>6, SubSeedAssumption DEF Chosen, Collided
  <2> HIDE DEF x, y
  <2>2. ~(x < y) /\ ~(y < x)
    BY <2>1
  <2>3. x = y
    BY <2>1, <2>2
  <2> QED
    BY <1>1, <2>1, <2>3 DEF x, y
<1> QED
  BY <1>5, <1>6

(* The seed of a share, and of the last share.                             *)
ShareOf(sp, d, i) ==
    IF i = 1 /\ sp.master THEN derived[<<master[d[1].nonce], sp.count>>] ELSE mix[<<sp, i, d[i].nonce>>]

LastOf(sp, d) ==
    Shares!Xor([i \in 0 .. (sp.count - 1) |-> IF i = 0 THEN whole ELSE ShareOf(sp, d, i)])

LEMMA SameLast ==
    ASSUME NEW sp, NEW a \in Nat, sp.count \in Nat \ {0, 1}, NEW d, NEW e,
           Valid(sp, a, d, sp.count - 1), Valid(sp, a, e, sp.count - 1)
    PROVE  /\ \A i \in 1 .. (sp.count - 1) : ShareOf(sp, d, i) = ShareOf(sp, e, i)
           /\ LastOf(sp, d) = LastOf(sp, e)
           /\ SidsBefore(d, sp.count) = SidsBefore(e, sp.count)
<1>1. \A i \in 1 .. (sp.count - 1) : d[i].nonce = e[i].nonce /\ d[i].sid = e[i].sid
  BY SameShares
<1>2. \A i \in 1 .. (sp.count - 1) : ShareOf(sp, d, i) = ShareOf(sp, e, i)
  BY <1>1 DEF ShareOf
<1>3. [i \in 0 .. (sp.count - 1) |-> IF i = 0 THEN whole ELSE ShareOf(sp, d, i)]
      = [i \in 0 .. (sp.count - 1) |-> IF i = 0 THEN whole ELSE ShareOf(sp, e, i)]
  BY <1>2
<1>4. SidsBefore(d, sp.count) = SidsBefore(e, sp.count)
  BY <1>1 DEF SidsBefore
<1> QED
  BY <1>2, <1>3, <1>4 DEF LastOf

(* A start number with which the last share collides.                      *)
Failed(sp, a) == \E d : Valid(sp, a, d, sp.count - 1) /\ SidOf(LastOf(sp, d)) \in SidsBefore(d, sp.count)

----------------------------------------------------------------------------
ShareSids == {SidOf(b) : b \in SUBSET Bits}

ShareEntry == [sid : ShareSids, idx : Nat, nonce : 0 .. MaxNonce]

ShareList ==
    [pc : {"new", "master", "shares", "last", "ready", "dead"},
     start : 0 .. MaxNonce, nonce : 0 .. MaxNonce,
     data : Seq(ShareEntry), last : {Unasked} \union SUBSET Bits]

MixTyped == mix \in [Shares!Split \X Shares!Indexes \X (0 .. MaxNonce) -> {Unasked} \union SUBSET Bits]

MasterTyped == master \in [0 .. MaxNonce -> {Unasked} \union SUBSET Bits]

DerivedTyped == derived \in [(SUBSET Bits) \X Counts -> {Unasked} \union SUBSET Bits]

SharesTyped ==
    /\ whole \in SUBSET Bits /\ split \in [Sessions -> Shares!Split]
    /\ MixTyped /\ MasterTyped /\ DerivedTyped
    /\ list \in [Sessions -> ShareList]

(* How far a list l has come with split sp: the start numbers below its    *)
(* own have failed, and what it holds is what its own start number gives.  *)
Progress(l, sp) ==
    /\ l.pc = "new" => l = Shares!New
    /\ l.pc = "master" =>
        /\ l.data = <<>> /\ l.start = 0 /\ sp.master
        /\ \A j \in 0 .. (l.nonce - 1) : master[j] # Unasked /\ SidOf(master[j]) = SidOf(whole)
    /\ l.pc \in {"shares", "last", "ready"} =>
        /\ \A a \in 0 .. (l.start - 1) : Failed(sp, a)
        /\ sp.master => Len(l.data) >= 1
    /\ l.pc = "shares" =>
        /\ Len(l.data) < sp.count - 1 /\ Valid(sp, l.start, l.data, Len(l.data))
        /\ l.start <= l.nonce
        /\ Collided(sp, l.start, Len(l.data) + 1, l.nonce, SidsBefore(l.data, Len(l.data) + 1))
    /\ l.pc = "last" => Len(l.data) = sp.count - 1 /\ Valid(sp, l.start, l.data, sp.count - 1)
    /\ l.pc = "ready" =>
        /\ Len(l.data) = sp.count /\ Valid(sp, l.start, l.data, sp.count - 1)
        /\ l.last = LastOf(sp, l.data)
        /\ l.data[sp.count].sid = SidOf(l.last) /\ SidOf(l.last) \notin SidsBefore(l.data, sp.count)

AllProgress ==
    \A s \in Sessions : \A l \in ShareList, sp \in Shares!Split :
        l = list[s] /\ sp = split[s] => Progress(l, sp)

SharesInv == SharesTyped /\ AllProgress

(* The seeds revealed stay what they are.                                  *)
Grown ==
    /\ whole' = whole
    /\ \A q \in Shares!Split \X Shares!Indexes \X (0 .. MaxNonce) : mix[q] # Unasked => mix'[q] = mix[q]
    /\ \A m \in 0 .. MaxNonce : master[m] # Unasked => master'[m] = master[m]
    /\ \A q \in (SUBSET Bits) \X Counts : derived[q] # Unasked => derived'[q] = derived[q]

LEMMA MasterKept ==
    ASSUME Grown, NEW m, MasterAt(m)
    PROVE  MasterAt(m)' /\ master'[m] = master[m]
<1>1. m \in 0 .. MaxNonce /\ \A j \in 0 .. (m - 1) : j \in 0 .. MaxNonce
  BY SubSeedAssumption DEF MasterAt
<1> QED
  BY <1>1 DEF MasterAt, Grown

LEMMA SplitTyped ==
    ASSUME Shares!ShareAssumption, NEW sp \in Shares!Split
    PROVE  /\ sp.count \in Counts /\ sp.count \in Nat /\ sp.count >= 2
           /\ \A k \in 1 .. sp.count : k \in Shares!Indexes
<1>1. sp.count \in Counts
  BY DEF Shares!Split
<1>2. sp.count \in Nat /\ sp.count >= 2
  <2>1. \A n \in Nat \ {0, 1} : n >= 2
    OBVIOUS
  <2> QED
    BY <1>1, <2>1 DEF Shares!ShareAssumption
<1>3. 1 .. sp.count \subseteq Shares!Indexes
  BY <1>1 DEF Shares!Indexes
<1> QED
  BY <1>1, <1>2, <1>3

LEMMA CollidedKept ==
    ASSUME Grown, Shares!ShareAssumption, NEW sp \in Shares!Split, NEW k \in 1 .. sp.count, NEW a \in Nat,
           NEW m \in 0 .. MaxNonce, NEW S, Collided(sp, a, k, m, S)
    PROVE  Collided(sp, a, k, m, S)'
<1>1. ASSUME NEW j \in a .. (m - 1)
      PROVE  mix'[<<sp, k, j>>] # Unasked /\ SidOf(mix'[<<sp, k, j>>]) \in S
  <2>1. j \in 0 .. MaxNonce
    BY SubSeedAssumption
  <2>2. <<sp, k, j>> \in Shares!Split \X Shares!Indexes \X (0 .. MaxNonce)
    BY <2>1, SplitTyped
  <2>3. mix[<<sp, k, j>>] # Unasked /\ SidOf(mix[<<sp, k, j>>]) \in S
    BY DEF Collided
  <2> QED
    BY <2>2, <2>3 DEF Grown
<1> QED
  BY <1>1 DEF Collided

LEMMA ChosenKept ==
    ASSUME Grown, MasterTyped, Shares!ShareAssumption,
           NEW sp \in Shares!Split, NEW a \in Nat, NEW d, NEW k \in 1 .. sp.count, Chosen(sp, a, d, k)
    PROVE  Chosen(sp, a, d, k)' /\ ShareOf(sp, d, k)' = ShareOf(sp, d, k)
<1>1. SidsBefore(d, k)' = SidsBefore(d, k)
  BY DEF SidsBefore, Grown
<1>2. CASE k = 1 /\ sp.master
  <2> DEFINE m == d[1].nonce
             q == <<master[m], sp.count>>
  <2>1. MasterAt(m) /\ d[1].sid = SidOf(master[m]) /\ derived[q] # Unasked
    BY <1>2 DEF Chosen
  <2>2. q \in (SUBSET Bits) \X Counts
    BY <2>1, SplitTyped DEF MasterAt, MasterTyped
  <2>3. MasterAt(m)' /\ master'[m] = master[m]
    BY <2>1, MasterKept
  <2>4. derived'[q] = derived[q]
    BY <2>1, <2>2 DEF Grown
  <2> HIDE DEF m
  <2> QED
    BY <1>2, <2>1, <2>3, <2>4 DEF Chosen, ShareOf, m
<1>3. CASE ~(k = 1 /\ sp.master)
  <2> DEFINE m == d[k].nonce
  <2>1. /\ m \in 0 .. MaxNonce /\ a <= m /\ mix[<<sp, k, m>>] # Unasked
        /\ d[k].sid = SidOf(mix[<<sp, k, m>>]) /\ d[k].sid \notin SidsBefore(d, k)
        /\ Collided(sp, a, k, m, SidsBefore(d, k))
    BY <1>3 DEF Chosen
  <2>2. <<sp, k, m>> \in Shares!Split \X Shares!Indexes \X (0 .. MaxNonce)
    BY <2>1, SplitTyped
  <2>3. mix'[<<sp, k, m>>] = mix[<<sp, k, m>>]
    BY <2>1, <2>2 DEF Grown
  <2>4. ASSUME NEW S, S = SidsBefore(d, k)
        PROVE  Collided(sp, a, k, m, S)'
    BY <2>1, <2>4, CollidedKept
  <2>5. Collided(sp, a, k, m, SidsBefore(d, k))'
    BY <1>1, <2>4 DEF Collided
  <2> QED
    BY <1>1, <1>3, <2>1, <2>3, <2>5 DEF Chosen, ShareOf
<1> QED
  BY <1>2, <1>3

(* The first n shares, and what they make, stay what they are.             *)
LEMMA ValidKept ==
    ASSUME Grown, MasterTyped, Shares!ShareAssumption,
           NEW sp \in Shares!Split, NEW a \in Nat, NEW d, NEW n \in 0 .. sp.count, Valid(sp, a, d, n)
    PROVE  Valid(sp, a, d, n)' /\ \A k \in 1 .. n : ShareOf(sp, d, k)' = ShareOf(sp, d, k)
<1>1. \A k \in 1 .. n : k \in 1 .. sp.count
  BY SplitTyped
<1>2. ASSUME NEW k \in 1 .. n
      PROVE  Chosen(sp, a, d, k)' /\ ShareOf(sp, d, k)' = ShareOf(sp, d, k)
  BY <1>1, ChosenKept DEF Valid
<1> QED
  BY <1>2 DEF Valid

LEMMA LastKept ==
    ASSUME Grown, MasterTyped, Shares!ShareAssumption,
           NEW sp \in Shares!Split, NEW a \in Nat, NEW d, Valid(sp, a, d, sp.count - 1)
    PROVE  /\ Valid(sp, a, d, sp.count - 1)' /\ LastOf(sp, d)' = LastOf(sp, d)
           /\ SidsBefore(d, sp.count)' = SidsBefore(d, sp.count)
<1>1. sp.count - 1 \in 0 .. sp.count
  BY SplitTyped
<1>2. Valid(sp, a, d, sp.count - 1)' /\ \A k \in 1 .. (sp.count - 1) : ShareOf(sp, d, k)' = ShareOf(sp, d, k)
  BY <1>1, ValidKept
<1>3. whole' = whole
  BY DEF Grown
<1>4. [i \in 0 .. (sp.count - 1) |-> IF i = 0 THEN whole ELSE ShareOf(sp, d, i)]'
      = [i \in 0 .. (sp.count - 1) |-> IF i = 0 THEN whole ELSE ShareOf(sp, d, i)]
  BY <1>2, <1>3, SplitTyped
<1>5. LastOf(sp, d)' = LastOf(sp, d)
  BY <1>4 DEF LastOf, Shares!Xor
<1>6. SidsBefore(d, sp.count)' = SidsBefore(d, sp.count)
  BY <1>3 DEF SidsBefore
<1> QED
  BY <1>2, <1>5, <1>6

LEMMA FailedKept ==
    ASSUME Grown, MasterTyped, Shares!ShareAssumption,
           NEW sp \in Shares!Split, NEW a \in Nat, Failed(sp, a)
    PROVE  Failed(sp, a)'
<1>1. PICK d : Valid(sp, a, d, sp.count - 1) /\ SidOf(LastOf(sp, d)) \in SidsBefore(d, sp.count)
  BY DEF Failed
<1>2. Valid(sp, a, d, sp.count - 1)' /\ (SidOf(LastOf(sp, d)) \in SidsBefore(d, sp.count))'
  BY <1>1, LastKept
<1> QED
  BY <1>2 DEF Failed

(* A list that is not touched is as far as it was.                         *)
LEMMA ProgressKept ==
    ASSUME Grown, MasterTyped, Shares!ShareAssumption,
           NEW sp \in Shares!Split, NEW l \in ShareList, Progress(l, sp)
    PROVE  Progress(l, sp)'
<1>1. /\ l.start \in 0 .. MaxNonce /\ l.nonce \in 0 .. MaxNonce /\ MaxNonce \in Nat /\ l.start \in Nat
      /\ l.data \in Seq(ShareEntry) /\ Len(l.data) \in Nat
  BY SubSeedAssumption DEF ShareList
<1>2. whole' = whole
  BY DEF Grown
<1>3. (l.pc = "new" => l = Shares!New)'
  BY DEF Progress, Shares!New
<1>4. ASSUME l.pc = "master"
      PROVE  /\ l.data = <<>> /\ l.start = 0 /\ sp.master
             /\ \A j \in 0 .. (l.nonce - 1) : master'[j] # Unasked /\ SidOf(master'[j]) = SidOf(whole')
  <2>1. \A j \in 0 .. (l.nonce - 1) : j \in 0 .. MaxNonce
    BY <1>1
  <2> QED
    BY <1>2, <1>4, <2>1 DEF Progress, Grown
<1>5. ASSUME l.pc \in {"shares", "last", "ready"}
      PROVE  (\A a \in 0 .. (l.start - 1) : Failed(sp, a)') /\ (sp.master => Len(l.data) >= 1)
  <2>1. \A a \in 0 .. (l.start - 1) : a \in Nat
    BY <1>1
  <2> QED
    BY <1>5, <2>1, FailedKept DEF Progress
<1>6. ASSUME l.pc = "shares"
      PROVE  /\ Len(l.data) < sp.count - 1 /\ Valid(sp, l.start, l.data, Len(l.data))'
             /\ l.start <= l.nonce
             /\ Collided(sp, l.start, Len(l.data) + 1, l.nonce, SidsBefore(l.data, Len(l.data) + 1))'
  <2>1. /\ Len(l.data) < sp.count - 1 /\ Valid(sp, l.start, l.data, Len(l.data)) /\ l.start <= l.nonce
        /\ Collided(sp, l.start, Len(l.data) + 1, l.nonce, SidsBefore(l.data, Len(l.data) + 1))
    BY <1>6 DEF Progress
  <2>2. Len(l.data) \in 0 .. sp.count /\ Len(l.data) + 1 \in 1 .. sp.count
    BY <1>1, <2>1, SplitTyped
  <2>3. Valid(sp, l.start, l.data, Len(l.data))'
    BY <1>1, <2>1, <2>2, ValidKept
  <2>4. SidsBefore(l.data, Len(l.data) + 1)' = SidsBefore(l.data, Len(l.data) + 1)
    BY <1>2 DEF SidsBefore
  <2>5. ASSUME NEW S, S = SidsBefore(l.data, Len(l.data) + 1)
        PROVE  Collided(sp, l.start, Len(l.data) + 1, l.nonce, S)'
    BY <1>1, <2>1, <2>2, <2>5, CollidedKept
  <2> QED
    BY <2>1, <2>3, <2>4, <2>5 DEF Collided
<1>7. ASSUME l.pc = "last"
      PROVE  Len(l.data) = sp.count - 1 /\ Valid(sp, l.start, l.data, sp.count - 1)'
  BY <1>1, <1>7, LastKept DEF Progress
<1>8. ASSUME l.pc = "ready"
      PROVE  /\ Len(l.data) = sp.count /\ Valid(sp, l.start, l.data, sp.count - 1)'
             /\ l.last = LastOf(sp, l.data)'
             /\ l.data[sp.count].sid = SidOf(l.last) /\ SidOf(l.last) \notin SidsBefore(l.data, sp.count)'
  BY <1>1, <1>8, LastKept DEF Progress
<1> QED
  BY <1>3, <1>4, <1>5, <1>6, <1>7, <1>8 DEF Progress

(* A list that goes on to its next share has nothing to skip yet.          *)
LEMMA Filled ==
    ASSUME Shares!ShareAssumption, NEW sp \in Shares!Split, NEW l \in ShareList,
           l.nonce = l.start, Len(l.data) <= sp.count - 1, sp.master => Len(l.data) >= 1,
           Valid(sp, l.start, l.data, Len(l.data))', \A a \in 0 .. (l.start - 1) : Failed(sp, a)',
           NEW x, x = [l EXCEPT !.pc = IF Len(l.data) < sp.count - 1 THEN "shares" ELSE "last"]
    PROVE  x \in ShareList /\ Progress(x, sp)'
<1>1. /\ x \in ShareList /\ x.start = l.start /\ x.nonce = l.nonce /\ x.data = l.data
      /\ x.pc = IF Len(l.data) < sp.count - 1 THEN "shares" ELSE "last"
  BY DEF ShareList
<1>2. l.start \in Nat /\ l.nonce \in Nat /\ Len(l.data) \in Nat /\ sp.count \in Nat
  BY SplitTyped, SubSeedAssumption DEF ShareList
<1>3. CASE Len(l.data) < sp.count - 1
  <2>1. x.pc = "shares" /\ x.start <= x.nonce
    BY <1>1, <1>2, <1>3
  <2>2. Collided(sp, x.start, Len(x.data) + 1, x.nonce, SidsBefore(x.data, Len(x.data) + 1))'
    <3>1. x.start .. (x.nonce - 1) = {}
      BY <1>1, <1>2
    <3> QED
      BY <3>1 DEF Collided
  <2> QED
    BY <1>1, <1>3, <2>1, <2>2 DEF Progress
<1>4. CASE ~(Len(l.data) < sp.count - 1)
  <2>1. x.pc = "last" /\ Len(l.data) = sp.count - 1
    BY <1>1, <1>2, <1>4
  <2> QED
    BY <1>1, <1>4, <2>1 DEF Progress
<1> QED
  BY <1>3, <1>4

(* One that starts anew keeps the master share alone.                      *)
LEMMA Restarted ==
    ASSUME Shares!ShareAssumption, NEW sp \in Shares!Split, NEW l \in ShareList,
           NEW start \in 0 .. MaxNonce, \A a \in 0 .. (start - 1) : Failed(sp, a)',
           sp.master => Len(l.data) >= 1 /\ Chosen(sp, start, l.data, 1)',
           NEW y, y = [l EXCEPT !.start = start, !.nonce = start,
                                !.data = IF sp.master THEN SubSeq(@, 1, 1) ELSE <<>>],
           NEW x, x = [y EXCEPT !.pc = IF Len(y.data) < sp.count - 1 THEN "shares" ELSE "last"]
    PROVE  x \in ShareList /\ Progress(x, sp)'
<1>1. l.data \in Seq(ShareEntry)
  BY DEF ShareList
<1>2. sp.count \in Nat /\ sp.count >= 2
  BY SplitTyped
<1>3. y.data = IF sp.master THEN SubSeq(l.data, 1, 1) ELSE <<>>
  BY DEF ShareList
<1>4. /\ y.data \in Seq(ShareEntry) /\ Len(y.data) = (IF sp.master THEN 1 ELSE 0)
      /\ sp.master => y.data[1] = l.data[1]
  BY <1>1, <1>3
<1>5. y \in ShareList /\ y.start = start /\ y.nonce = start
  BY <1>3, <1>4 DEF ShareList
<1>6. Valid(sp, y.start, y.data, Len(y.data))'
  <2>1. CASE sp.master
    <3>1. Chosen(sp, start, l.data, 1)'
      BY <2>1
    <3>2. Chosen(sp, start, y.data, 1)'
      BY <1>4, <2>1, <3>1 DEF Chosen, MasterAt
    <3> QED
      BY <1>4, <1>5, <2>1, <3>2 DEF Valid
  <2>2. CASE ~sp.master
    BY <1>4, <2>2 DEF Valid
  <2> QED
    BY <2>1, <2>2
<1>7. /\ y.nonce = y.start /\ Len(y.data) <= sp.count - 1 /\ (sp.master => Len(y.data) >= 1)
      /\ \A a \in 0 .. (y.start - 1) : Failed(sp, a)'
  BY <1>2, <1>4, <1>5
<1> QED
  <2>1. y \in ShareList
    BY <1>5
  <2> QED
    BY <1>6, <1>7, <2>1, Filled

(* What a step must see to, when it changes the list of one session.       *)
LEMMA ListChanged ==
    ASSUME SharesInv, Shares!ShareAssumption, Grown, split' = split,
           MixTyped', MasterTyped', DerivedTyped',
           NEW s \in Sessions, NEW x \in ShareList, list' = [list EXCEPT ![s] = x],
           NEW q \in Shares!Split, q = split[s], Progress(x, q)'
    PROVE  SharesInv'
<1>1. whole' = whole
  BY DEF Grown
<1>2. list' \in [Sessions -> ShareList]
  BY DEF SharesInv, SharesTyped
<1>3. SharesTyped'
  BY <1>1, <1>2 DEF SharesInv, SharesTyped
<1>4. ASSUME NEW t \in Sessions, NEW l \in ShareList, NEW sp \in Shares!Split, l = list'[t], sp = split'[t]
      PROVE  Progress(l, sp)'
  <2>1. CASE t = s
    <3>1. l = x /\ sp = q
      BY <1>4, <2>1 DEF SharesInv, SharesTyped
    <3> QED
      BY <3>1
  <2>2. CASE t # s
    <3>1. l = list[t] /\ sp = split[t]
      BY <1>4, <2>2 DEF SharesInv, SharesTyped
    <3>2. Progress(l, sp)
      BY <3>1 DEF SharesInv, AllProgress
    <3> QED
      BY <3>2, ProgressKept DEF SharesInv, SharesTyped
  <2> QED
    BY <2>1, <2>2
<1> QED
  BY <1>3, <1>4 DEF SharesInv, AllProgress

LEMMA SharesInit ==
    ASSUME Shares!ShareAssumption
    PROVE  Shares!Init => SharesInv
<1> SUFFICES ASSUME Shares!Init PROVE SharesInv
  OBVIOUS
<1>1. PICK p \in SUBSET Bits, f \in [Sessions -> Shares!Split] : Shares!InitOf(p, f)
  BY DEF Shares!Init, Shares!BitSeeds
<1>2. list = [s \in Sessions |-> Shares!New] /\ whole = p /\ split = f
  BY <1>1 DEF Shares!InitOf
<1>3. Shares!New \in ShareList
  BY SubSeedAssumption DEF Shares!New, ShareList
<1>4. MixTyped /\ MasterTyped /\ DerivedTyped
  BY <1>1 DEF Shares!InitOf, MixTyped, MasterTyped, DerivedTyped, Shares!Nonces, Shares!BitSeeds
<1>5. SharesTyped
  BY <1>2, <1>3, <1>4 DEF SharesTyped
<1>6. \A sp : Progress(Shares!New, sp)
  BY DEF Progress, Shares!New
<1>7. AllProgress
  BY <1>2, <1>6 DEF AllProgress
<1> QED
  BY <1>5, <1>7 DEF SharesInv

LEMMA BeginKeeps ==
    ASSUME SharesInv, Shares!ShareAssumption, NEW s \in Sessions, Shares!Begin(s)
    PROVE  SharesInv'
<1>1. UNCHANGED <<whole, split, mix, master, derived>>
  BY DEF Shares!Begin
<1>2. Grown /\ MixTyped' /\ MasterTyped' /\ DerivedTyped'
  BY <1>1 DEF Grown, SharesInv, SharesTyped, MixTyped, MasterTyped, DerivedTyped
<1>3. list[s] \in ShareList /\ split[s] \in Shares!Split
  BY DEF SharesInv, SharesTyped
<1>4. PICK l \in ShareList, sp \in Shares!Split : l = list[s] /\ sp = split[s]
  BY <1>3
<1>5. l = Shares!New
  BY <1>4 DEF SharesInv, AllProgress, Progress, Shares!Begin, Shares!At
<1>6. CASE sp.master
  <2>1. PICK x : x = [l EXCEPT !.pc = "master"]
    OBVIOUS
  <2>2. list' = [list EXCEPT ![s] = x]
    BY <1>4, <1>6, <2>1 DEF Shares!Begin
  <2>3. x \in ShareList /\ x.pc = "master" /\ x.data = <<>> /\ x.start = 0 /\ x.nonce = 0
    BY <1>5, <2>1 DEF Shares!New, ShareList
  <2>4. Progress(x, sp)'
    BY <1>6, <2>3 DEF Progress
  <2> QED
    BY <1>1, <1>2, <1>4, <2>2, <2>3, <2>4, ListChanged
<1>7. CASE ~sp.master
  <2>1. PICK y : y = [l EXCEPT !.start = 0, !.nonce = 0, !.data = IF sp.master THEN SubSeq(@, 1, 1) ELSE <<>>]
    OBVIOUS
  <2>2. PICK x : x = [y EXCEPT !.pc = IF Len(y.data) < sp.count - 1 THEN "shares" ELSE "last"]
    OBVIOUS
  <2>3. list' = [list EXCEPT ![s] = x]
    BY <1>4, <1>7, <2>1, <2>2 DEF Shares!Begin, Shares!Restart, Shares!Fill
  <2>4. x \in ShareList /\ Progress(x, sp)'
    <3>1. 0 \in 0 .. MaxNonce /\ 0 .. (0 - 1) = {}
      BY SubSeedAssumption
    <3> QED
      BY <1>7, <2>1, <2>2, <3>1, Restarted
  <2> QED
    BY <1>1, <1>2, <1>4, <2>3, <2>4, ListChanged
<1> QED
  BY <1>6, <1>7

(* The base of a master share is new, or the next one is tried.            *)
LEMMA MasterKeeps ==
    ASSUME SharesInv, Shares!ShareAssumption, NEW s \in Sessions, Shares!Master(s)
    PROVE  SharesInv'
<1>1. PICK l \in ShareList, sp \in Shares!Split : l = list[s] /\ sp = split[s]
  BY DEF SharesInv, SharesTyped
<1>2. /\ l.nonce \in 0 .. MaxNonce /\ MaxNonce \in Nat /\ sp.count \in Counts
  BY SubSeedAssumption, SplitTyped DEF ShareList
<1>3. PICK base \in Shares!Sampled(master, l.nonce) :
        /\ master' = [master EXCEPT ![l.nonce] = base]
        /\ IF SidOf(base) # SidOf(whole)
           THEN LET q == <<base, sp.count>> IN
                /\ \E share \in Shares!Sampled(derived, q) : derived' = [derived EXCEPT ![q] = share]
                /\ list' = [list EXCEPT ![s] = Shares!Restart(s, [l EXCEPT
                       !.data = <<[sid |-> SidOf(base), idx |-> 1, nonce |-> l.nonce]>>], 0)]
           ELSE /\ list' = [list EXCEPT ![s] =
                       IF l.nonce < MaxNonce THEN [l EXCEPT !.nonce = l.nonce + 1] ELSE Shares!Dead(l)]
                /\ UNCHANGED derived
  BY <1>1 DEF Shares!Master
<1>4. UNCHANGED <<whole, split, mix>>
  BY DEF Shares!Master
<1>5. base \in SUBSET Bits /\ base # Unasked
  <2>1. base \in SUBSET Bits
    BY <1>2, <1>3 DEF Shares!Sampled, SharesInv, SharesTyped, MasterTyped, Shares!BitSeeds
  <2> QED
    BY <2>1 DEF Shares!ShareAssumption, Shares!BitSeeds
<1>6. MasterTyped' /\ master'[l.nonce] = base /\ MixTyped'
  BY <1>2, <1>3, <1>4, <1>5 DEF SharesInv, SharesTyped, MasterTyped, MixTyped
<1>7. \A m \in 0 .. MaxNonce : master[m] # Unasked => master'[m] = master[m]
  BY <1>2, <1>3 DEF Shares!Sampled, SharesInv, SharesTyped, MasterTyped
<1>8. /\ l.data = <<>> /\ l.start = 0 /\ sp.master
      /\ \A j \in 0 .. (l.nonce - 1) : master[j] # Unasked /\ SidOf(master[j]) = SidOf(whole)
  <2>1. l.pc = "master"
    BY <1>1 DEF Shares!Master, Shares!At
  <2> QED
    BY <1>1, <2>1 DEF SharesInv, AllProgress, Progress
<1>9. \A j \in 0 .. (l.nonce - 1) : master'[j] # Unasked /\ SidOf(master'[j]) = SidOf(whole')
  <2>1. \A j \in 0 .. (l.nonce - 1) : j \in 0 .. MaxNonce
    BY <1>2
  <2> QED
    BY <1>4, <1>7, <1>8, <2>1
<1>10. CASE SidOf(base) # SidOf(whole)
  <2> DEFINE q == <<base, sp.count>>
             e == [sid |-> SidOf(base), idx |-> 1, nonce |-> l.nonce]
  <2>1. PICK share \in Shares!Sampled(derived, q) : derived' = [derived EXCEPT ![q] = share]
    BY <1>3, <1>10
  <2>2. q \in (SUBSET Bits) \X Counts
    BY <1>2, <1>5
  <2>3. share \in SUBSET Bits /\ share # Unasked
    <3>1. share \in SUBSET Bits
      BY <2>1, <2>2 DEF Shares!Sampled, SharesInv, SharesTyped, DerivedTyped, Shares!BitSeeds
    <3> QED
      BY <3>1 DEF Shares!ShareAssumption, Shares!BitSeeds
  <2>4. DerivedTyped' /\ derived'[q] = share
    BY <2>1, <2>2, <2>3 DEF SharesInv, SharesTyped, DerivedTyped
  <2>5. \A r \in (SUBSET Bits) \X Counts : derived[r] # Unasked => derived'[r] = derived[r]
    BY <2>1, <2>2 DEF Shares!Sampled, SharesInv, SharesTyped, DerivedTyped
  <2>6. Grown
    BY <1>4, <1>7, <2>5 DEF Grown
  <2>7. MasterAt(l.nonce)'
    BY <1>2, <1>4, <1>5, <1>6, <1>9, <1>10 DEF MasterAt
  <2>8. PICK d : d = <<e>>
    OBVIOUS
  <2>9. d \in Seq(ShareEntry) /\ Len(d) = 1 /\ d[1] = e /\ d[1].nonce = l.nonce /\ d[1].sid = SidOf(base)
    <3>1. e \in ShareEntry
      BY <1>2, <1>5 DEF ShareEntry, ShareSids
    <3> QED
      BY <2>8, <3>1
  <2>10. Chosen(sp, 0, d, 1)'
    BY <1>6, <1>8, <2>3, <2>4, <2>7, <2>9 DEF Chosen
  <2>11. PICK z \in ShareList : z = [l EXCEPT !.data = d] /\ z.data = d
    <3>1. d \in Seq(ShareEntry)
      BY <2>9
    <3>2. [l EXCEPT !.data = d] \in ShareList /\ [l EXCEPT !.data = d].data = d
      BY <3>1 DEF ShareList
    <3> QED
      BY <3>2
  <2>12. PICK y : y = [z EXCEPT !.start = 0, !.nonce = 0, !.data = IF sp.master THEN SubSeq(@, 1, 1) ELSE <<>>]
    OBVIOUS
  <2>13. PICK x : x = [y EXCEPT !.pc = IF Len(y.data) < sp.count - 1 THEN "shares" ELSE "last"]
    OBVIOUS
  <2>14. list' = [list EXCEPT ![s] = x]
    BY <1>1, <1>3, <1>10, <2>8, <2>11, <2>12, <2>13 DEF Shares!Restart, Shares!Fill
  <2>15. x \in ShareList /\ Progress(x, sp)'
    <3>1. 0 \in 0 .. MaxNonce /\ 0 .. (0 - 1) = {}
      BY <1>2
    <3>2. Len(z.data) >= 1 /\ Chosen(sp, 0, z.data, 1)'
      <4>1. z.data = d
        BY <2>11
      <4>2. Chosen(sp, 0, z.data, 1)'
        BY <2>10, <4>1 DEF Chosen, MasterAt
      <4>3. Len(d) = 1
        BY <2>9
      <4>4. Len(z.data) = Len(d)
        BY <4>1
      <4> QED
        BY <4>2, <4>3, <4>4
    <3> QED
      BY <2>12, <2>13, <3>1, <3>2, Restarted
  <2> QED
    BY <1>1, <1>4, <1>6, <2>4, <2>6, <2>14, <2>15, ListChanged
<1>11. CASE SidOf(base) = SidOf(whole)
  <2>1. Grown /\ DerivedTyped'
    BY <1>3, <1>4, <1>7, <1>11 DEF Grown, SharesInv, SharesTyped, DerivedTyped
  <2>2. PICK x : x = IF l.nonce < MaxNonce THEN [l EXCEPT !.nonce = l.nonce + 1] ELSE Shares!Dead(l)
    OBVIOUS
  <2>3. list' = [list EXCEPT ![s] = x]
    BY <1>1, <1>3, <1>11, <2>2
  <2>4. x \in ShareList /\ Progress(x, sp)'
    <3>1. CASE l.nonce < MaxNonce
      <4>1. x \in ShareList /\ x.nonce = l.nonce + 1 /\ x.pc = "master" /\ x.data = <<>> /\ x.start = 0
        <5>1. l.pc = "master" /\ l.nonce + 1 \in 0 .. MaxNonce
          BY <1>1, <1>2, <3>1 DEF Shares!Master, Shares!At
        <5> QED
          BY <1>8, <2>2, <3>1, <5>1 DEF ShareList
      <4>2. \A j \in 0 .. (x.nonce - 1) : j \in 0 .. (l.nonce - 1) \/ j = l.nonce
        BY <1>2, <4>1
      <4>3. \A j \in 0 .. (x.nonce - 1) : master'[j] # Unasked /\ SidOf(master'[j]) = SidOf(whole')
        BY <1>4, <1>5, <1>6, <1>9, <1>11, <4>2
      <4> QED
        BY <1>8, <4>1, <4>3 DEF Progress
    <3>2. CASE ~(l.nonce < MaxNonce)
      <4>1. x \in ShareList /\ x.pc = "dead"
        BY <2>2, <3>2 DEF ShareList, Shares!Dead
      <4> QED
        BY <4>1 DEF Progress
    <3> QED
      BY <3>1, <3>2
  <2> QED
    BY <1>1, <1>4, <1>6, <2>1, <2>3, <2>4, ListChanged
<1> QED
  BY <1>10, <1>11

(* Of two lists that agree on their first n shares both are valid or none. *)
LEMMA ValidSame ==
    ASSUME NEW sp, NEW a, NEW n \in Nat, NEW d, NEW e, \A k \in 1 .. n : d[k] = e[k], Valid(sp, a, d, n)'
    PROVE  Valid(sp, a, e, n)'
<1> SUFFICES ASSUME NEW k \in 1 .. n PROVE Chosen(sp, a, e, k)'
  BY DEF Valid
<1>1. Chosen(sp, a, d, k)'
  BY DEF Valid
<1>2. d[k] = e[k] /\ (k = 1 => d[1] = e[1]) /\ \A j \in 1 .. (k - 1) : d[j] = e[j]
  OBVIOUS
<1>3. SidsBefore(d, k)' = SidsBefore(e, k)'
  BY <1>2 DEF SidsBefore
<1>4. CASE k = 1 /\ sp.master
  BY <1>1, <1>2, <1>4 DEF Chosen
<1>5. CASE ~(k = 1 /\ sp.master)
  BY <1>1, <1>2, <1>3, <1>5 DEF Chosen
<1> QED
  BY <1>4, <1>5

(* The IDs taken are those before the next share.                          *)
LEMMA TakenIsSidsBefore ==
    ASSUME NEW l \in ShareList
    PROVE  Shares!Taken(l) = SidsBefore(l.data, Len(l.data) + 1)
<1>1. l.data \in Seq(ShareEntry) /\ Len(l.data) \in Nat /\ DOMAIN l.data = 1 .. Len(l.data)
  BY DEF ShareList
<1>2. 1 .. (Len(l.data) + 1 - 1) = 1 .. Len(l.data)
  BY <1>1
<1> QED
  BY <1>1, <1>2 DEF Shares!Taken, Shares!SidsOf, SidsBefore

(* A further nonce was tried and its ID was taken.                         *)
LEMMA CollidedMore ==
    ASSUME NEW sp, NEW a \in Nat, NEW k, NEW m \in Nat, NEW S, Collided(sp, a, k, m, S)',
           mix'[<<sp, k, m>>] # Unasked, SidOf(mix'[<<sp, k, m>>]) \in S
    PROVE  Collided(sp, a, k, m + 1, S)'
<1> SUFFICES ASSUME NEW j \in a .. (m + 1 - 1)
             PROVE  mix'[<<sp, k, j>>] # Unasked /\ SidOf(mix'[<<sp, k, j>>]) \in S
  BY DEF Collided
<1>1. j = m \/ j \in a .. (m - 1)
  OBVIOUS
<1> QED
  BY <1>1 DEF Collided

(* A share is new, or the next nonce is tried.                             *)
LEMMA AddShareKeeps ==
    ASSUME SharesInv, Shares!ShareAssumption, NEW s \in Sessions, Shares!AddShare(s)
    PROVE  SharesInv'
<1>1. PICK l \in ShareList, sp \in Shares!Split : l = list[s] /\ sp = split[s]
  BY DEF SharesInv, SharesTyped
<1> DEFINE n == Len(l.data)
           q == <<sp, n + 1, l.nonce>>
<1>2. /\ l.nonce \in 0 .. MaxNonce /\ l.start \in 0 .. MaxNonce /\ MaxNonce \in Nat /\ l.start \in Nat
      /\ l.data \in Seq(ShareEntry) /\ n \in Nat /\ sp.count \in Nat
  BY SubSeedAssumption, SplitTyped DEF ShareList
<1>3. PICK seed \in Shares!Sampled(mix, q) :
        /\ mix' = [mix EXCEPT ![q] = seed]
        /\ list' = [list EXCEPT ![s] =
               IF SidOf(seed) \notin Shares!Taken(l)
               THEN Shares!Fill(s, [l EXCEPT
                      !.data = Append(@, [sid |-> SidOf(seed), idx |-> n + 1, nonce |-> l.nonce]),
                      !.nonce = l.start])
               ELSE IF l.nonce < MaxNonce THEN [l EXCEPT !.nonce = l.nonce + 1]
               ELSE Shares!Dead(l)]
  BY <1>1 DEF Shares!AddShare
<1>4. UNCHANGED <<whole, split, master, derived>>
  BY DEF Shares!AddShare
<1>5. l.pc = "shares"
  BY <1>1 DEF Shares!AddShare, Shares!At
<1>6. /\ n < sp.count - 1 /\ Valid(sp, l.start, l.data, n) /\ l.start <= l.nonce
      /\ Collided(sp, l.start, n + 1, l.nonce, SidsBefore(l.data, n + 1))
      /\ \A a \in 0 .. (l.start - 1) : Failed(sp, a)
      /\ sp.master => n >= 1
  BY <1>1, <1>5 DEF SharesInv, AllProgress, Progress
<1>7. n \in 0 .. sp.count /\ n + 1 \in 1 .. sp.count /\ q \in Shares!Split \X Shares!Indexes \X (0 .. MaxNonce)
  <2>1. n \in 0 .. sp.count /\ n + 1 \in 1 .. sp.count
    BY <1>2, <1>6
  <2> QED
    BY <1>2, <2>1, SplitTyped
<1> HIDE DEF q
<1>8. seed \in SUBSET Bits /\ seed # Unasked
  <2>1. seed \in SUBSET Bits
    BY <1>3, <1>7 DEF Shares!Sampled, SharesInv, SharesTyped, MixTyped, Shares!BitSeeds
  <2> QED
    BY <2>1 DEF Shares!ShareAssumption, Shares!BitSeeds
<1>9. MixTyped' /\ mix'[q] = seed
  BY <1>3, <1>7, <1>8 DEF SharesInv, SharesTyped, MixTyped
<1>10. MasterTyped' /\ DerivedTyped'
  BY <1>4 DEF SharesInv, SharesTyped, MasterTyped, DerivedTyped
<1>11. Grown
  <2>1. \A r \in Shares!Split \X Shares!Indexes \X (0 .. MaxNonce) : mix[r] # Unasked => mix'[r] = mix[r]
    BY <1>3, <1>7 DEF Shares!Sampled, SharesInv, SharesTyped, MixTyped
  <2> QED
    BY <1>4, <2>1 DEF Grown
<1>12. Valid(sp, l.start, l.data, n)'
  BY <1>2, <1>6, <1>7, <1>11, ValidKept DEF SharesInv, SharesTyped
<1>13. \A a \in 0 .. (l.start - 1) : Failed(sp, a)'
  <2>1. \A a \in 0 .. (l.start - 1) : a \in Nat
    BY <1>2
  <2> QED
    BY <1>6, <1>11, <2>1, FailedKept DEF SharesInv, SharesTyped
<1>14. \A d : SidsBefore(d, n + 1)' = SidsBefore(d, n + 1)
  BY <1>4 DEF SidsBefore
<1>15. PICK S : S = SidsBefore(l.data, n + 1)
  OBVIOUS
<1>16. Collided(sp, l.start, n + 1, l.nonce, S)'
  BY <1>2, <1>6, <1>7, <1>11, <1>15, CollidedKept
<1>17. Shares!Taken(l) = S
  BY <1>15, TakenIsSidsBefore
<1>18. CASE SidOf(seed) \notin S
  <2> DEFINE e == [sid |-> SidOf(seed), idx |-> n + 1, nonce |-> l.nonce]
  <2>1. PICK d : d = Append(l.data, e)
    OBVIOUS
  <2>2. e \in ShareEntry
    BY <1>2, <1>8 DEF ShareEntry, ShareSids
  <2> HIDE DEF e
  <2>3. /\ d \in Seq(ShareEntry) /\ Len(d) = n + 1 /\ d[n + 1] = e
        /\ \A k \in 1 .. n : d[k] = l.data[k]
    BY <1>2, <2>1, <2>2
  <2>4. SidsBefore(d, n + 1)' = S
    <3>1. \A j \in 1 .. (n + 1 - 1) : d[j] = l.data[j]
      BY <1>2, <2>3
    <3>2. SidsBefore(d, n + 1) = SidsBefore(l.data, n + 1)
      BY <3>1 DEF SidsBefore
    <3> QED
      BY <1>14, <1>15, <3>2
  <2>5. e.sid = SidOf(seed) /\ e.nonce = l.nonce
    BY DEF e
  <2>6. Valid(sp, l.start, d, n)'
    BY <1>2, <1>12, <2>3, ValidSame
  <2>7. Chosen(sp, l.start, d, n + 1)'
    <3>1. ~(n + 1 = 1 /\ sp.master)
      BY <1>2, <1>6
    <3>2. mix'[<<sp, n + 1, l.nonce>>] = seed
      BY <1>9 DEF q
    <3>3. d[n + 1].sid = SidOf(seed) /\ d[n + 1].nonce = l.nonce
      BY <2>3, <2>5
    <3>4. Collided(sp, l.start, n + 1, l.nonce, SidsBefore(d, n + 1))'
      BY <1>16, <2>4 DEF Collided
    <3> HIDE DEF n
    <3> QED
      BY <1>2, <1>6, <1>8, <1>18, <2>4, <3>1, <3>2, <3>3, <3>4 DEF Chosen
  <2>8. Valid(sp, l.start, d, n + 1)'
    <3>1. \A k \in 1 .. (n + 1) : k \in 1 .. n \/ k = n + 1
      BY <1>2
    <3> QED
      BY <2>6, <2>7, <3>1 DEF Valid
  <2>9. PICK y : y = [l EXCEPT !.data = d, !.nonce = l.start]
    OBVIOUS
  <2>10. y \in ShareList /\ y.start = l.start /\ y.nonce = l.start /\ y.data = d
    <3>1. d \in Seq(ShareEntry)
      BY <2>3
    <3> QED
      BY <1>2, <2>9, <3>1 DEF ShareList
  <2>11. PICK x : x = [y EXCEPT !.pc = IF Len(y.data) < sp.count - 1 THEN "shares" ELSE "last"]
    OBVIOUS
  <2>12. list' = [list EXCEPT ![s] = x]
    BY <1>1, <1>3, <1>17, <1>18, <2>1, <2>9, <2>11 DEF Shares!Fill, e
  <2>13. x \in ShareList /\ Progress(x, sp)'
    <3>1. /\ y.nonce = y.start /\ Len(y.data) <= sp.count - 1 /\ (sp.master => Len(y.data) >= 1)
      BY <1>2, <1>6, <2>3, <2>10
    <3>2. Valid(sp, y.start, y.data, Len(y.data))'
      BY <2>3, <2>8, <2>10
    <3>3. \A a \in 0 .. (y.start - 1) : Failed(sp, a)'
      BY <1>13, <2>10
    <3>4. y \in ShareList
      BY <2>10
    <3> QED
      BY <2>11, <3>1, <3>2, <3>3, <3>4, Filled
  <2> QED
    BY <1>1, <1>4, <1>9, <1>10, <1>11, <2>12, <2>13, ListChanged
<1>19. CASE SidOf(seed) \in S
  <2>1. PICK x : x = IF l.nonce < MaxNonce THEN [l EXCEPT !.nonce = l.nonce + 1] ELSE Shares!Dead(l)
    OBVIOUS
  <2>2. list' = [list EXCEPT ![s] = x]
    BY <1>1, <1>3, <1>17, <1>19, <2>1
  <2>3. x \in ShareList /\ Progress(x, sp)'
    <3>1. CASE l.nonce < MaxNonce
      <4>1. l.nonce + 1 \in 0 .. MaxNonce
        BY <1>2, <3>1
      <4>2. x \in ShareList /\ x.nonce = l.nonce + 1 /\ x.pc = "shares" /\ x.data = l.data /\ x.start = l.start
        BY <1>5, <2>1, <3>1, <4>1 DEF ShareList
      <4>4. mix'[<<sp, n + 1, l.nonce>>] # Unasked /\ SidOf(mix'[<<sp, n + 1, l.nonce>>]) \in S
        BY <1>8, <1>9, <1>19 DEF q
      <4>5. Collided(sp, l.start, n + 1, l.nonce + 1, S)'
        <5> HIDE DEF n
        <5> QED
          BY <1>2, <1>16, <4>4, CollidedMore
      <4>6. Collided(sp, x.start, Len(x.data) + 1, x.nonce, SidsBefore(x.data, Len(x.data) + 1))'
        BY <1>14, <1>15, <4>2, <4>5 DEF Collided
      <4>7. x.start <= x.nonce /\ Len(x.data) = n
        BY <1>2, <1>6, <4>2
      <4>8. Valid(sp, x.start, x.data, Len(x.data))'
        BY <1>12, <4>2
      <4>9. \A a \in 0 .. (x.start - 1) : Failed(sp, a)'
        BY <1>13, <4>2
      <4> QED
        BY <1>6, <4>2, <4>6, <4>7, <4>8, <4>9 DEF Progress
    <3>2. CASE ~(l.nonce < MaxNonce)
      <4>1. x \in ShareList /\ x.pc = "dead"
        BY <2>1, <3>2 DEF ShareList, Shares!Dead
      <4> QED
        BY <4>1 DEF Progress
    <3> QED
      BY <3>1, <3>2
  <2> QED
    BY <1>1, <1>4, <1>9, <1>10, <1>11, <2>2, <2>3, ListChanged
<1> QED
  BY <1>18, <1>19

(* The last share is new, or all but the master share are made again from  *)
(* the next start number.                                                  *)
LEMMA LastKeeps ==
    ASSUME SharesInv, Shares!ShareAssumption, NEW s \in Sessions, Shares!Last(s)
    PROVE  SharesInv'
<1>1. PICK l \in ShareList, sp \in Shares!Split : l = list[s] /\ sp = split[s]
  BY DEF SharesInv, SharesTyped
<1> DEFINE n == Len(l.data)
           c == sp.count
<1>2. /\ l.start \in 0 .. MaxNonce /\ MaxNonce \in Nat /\ l.start \in Nat
      /\ l.data \in Seq(ShareEntry) /\ n \in Nat /\ c \in Nat /\ c >= 2
  BY SubSeedAssumption, SplitTyped DEF ShareList
<1>3. PICK seed : seed = LastOf(sp, l.data)
  OBVIOUS
<1>4. UNCHANGED <<whole, split, mix, master, derived>>
  BY DEF Shares!Last
<1>5. l.pc = "last"
  BY <1>1 DEF Shares!Last, Shares!At
<1>6. /\ n = c - 1 /\ Valid(sp, l.start, l.data, c - 1)
      /\ \A a \in 0 .. (l.start - 1) : Failed(sp, a)
      /\ sp.master => n >= 1
  BY <1>1, <1>5 DEF SharesInv, AllProgress, Progress
<1>7. Shares!LastSeed(s) = seed
  <2>1. ASSUME NEW i \in 0 .. (c - 1), i # 0
        PROVE  Shares!Share(s, i, FALSE) = ShareOf(sp, l.data, i)
    <3>1. i # c
      BY <1>2
    <3> QED
      BY <1>1, <3>1 DEF Shares!Share, Shares!Base, ShareOf
  <2>2. [i \in 0 .. (c - 1) |-> IF i = 0 THEN whole ELSE Shares!Share(s, i, FALSE)]
        = [i \in 0 .. (c - 1) |-> IF i = 0 THEN whole ELSE ShareOf(sp, l.data, i)]
    BY <2>1
  <2> QED
    BY <1>1, <1>3, <2>2 DEF Shares!LastSeed, LastOf
<1>8. list' = [list EXCEPT ![s] =
           IF SidOf(seed) \notin Shares!Taken(l)
           THEN [l EXCEPT !.last = seed, !.pc = "ready",
                          !.data = Append(@, [sid |-> SidOf(seed), idx |-> c, nonce |-> l.start])]
           ELSE IF l.start < MaxNonce THEN Shares!Restart(s, l, l.start + 1)
           ELSE Shares!Dead(l)]
  BY <1>1, <1>7 DEF Shares!Last
<1>9. /\ MixTyped' /\ MasterTyped' /\ DerivedTyped' /\ Grown
  BY <1>4 DEF Grown, SharesInv, SharesTyped, MixTyped, MasterTyped, DerivedTyped
<1>10. seed \in SUBSET Bits
  BY <1>3 DEF LastOf, Shares!Xor
<1>11. Shares!Taken(l) = SidsBefore(l.data, c)
  <2>1. n + 1 = c
    BY <1>2, <1>6
  <2> QED
    BY <2>1, TakenIsSidsBefore
<1>12. Valid(sp, l.start, l.data, c - 1)' /\ LastOf(sp, l.data)' = seed
  BY <1>2, <1>3, <1>6, <1>9, LastKept DEF SharesInv, SharesTyped
<1>13. \A a \in 0 .. (l.start - 1) : Failed(sp, a)'
  <2>1. \A a \in 0 .. (l.start - 1) : a \in Nat
    BY <1>2
  <2> QED
    BY <1>6, <1>9, <2>1, FailedKept DEF SharesInv, SharesTyped
<1>14. \A d : SidsBefore(d, c)' = SidsBefore(d, c)
  BY <1>4 DEF SidsBefore
<1>15. CASE SidOf(seed) \notin SidsBefore(l.data, c)
  <2> DEFINE e == [sid |-> SidOf(seed), idx |-> c, nonce |-> l.start]
  <2>1. PICK d : d = Append(l.data, e)
    OBVIOUS
  <2>2. e \in ShareEntry
    BY <1>2, <1>10 DEF ShareEntry, ShareSids
  <2> HIDE DEF e
  <2>3. /\ d \in Seq(ShareEntry) /\ Len(d) = c /\ d[c] = e
        /\ \A k \in 1 .. (c - 1) : d[k] = l.data[k]
    BY <1>2, <1>6, <2>1, <2>2
  <2>4. e.sid = SidOf(seed)
    BY DEF e
  <2>5. Valid(sp, l.start, d, c - 1)'
    <3>1. c - 1 \in Nat
      BY <1>2
    <3> QED
      BY <1>12, <2>3, <3>1, ValidSame
  <2>6. LastOf(sp, d)' = seed
    <3>1. \A i \in 1 .. (c - 1) : (i = 1 => d[1] = l.data[1]) /\ d[i] = l.data[i]
      BY <2>3
    <3>2. \A i \in 1 .. (c - 1) : ShareOf(sp, d, i)' = ShareOf(sp, l.data, i)'
      BY <3>1 DEF ShareOf
    <3>3. [i \in 0 .. (c - 1) |-> IF i = 0 THEN whole' ELSE ShareOf(sp, d, i)']
          = [i \in 0 .. (c - 1) |-> IF i = 0 THEN whole' ELSE ShareOf(sp, l.data, i)']
      BY <1>2, <3>2
    <3>4. LastOf(sp, d)' = LastOf(sp, l.data)'
      BY <3>3 DEF LastOf
    <3> QED
      BY <1>12, <3>4
  <2>7. SidsBefore(d, c)' = SidsBefore(l.data, c)
    <3>1. SidsBefore(d, c) = SidsBefore(l.data, c)
      BY <2>3 DEF SidsBefore
    <3> QED
      BY <1>14, <3>1
  <2>8. PICK x : x = [l EXCEPT !.last = seed, !.pc = "ready", !.data = d]
    OBVIOUS
  <2>9. list' = [list EXCEPT ![s] = x]
    BY <1>8, <1>11, <1>15, <2>1, <2>8 DEF e
  <2>10. x \in ShareList /\ x.pc = "ready" /\ x.start = l.start /\ x.data = d /\ x.last = seed
    <3>1. d \in Seq(ShareEntry)
      BY <2>3
    <3> QED
      BY <1>10, <2>8, <3>1 DEF ShareList
  <2>11. Progress(x, sp)'
    <3>1. sp.master => Len(x.data) >= 1
      BY <1>2, <2>3, <2>10
    <3>2. \A a \in 0 .. (x.start - 1) : Failed(sp, a)'
      BY <1>13, <2>10
    <3>3. Len(x.data) = sp.count /\ Valid(sp, x.start, x.data, sp.count - 1)'
      BY <2>3, <2>5, <2>10
    <3>4. x.last = LastOf(sp, x.data)'
      BY <2>6, <2>10
    <3>5. x.data[sp.count].sid = SidOf(x.last) /\ SidOf(x.last) \notin SidsBefore(x.data, sp.count)'
      BY <1>15, <2>3, <2>4, <2>7, <2>10
    <3> QED
      BY <2>10, <3>1, <3>2, <3>3, <3>4, <3>5 DEF Progress
  <2> QED
    BY <1>1, <1>4, <1>9, <2>9, <2>10, <2>11, ListChanged
<1>16. CASE SidOf(seed) \in SidsBefore(l.data, c) /\ l.start < MaxNonce
  <2>1. Failed(sp, l.start)'
    <3>1. SidOf(LastOf(sp, l.data)') \in SidsBefore(l.data, c)'
      BY <1>12, <1>14, <1>16
    <3> QED
      BY <1>12, <3>1 DEF Failed
  <2>2. l.start + 1 \in 0 .. MaxNonce
    BY <1>2, <1>16
  <2>3. \A a \in 0 .. (l.start + 1 - 1) : Failed(sp, a)'
    <3>1. \A a \in 0 .. (l.start + 1 - 1) : a \in 0 .. (l.start - 1) \/ a = l.start
      BY <1>2
    <3> QED
      BY <1>13, <2>1, <3>1
  <2>4. sp.master => Len(l.data) >= 1 /\ Chosen(sp, l.start + 1, l.data, 1)'
    <3>1. 1 \in 1 .. (c - 1)
      BY <1>2
    <3>2. Chosen(sp, l.start, l.data, 1)'
      BY <1>12, <3>1 DEF Valid
    <3> QED
      BY <1>6, <3>2 DEF Chosen
  <2>5. PICK y : y = [l EXCEPT !.start = l.start + 1, !.nonce = l.start + 1,
                               !.data = IF sp.master THEN SubSeq(@, 1, 1) ELSE <<>>]
    OBVIOUS
  <2>6. PICK x : x = [y EXCEPT !.pc = IF Len(y.data) < sp.count - 1 THEN "shares" ELSE "last"]
    OBVIOUS
  <2>7. list' = [list EXCEPT ![s] = x]
    BY <1>1, <1>8, <1>11, <1>16, <2>5, <2>6 DEF Shares!Restart, Shares!Fill
  <2>8. x \in ShareList /\ Progress(x, sp)'
    <3>1. PICK start \in 0 .. MaxNonce : start = l.start + 1
      BY <2>2
    <3>2. /\ \A a \in 0 .. (start - 1) : Failed(sp, a)'
          /\ sp.master => Len(l.data) >= 1 /\ Chosen(sp, start, l.data, 1)'
      <4>1. sp.master => Len(l.data) >= 1 /\ Chosen(sp, start, l.data, 1)'
        BY <2>4 DEF Chosen
      <4>2. \A a \in 0 .. (start - 1) : a \in 0 .. (l.start + 1 - 1)
        BY <1>2, <3>1
      <4>3. \A a \in 0 .. (start - 1) : Failed(sp, a)'
        BY <2>3, <4>2
      <4> QED
        BY <4>1, <4>3
    <3>3. y = [l EXCEPT !.start = start, !.nonce = start, !.data = IF sp.master THEN SubSeq(@, 1, 1) ELSE <<>>]
      BY <2>5, <3>1
    <3> QED
      BY <2>6, <3>2, <3>3, Restarted
  <2> QED
    BY <1>1, <1>4, <1>9, <2>7, <2>8, ListChanged
<1>17. CASE SidOf(seed) \in SidsBefore(l.data, c) /\ ~(l.start < MaxNonce)
  <2>1. PICK x : x = Shares!Dead(l)
    OBVIOUS
  <2>2. list' = [list EXCEPT ![s] = x] /\ x \in ShareList /\ x.pc = "dead"
    BY <1>8, <1>11, <1>17, <2>1 DEF ShareList, Shares!Dead
  <2>3. Progress(x, sp)'
    BY <2>2 DEF Progress
  <2> QED
    BY <1>1, <1>4, <1>9, <2>2, <2>3, ListChanged
<1> QED
  BY <1>15, <1>16, <1>17

LEMMA SharesStep ==
    ASSUME Shares!ShareAssumption
    PROVE  SharesInv /\ [Shares!Next]_Shares!vars => SharesInv'
<1> SUFFICES ASSUME SharesInv, [Shares!Next]_Shares!vars PROVE SharesInv'
  OBVIOUS
<1>1. CASE UNCHANGED Shares!vars
  <2>1. Grown /\ list' = list /\ split' = split
    BY <1>1 DEF Shares!vars, Grown
  <2>2. SharesTyped'
    BY <1>1 DEF Shares!vars, SharesInv, SharesTyped, MixTyped, MasterTyped, DerivedTyped
  <2>3. AllProgress'
    BY <2>1, ProgressKept DEF SharesInv, SharesTyped, AllProgress
  <2> QED
    BY <2>2, <2>3 DEF SharesInv
<1>2. CASE Shares!Next
  BY <1>2, BeginKeeps, MasterKeeps, AddShareKeeps, LastKeeps DEF Shares!Next
<1> QED
  BY <1>1, <1>2

(* Shares of one split, whatever sessions made them, are the same.         *)
LEMMA SameSplit ==
    ASSUME SharesInv, Shares!ShareAssumption, NEW s \in Shares!Ready, NEW t \in Shares!Ready, split[t] = split[s]
    PROVE  /\ list[t].last = list[s].last
           /\ \A i \in 1 .. (split[s].count - 1) :
                ShareOf(split[s], list[t].data, i) = ShareOf(split[s], list[s].data, i)
<1>1. s \in Sessions /\ t \in Sessions /\ list[s].pc = "ready" /\ list[t].pc = "ready"
  BY DEF Shares!Ready
<1>2. PICK l \in ShareList, e \in ShareList, sp \in Shares!Split : l = list[s] /\ e = list[t] /\ sp = split[s]
  BY <1>1 DEF SharesInv, SharesTyped
<1>3. /\ Valid(sp, l.start, l.data, sp.count - 1) /\ l.last = LastOf(sp, l.data)
      /\ SidOf(l.last) \notin SidsBefore(l.data, sp.count) /\ \A a \in 0 .. (l.start - 1) : Failed(sp, a)
  BY <1>1, <1>2 DEF SharesInv, AllProgress, Progress
<1>4. /\ Valid(sp, e.start, e.data, sp.count - 1) /\ e.last = LastOf(sp, e.data)
      /\ SidOf(e.last) \notin SidsBefore(e.data, sp.count) /\ \A a \in 0 .. (e.start - 1) : Failed(sp, a)
  BY <1>1, <1>2 DEF SharesInv, AllProgress, Progress
<1>5. /\ l.start \in Nat /\ e.start \in Nat /\ sp.count \in Nat \ {0, 1}
  BY SubSeedAssumption, SplitTyped DEF ShareList
<1>6. ~Failed(sp, l.start)
  <2> SUFFICES ASSUME NEW d, Valid(sp, l.start, d, sp.count - 1), SidOf(LastOf(sp, d)) \in SidsBefore(d, sp.count)
               PROVE  FALSE
    BY DEF Failed
  <2> QED
    BY <1>3, <1>5, SameLast
<1>7. ~Failed(sp, e.start)
  <2> SUFFICES ASSUME NEW d, Valid(sp, e.start, d, sp.count - 1), SidOf(LastOf(sp, d)) \in SidsBefore(d, sp.count)
               PROVE  FALSE
    BY DEF Failed
  <2> QED
    BY <1>4, <1>5, SameLast
<1>8. ~(l.start < e.start) /\ ~(e.start < l.start)
  BY <1>3, <1>4, <1>5, <1>6, <1>7
<1>9. l.start = e.start
  BY <1>5, <1>8
<1>10. /\ \A i \in 1 .. (sp.count - 1) : ShareOf(sp, l.data, i) = ShareOf(sp, e.data, i)
       /\ LastOf(sp, l.data) = LastOf(sp, e.data)
  BY <1>3, <1>4, <1>5, <1>9, SameLast
<1> QED
  BY <1>2, <1>3, <1>4, <1>10

(* A master share has one base, whatever the split.                        *)
LEMMA SameBase ==
    ASSUME SharesInv, Shares!ShareAssumption, NEW s \in Shares!Ready, NEW t \in Shares!Ready,
           split[s].master, split[t].master
    PROVE  Shares!Base(s) = Shares!Base(t)
<1>1. ASSUME NEW u \in Shares!Ready, split[u].master
      PROVE  MasterAt(list[u].data[1].nonce)
  <2>1. PICK l \in ShareList, sp \in Shares!Split : l = list[u] /\ sp = split[u]
    BY DEF Shares!Ready, SharesInv, SharesTyped
  <2>2. Valid(sp, l.start, l.data, sp.count - 1)
    BY <2>1 DEF Shares!Ready, SharesInv, AllProgress, Progress
  <2>3. 1 \in 1 .. (sp.count - 1)
    BY SplitTyped
  <2> QED
    BY <1>1, <2>1, <2>2, <2>3 DEF Valid, Chosen
<1>2. PICK m, n : m = list[s].data[1].nonce /\ n = list[t].data[1].nonce
  OBVIOUS
<1>3. MasterAt(m) /\ MasterAt(n)
  BY <1>1, <1>2
<1>4. m \in Nat /\ n \in Nat /\ ~(m < n) /\ ~(n < m)
  BY <1>3, SubSeedAssumption DEF MasterAt
<1>5. m = n
  BY <1>4
<1> QED
  BY <1>2, <1>5 DEF Shares!Base

LEMMA SharesDoRejoin ==
    ASSUME Shares!ShareAssumption
    PROVE  SharesInv => Shares!SharesRejoin
<1>1. SharesInv => Shares!SharesRejoin
  <2> SUFFICES ASSUME SharesInv, NEW s \in Shares!Ready,
                      NEW from \in [1 .. split[s].count -> Shares!Ready],
                      \A i \in 1 .. split[s].count : from[i] \in Shares!Sources(s, i)
               PROVE  Shares!Joined(split[s].count, split[s].master, [i \in 1 .. split[s].count |->
                        IF split[s].master /\ i = 1 THEN Shares!Base(from[i]) ELSE Shares!Share(from[i], i, TRUE)])
                      = whole
    BY DEF Shares!SharesRejoin
  <2>1. PICK sp \in Shares!Split, l \in ShareList : sp = split[s] /\ l = list[s]
    BY DEF Shares!Ready, SharesInv, SharesTyped
  <2>2. PICK c \in Nat \ {0, 1} : c = sp.count
    BY SplitTyped
  <2>3. PICK w \in BOOLEAN : w = sp.master
    BY DEF Shares!Split
  <2> DEFINE kept == [i \in 1 .. c |-> IF w /\ i = 1 THEN Shares!Base(from[i]) ELSE Shares!Share(from[i], i, TRUE)]
             g == [i \in 1 .. c |-> IF i = 1 /\ w THEN derived[<<kept[1], c>>] ELSE kept[i]]
  <2>4. ASSUME NEW i \in 1 .. c, ~(i = 1 /\ w)
        PROVE  split[from[i]] = sp /\ from[i] \in Shares!Ready
    BY <2>1, <2>2, <2>3, <2>4 DEF Shares!Sources
  <2>5. 1 \in 1 .. c /\ c \in 1 .. c /\ 1 # c
    BY <2>2
  <2>6. ASSUME NEW i \in 1 .. (c - 1)
        PROVE  g[i] = ShareOf(sp, l.data, i)
    <3>1. i \in 1 .. c /\ i # c
      OBVIOUS
    <3>2. CASE i = 1 /\ w
      <4>1. from[1] \in Shares!Ready /\ split[from[1]].master
        BY <2>1, <2>2, <2>3, <2>5, <3>2 DEF Shares!Sources
      <4>2. Shares!Base(from[1]) = Shares!Base(s)
        BY <2>1, <2>3, <3>2, <4>1, SameBase
      <4>3. g[1] = derived[<<Shares!Base(s), c>>]
        BY <2>5, <3>2, <4>2
      <4> HIDE DEF g
      <4> QED
        BY <2>1, <2>2, <2>3, <3>2, <4>3 DEF Shares!Base, ShareOf
    <3>3. CASE ~(i = 1 /\ w)
      <4>1. split[from[i]] = sp /\ from[i] \in Shares!Ready
        BY <2>4, <3>1, <3>3
      <4>2. g[i] = Shares!Share(from[i], i, TRUE)
        BY <3>1, <3>3
      <4> HIDE DEF g
      <4>3. Shares!Share(from[i], i, TRUE) = ShareOf(sp, list[from[i]].data, i)
        BY <2>2, <2>3, <3>1, <3>3, <4>1 DEF Shares!Share, ShareOf
      <4> QED
        BY <2>1, <2>2, <4>1, <4>2, <4>3, SameSplit
    <3> QED
      BY <3>2, <3>3
  <2>7. g[c] = LastOf(sp, l.data)
    <3>1. split[from[c]] = sp /\ from[c] \in Shares!Ready
      BY <2>4, <2>5
    <3>2. g[c] = Shares!Share(from[c], c, TRUE)
      BY <2>5
    <3> HIDE DEF g
    <3>3. Shares!Share(from[c], c, TRUE) = list[from[c]].last
      BY <2>2, <3>1 DEF Shares!Share
    <3>4. list[from[c]].last = l.last
      BY <2>1, <3>1, SameSplit
    <3>5. l.last = LastOf(sp, l.data)
      BY <2>1 DEF Shares!Ready, SharesInv, AllProgress, Progress
    <3> QED
      BY <3>2, <3>3, <3>4, <3>5
  <2>8. DOMAIN g = 1 .. c
    OBVIOUS
  <2>9. Shares!Joined(c, w, kept) = Shares!Xor(g)
    BY DEF Shares!Joined
  <2> HIDE DEF g
  <2>10. [i \in 0 .. (c - 1) |-> IF i = 0 THEN whole ELSE ShareOf(sp, l.data, i)]
         = [i \in 0 .. (c - 1) |-> IF i = 0 THEN whole ELSE g[i]]
    BY <2>2, <2>6
  <2>11. g[c] = Shares!Xor([i \in 0 .. (c - 1) |-> IF i = 0 THEN whole ELSE g[i]])
    BY <2>2, <2>7, <2>10 DEF LastOf
  <2>12. Shares!Xor(g) = whole
    BY <2>2, <2>8, <2>11, XorBack DEF SharesInv, SharesTyped
  <2> QED
    BY <2>1, <2>2, <2>3, <2>9, <2>12
<1> QED
  BY <1>1

(* Shares of a split, each from whatever session, XOR to the seed; and a   *)
(* master share of one session serves the splits of all others.            *)
THEOREM SharesAlwaysRejoin ==
    ASSUME Shares!ShareAssumption
    PROVE  Shares!Spec => []Shares!SharesRejoin
BY SharesDoRejoin, SharesInit, SharesStep, PTL DEF Shares!Spec

LEMMA ShareIdsDiffer ==
    ASSUME Shares!ShareAssumption
    PROVE  SharesInv => Shares!ShareIdsUnique
<1>1. SharesInv => Shares!ShareIdsUnique
  <2> SUFFICES ASSUME SharesInv, NEW s \in Shares!Ready
               PROVE  \A i \in 1 .. split[s].count :
                        /\ SidOf(Shares!Share(s, i, TRUE)) = list[s].data[i].sid
                        /\ list[s].data[i].sid # SidOf(whole)
                        /\ \A j \in 1 .. split[s].count : list[s].data[i].sid = list[s].data[j].sid => i = j
    BY DEF Shares!ShareIdsUnique
  <2>1. PICK sp \in Shares!Split, l \in ShareList : sp = split[s] /\ l = list[s]
    BY DEF Shares!Ready, SharesInv, SharesTyped
  <2>2. sp.count \in Nat /\ sp.count >= 2
    BY SplitTyped
  <2>3. /\ Valid(sp, l.start, l.data, sp.count - 1)
        /\ l.data[sp.count].sid = SidOf(l.last) /\ SidOf(l.last) \notin SidsBefore(l.data, sp.count)
    BY <2>1 DEF Shares!Ready, SharesInv, AllProgress, Progress
  <2>4. ASSUME NEW i \in 1 .. sp.count
        PROVE  /\ SidOf(Shares!Share(s, i, TRUE)) = l.data[i].sid /\ l.data[i].sid # SidOf(whole)
               /\ i = 1 \/ l.data[i].sid \notin SidsBefore(l.data, i)
    <3>1. CASE i = sp.count
      <4>1. l.data[i].sid \notin SidsBefore(l.data, i) /\ Shares!Share(s, i, TRUE) = l.last
        BY <2>1, <2>3, <3>1 DEF Shares!Share
      <4>2. l.data[i].sid # SidOf(whole)
        BY <4>1 DEF SidsBefore
      <4>3. SidOf(Shares!Share(s, i, TRUE)) = SidOf(l.last)
        BY <4>1
      <4>4. SidOf(l.last) = l.data[i].sid
        BY <2>3, <3>1
      <4> QED
        BY <4>1, <4>2, <4>3, <4>4
    <3>2. CASE i # sp.count
      <4>1. Chosen(sp, l.start, l.data, i)
        <5>1. i \in 1 .. (sp.count - 1)
          BY <2>2, <3>2
        <5> QED
          BY <2>3, <5>1 DEF Valid
      <4>2. CASE i = 1 /\ sp.master
        BY <2>1, <3>2, <4>1, <4>2 DEF Chosen, MasterAt, Shares!Share, Shares!Base
      <4>3. CASE ~(i = 1 /\ sp.master)
        BY <2>1, <3>2, <4>1, <4>3 DEF Chosen, Shares!Share, SidsBefore
      <4> QED
        BY <4>2, <4>3
    <3> QED
      BY <3>1, <3>2
  <2>5. ASSUME NEW i \in 1 .. sp.count, NEW j \in 1 .. sp.count, i < j
        PROVE  l.data[i].sid # l.data[j].sid
    <3>1. j # 1 /\ i \in 1 .. (j - 1)
      BY <2>2, <2>5
    <3>2. l.data[j].sid \notin SidsBefore(l.data, j)
      BY <2>4, <3>1
    <3> QED
      BY <3>1, <3>2 DEF SidsBefore
  <2>6. \A i, j \in 1 .. sp.count : l.data[i].sid = l.data[j].sid => i = j
    <3>1. \A i, j \in 1 .. sp.count : i < j \/ j < i \/ i = j
      BY <2>2
    <3> QED
      BY <2>5, <3>1
  <2> QED
    BY <2>1, <2>4, <2>6
<1> QED
  BY <1>1

(* Each share of a split has a Seed ID of its own, which is not the        *)
(* parent's, so that a share looked up by ID is the right one.             *)
THEOREM ShareIdsAlwaysUnique ==
    ASSUME Shares!ShareAssumption
    PROVE  Shares!Spec => []Shares!ShareIdsUnique
BY ShareIdsDiffer, SharesInit, SharesStep, PTL DEF Shares!Spec

(* Both together, of the subjects as the run composes them (MCSeeds), for  *)
(* any seeds, splits and sessions.                                         *)
THEOREM SharesAlwaysRight == MCSpec => []SharesRejoin
<1> DEFINE I == subject = "shares" => SharesInv
<1>1. MCInit => I
  <2> SUFFICES ASSUME MCInit, subject = "shares" PROVE SharesInv
    OBVIOUS
  <2>1. \E p \in SUBSET Bits, f \in [Sessions -> Shares!Split] : Shares!InitOf(p, f)
    BY DEF MCInit, HostedInit
  <2>2. Shares!Init
    BY <2>1 DEF Shares!Init, Shares!BitSeeds
  <2> QED
    BY <2>2, SharesInit, ShareConstants
<1>2. I /\ [MCNext]_allVars => I'
  <2> SUFFICES ASSUME I, [MCNext]_allVars, subject' = "shares" PROVE SharesInv'
    OBVIOUS
  <2>1. subject = "shares" /\ [Shares!Next]_Shares!vars
    BY DEF MCNext, HostedNext, allVars, shared
  <2> QED
    BY <2>1, SharesStep, ShareConstants
<1>3. I => SharesRejoin
  BY SharesDoRejoin, ShareIdsDiffer, ShareConstants DEF SharesRejoin
<1> QED
  BY <1>1, <1>2, <1>3, PTL DEF MCSpec
----------------------------------------------------------------------------
(* Wallets, and the commands that make and change them (Wallets).         *)
Seeded == {"s", "new", "other", "none"}

(* The name a wallet has, diverted or not.                                *)
NameOf(w, d) ==
    LET f == Vault!Filename(w) IN
    [ext |-> f.ext, sid |-> f.sid, len |-> f.len, hp |-> f.hp, div |-> d, id |-> f.id, iv |-> f.iv]

Named(n, w) == \E dir \in {"data", "work"}, d \in BOOLEAN : n = <<dir, NameOf(w, d)>>

Hidden == {w \in Vault!WalletSet : w.type = "incog_hidden"}

Places == {"idle", "start", "decrypt", "opened", "rename", "hide", "create", "write", "shred", "changed"}

FilesTyped ==
    /\ IsFiniteSet(DOMAIN disk)
    /\ \A n \in DOMAIN disk : disk[n] \in Vault!WalletSet /\ disk[n].type # "incog_hidden" /\ Named(n, disk[n])

BoxTyped == box \in [there : BOOLEAN, at : [Offsets -> Hidden]]

HandTyped ==
    /\ pc \in Places /\ (pc # "idle" => job \in Jobs)
    /\ in \in Vault!WalletSet /\ out \in Vault!WalletSet /\ out.whole /\ ~out.typo

NoTypos ==
    agreed = {} => (\A n \in DOMAIN disk : ~disk[n].typo) /\ (\A o \in Offsets : ~box.at[o].typo)

(* What was opened, before it is decrypted. *)
Locked ==
    pc = "decrypt" =>
        /\ in.type \in Vault!Hashed
        /\ \/ /\ old \in DOMAIN disk /\ old[1] \in {"data", "work"}
              /\ in = Vault!Read(disk[old]) /\ (in.type = "mmgen" => ~disk[old].typo)
           \/ old[1] = "box" /\ in = box.at[job.off]
           \/ old[1] = "none" /\ in.type = "brain"

Working == {"decrypt", "opened", "rename", "hide", "create", "write", "shred"}

Writing == {"rename", "hide", "create", "write", "shred"}

(* What passchg has in hand is what is in the old file. *)
Changing ==
    pc \in Working /\ job.cmd = "passchg" =>
        \/ /\ old \in DOMAIN disk /\ disk[old].whole
           /\ in.type = disk[old].type
           /\ agreed = {} /\ in.type # "brain" => in.seed = disk[old].seed
        \/ old = Vault!Nowhere("box") /\ in.type = "incog_hidden"
        \/ old = Vault!NoPath /\ in.type \in Vault!StdinOk

Replacing ==
    /\ pc \in Writing =>
        /\ out.seed = in.seed
        /\ job.cmd = "passchg" => out.type = in.type /\ in.type # "brain"
    /\ pc \in {"create", "write"} => out.type # "incog_hidden"
    /\ pc = "hide" => out.type = "incog_hidden"
    /\ pc \in {"hide", "create", "write", "shred"} /\ job.cmd = "passchg" => old[2] # Vault!Filename(out)
    /\ pc = "write" => disk[Vault!Path(Vault!OutDir, out)] = [out EXCEPT !.whole = FALSE]
    /\ pc = "write" => Vault!Path(Vault!OutDir, out) \in DOMAIN disk
    /\ pc = "shred" =>
        /\ job.cmd = "passchg"
        /\ old[1] # "box" => Vault!Path(Vault!OutDir, out) \in DOMAIN disk /\ disk[Vault!Path(Vault!OutDir, out)] = out

(* The default wallet is the only one, but for the new one. *)
OnlyDefault ==
    pc \in Working /\ job.cmd = "passchg" /\ old[1] = "data" =>
        /\ in.type = "mmgen"
        /\ Vault!Defaults \subseteq {old} \union (IF pc \in {"write", "shred"} THEN {Vault!Path("data", out)} ELSE {})

VaultInv ==
    /\ FilesTyped /\ BoxTyped /\ HandTyped /\ NoTypos
    /\ Locked /\ Changing /\ Replacing /\ OnlyDefault /\ Vault!WalletsOpen

LEMMA Names ==
    ASSUME NEW w \in Vault!WalletSet, NEW d \in BOOLEAN
    PROVE  /\ NameOf(w, d).div = d /\ NameOf(w, d).ext = w.type /\ NameOf(w, d).sid = w.seed
           /\ NameOf(w, FALSE) = Vault!Filename(w)
           /\ \A e \in BOOLEAN : [NameOf(w, d) EXCEPT !.div = e] = NameOf(w, e)
<1>1. /\ NameOf(w, d).div = d /\ NameOf(w, d).ext = w.type /\ NameOf(w, d).sid = w.seed
  BY DEF NameOf, Vault!Filename
<1>2. \A e \in BOOLEAN : [NameOf(w, d) EXCEPT !.div = e] = NameOf(w, e)
  BY DEF NameOf
<1>3. NameOf(w, FALSE) = Vault!Filename(w)
  <2> DEFINE i == IF w.type \in Vault!Passworded THEN KeyId(Vault!Key(w)) ELSE 0
             v == IF w.type = "incog" THEN w.salt ELSE 0
  <2>1. Vault!Filename(w) = [ext |-> w.type, sid |-> w.seed, len |-> w.len, hp |-> w.hp, div |-> FALSE, id |-> i, iv |-> v]
    BY DEF Vault!Filename
  <2> HIDE DEF i, v
  <2> QED
    BY <2>1 DEF NameOf
<1> QED
  BY <1>1, <1>2, <1>3

(* A wallet just made, and one cut short, have their names.                *)
LEMMA Filenames ==
    ASSUME NEW w \in Vault!WalletSet
    PROVE  LET v == [w EXCEPT !.whole = FALSE] IN
           /\ v \in Vault!WalletSet /\ v.type = w.type /\ v.seed = w.seed /\ v.typo = w.typo /\ ~v.whole
           /\ \A d \in BOOLEAN : NameOf(v, d) = NameOf(w, d)
<1> DEFINE v == [w EXCEPT !.whole = FALSE]
<1>1. /\ v \in Vault!WalletSet /\ v.type = w.type /\ v.seed = w.seed /\ v.typo = w.typo /\ ~v.whole
      /\ v.len = w.len /\ v.hp = w.hp /\ v.salt = w.salt /\ v.pw = w.pw
  BY DEF Vault!WalletSet
<1> HIDE DEF v
<1>2. Vault!Key(v) = Vault!Key(w)
  BY <1>1 DEF Vault!Key
<1>3. Vault!Filename(v) = Vault!Filename(w)
  BY <1>1, <1>2 DEF Vault!Filename
<1> QED
  BY <1>1, <1>3 DEF NameOf, v

LEMMA Constants ==
    ASSUME NEW t \in Vault!Formats, NEW s \in Seeded, NEW n \in Nat
    PROVE  /\ Vault!Wallet(t, s, n) \in Vault!WalletSet
           /\ Vault!Wallet(t, s, n).type = t /\ Vault!Wallet(t, s, n).seed = s /\ Vault!Wallet(t, s, n).len = n
           /\ Vault!Wallet(t, s, n).whole /\ ~Vault!Wallet(t, s, n).typo
BY DEF Vault!Wallet, Vault!WalletSet, Vault!Given, Seeded

LEMMA NoWallets ==
    /\ Vault!NoWallet \in Vault!WalletSet /\ Vault!NoWallet.whole /\ ~Vault!NoWallet.typo
    /\ Vault!Random \in Hidden /\ Vault!Random.seed = "none" /\ ~Vault!Random.typo
<1>1. {"none", "incog_hidden"} \subseteq Vault!Formats /\ "none" \in Seeded
  BY DEF Vault!Formats, Vault!Hashed, Seeded
<1>2. Vault!NoWallet \in Vault!WalletSet /\ Vault!NoWallet.whole /\ ~Vault!NoWallet.typo
  BY <1>1, Constants DEF Vault!NoWallet
<1>3. Vault!Random \in Vault!WalletSet /\ Vault!Random.type = "incog_hidden" /\ Vault!Random.seed = "none" /\ ~Vault!Random.typo
  BY <1>1, Constants DEF Vault!Random
<1> QED
  BY <1>2, <1>3 DEF Hidden

(* Names with nothing behind them.                                         *)
LEMMA Nowheres ==
    ASSUME NEW d
    PROVE  /\ Vault!Nowhere(d)[1] = d /\ Vault!NoPath[1] = "none"
           /\ Vault!NoPath[2] = Vault!Nowhere(d)[2] /\ Vault!NoPath[2].ext = "none"
BY DEF Vault!Nowhere, Vault!NoPath, Vault!Path, Vault!Filename, Vault!NoWallet, Vault!Wallet

LEMMA Reading ==
    ASSUME NEW w \in Vault!WalletSet
    PROVE  /\ Vault!Read(w) \in Vault!WalletSet /\ Vault!Read(w).type = w.type /\ Vault!Read(w).typo = w.typo
           /\ ~w.typo \/ w.type \in Vault!Incog => Vault!Read(w) = w
           /\ Vault!Read(w).len = w.len
<1>1. CASE w.typo /\ w.type \notin Vault!Incog
  <2>1. Vault!Read(w) = [w EXCEPT !.seed = "other"]
    BY <1>1 DEF Vault!Read
  <2> QED
    BY <1>1, <2>1 DEF Vault!WalletSet
<1>2. CASE ~(w.typo /\ w.type \notin Vault!Incog)
  BY <1>2 DEF Vault!Read
<1> QED
  BY <1>1, <1>2

LEMMA NamedAs ==
    ASSUME NEW n, NEW w \in Vault!WalletSet, Named(n, w)
    PROVE  /\ n = <<n[1], n[2]>> /\ n[1] \in {"data", "work"} /\ n[2].div \in BOOLEAN
           /\ n[2] = NameOf(w, n[2].div) /\ n[2].ext = w.type /\ n[2].sid = w.seed
<1>1. PICK dir \in {"data", "work"}, d \in BOOLEAN : n = <<dir, NameOf(w, d)>>
  BY DEF Named
<1>2. n[1] = dir /\ n[2] = NameOf(w, d)
  BY <1>1
<1> QED
  BY <1>1, <1>2, Names

(* While files, container and agreement are left alone, what they hold is. *)
LEMMA FilesKept ==
    ASSUME VaultInv, UNCHANGED <<disk, box, agreed>>
    PROVE  FilesTyped' /\ BoxTyped' /\ NoTypos' /\ Vault!StillThere'
<1>1. FilesTyped'
  BY DEF VaultInv, FilesTyped
<1>2. BoxTyped' /\ NoTypos' /\ Vault!StillThere'
  BY DEF VaultInv, BoxTyped, NoTypos, Vault!WalletsOpen, Vault!StillThere
<1> QED
  BY <1>1, <1>2

(* What remains when a command ends, whatever it was doing.                *)
LEMMA Ended ==
    ASSUME pc' = "idle", in' = Vault!NoWallet, out' = Vault!NoWallet,
           FilesTyped', BoxTyped', NoTypos', Vault!StillThere'
    PROVE  VaultInv'
<1>1. HandTyped'
  BY NoWallets DEF HandTyped, Places
<1>2. Locked' /\ Changing' /\ Replacing' /\ OnlyDefault'
  BY DEF Locked, Changing, Replacing, OnlyDefault, Working, Writing
<1>3. Vault!OpenedIsTrue' /\ Vault!OldIsGone'
  BY DEF Vault!OpenedIsTrue, Vault!OldIsGone
<1> QED
  BY <1>1, <1>2, <1>3 DEF VaultInv, Vault!WalletsOpen

LEMMA VaultStarts == ASSUME Vault!WalletsAssumption, Vault!Init PROVE VaultInv
<1>1. PICK w \in Worlds :
        /\ disk = [n \in IF w[1] = "box" THEN {} ELSE {Vault!Path(w[1], w[2])} |-> w[2]]
        /\ box = [there |-> w[1] = "box", at |-> [o \in Offsets |-> IF w[1] = "box" /\ o = w[3] THEN w[2] ELSE Vault!Random]]
        /\ agreed = IF w[2].typo THEN {"typo"} ELSE {}
  BY DEF Vault!Init
<1>2. pc = "idle" /\ in = Vault!NoWallet /\ out = Vault!NoWallet
  BY DEF Vault!Init
<1>3. /\ w[1] \in {"data", "work", "box"} /\ w[2] \in Vault!WalletSet /\ w[2].seed = "s" /\ w[2].whole
      /\ w[1] = "box" <=> w[2].type = "incog_hidden"
      /\ w[1] = "box" => w[3] \in Offsets
  BY DEF Vault!WalletsAssumption
<1>7. Vault!NoWallet \in Vault!WalletSet /\ Vault!NoWallet.whole /\ ~Vault!NoWallet.typo
  BY NoWallets
<1>8. HandTyped
  BY <1>2, <1>7 DEF HandTyped, Places
<1>4. Vault!Random \in Hidden /\ ~Vault!Random.typo /\ w[2].typo \in BOOLEAN
  BY <1>3, NoWallets DEF Vault!WalletSet
<1>5. CASE w[1] = "box"
  <2>1. DOMAIN disk = {} /\ IsFiniteSet(DOMAIN disk)
    BY <1>1, <1>5, FS_EmptySet
  <2>2. w[2] \in Hidden
    BY <1>3, <1>5 DEF Hidden
  <2>3. /\ box \in [there : BOOLEAN, at : [Offsets -> Hidden]] /\ box.there
        /\ box.at[w[3]] = w[2] /\ DOMAIN box.at = Offsets
        /\ \A o \in Offsets : box.at[o] \in {w[2], Vault!Random}
    BY <1>1, <1>3, <1>4, <1>5, <2>2
  <2>4. FilesTyped /\ BoxTyped
    BY <2>1, <2>3 DEF FilesTyped, BoxTyped
  <2>5. NoTypos
    BY <1>1, <1>4, <2>1, <2>3 DEF NoTypos
  <2>6. Vault!StillThere
    BY <1>1, <1>3, <1>4, <1>5, <2>3 DEF Vault!StillThere, Vault!Holds
  <2> QED
    BY <1>2, <1>8, <2>4, <2>5, <2>6 DEF VaultInv, Locked, Changing, Replacing, OnlyDefault, Vault!WalletsOpen, Working, Writing,
       Vault!OpenedIsTrue, Vault!OldIsGone
<1>6. CASE w[1] # "box"
  <2> DEFINE n == Vault!Path(w[1], w[2])
  <2>1. DOMAIN disk = {n} /\ disk[n] = w[2] /\ IsFiniteSet(DOMAIN disk)
    BY <1>1, <1>6, FS_Singleton
  <2>2. Named(n, w[2])
    <3>1. n = <<w[1], NameOf(w[2], FALSE)>>
      BY <1>3, Names DEF Vault!Path
    <3> QED
      BY <1>3, <1>6, <3>1 DEF Named
  <2>3. box \in [there : BOOLEAN, at : [Offsets -> Hidden]] /\ \A o \in Offsets : box.at[o] = Vault!Random
    BY <1>1, <1>4, <1>6
  <2> HIDE DEF n
  <2>4. FilesTyped /\ BoxTyped
    BY <1>3, <1>6, <2>1, <2>2, <2>3 DEF FilesTyped, BoxTyped
  <2>5. NoTypos
    BY <1>1, <1>4, <2>1, <2>3 DEF NoTypos
  <2>6. Vault!StillThere
    BY <1>1, <1>3, <1>4, <1>6, <2>1 DEF Vault!StillThere, Vault!Holds
  <2> QED
    BY <1>2, <1>8, <2>4, <2>5, <2>6 DEF VaultInv, Locked, Changing, Replacing, OnlyDefault, Vault!WalletsOpen, Working, Writing,
       Vault!OpenedIsTrue, Vault!OldIsGone
<1> QED
  BY <1>5, <1>6

LEMMA StartStep ==
    ASSUME Vault!WalletsAssumption, VaultInv, NEW j \in Jobs, Vault!Start(j)
    PROVE  VaultInv'
<1>1. pc = "idle" /\ pc' = "start" /\ job' = j /\ UNCHANGED <<disk, box, in, old, out, agreed>>
  BY DEF Vault!Start
<1>2. HandTyped'
  BY <1>1 DEF VaultInv, HandTyped, Places
<1>3. Locked' /\ Changing' /\ Replacing' /\ OnlyDefault' /\ Vault!OpenedIsTrue' /\ Vault!OldIsGone'
  BY <1>1 DEF Locked, Changing, Replacing, OnlyDefault, Working, Writing, Vault!OpenedIsTrue, Vault!OldIsGone
<1> QED
  BY <1>1, <1>2, <1>3, FilesKept DEF VaultInv, Vault!WalletsOpen

(* A wallet that is opened, and where it was found.                        *)
LEMMA Formatted ==
    ASSUME NEW w \in Vault!WalletSet, Vault!Deformats(w)
    PROVE  w.whole /\ (w.type \in {"mmgen", "mmhex", "seed"} => ~w.typo)
BY DEF Vault!Deformats, Vault!WalletSet

LEMMA JobTyped ==
    ASSUME Vault!WalletsAssumption, VaultInv, pc # "idle"
    PROVE  /\ job \in Vault!Job /\ Vault!SeedLen \in Nat
           /\ job.cmd \in {"passchg", "conv", "gen", "chk"} /\ job.type \in Vault!Formats /\ job.out \in Vault!Formats
           /\ job.off \in Offsets /\ job.outoff \in Offsets /\ job.pwfile \in Vault!Given(Passwords)
           /\ job.hp \in Nat /\ job.label \in Vault!Given(Labels) /\ job.dir \in {"data", "work"}
<1>1. job \in Vault!Job
  BY DEF VaultInv, HandTyped, Vault!WalletsAssumption
<1> QED
  BY <1>1 DEF Vault!Job, Vault!SeedLen

LEMMA AsOpened ==
    ASSUME Vault!WalletsAssumption, VaultInv, pc = "start", UNCHANGED <<disk, box, job, agreed, done>>,
           NEW w \in Vault!WalletSet, NEW n, Vault!Opening(w, n), ~Vault!End
    PROVE  /\ Vault!Deformats(w) /\ in' = Vault!Read(w) /\ old' = n /\ out' = Vault!NoWallet
           /\ pc' = IF w.type \in Vault!Hashed THEN "decrypt" ELSE "opened"
           /\ HandTyped'
           /\ Replacing' /\ Vault!OldIsGone'
<1>1. /\ Vault!Deformats(w) /\ in' = Vault!Read(w) /\ old' = n /\ out' = Vault!NoWallet
      /\ pc' = IF w.type \in Vault!Hashed THEN "decrypt" ELSE "opened"
  BY DEF Vault!Opening
<1>2. Vault!Read(w) \in Vault!WalletSet /\ Vault!NoWallet \in Vault!WalletSet /\ Vault!NoWallet.whole /\ ~Vault!NoWallet.typo
  BY Reading, NoWallets
<1>3. pc' \in {"decrypt", "opened"}
  BY <1>1
<1>4. HandTyped'
  BY <1>1, <1>2, <1>3 DEF VaultInv, HandTyped, Places
<1>5. Replacing' /\ Vault!OldIsGone'
  BY <1>3 DEF Replacing, Writing, Vault!OldIsGone
<1> QED
  BY <1>1, <1>4, <1>5

LEMMA Sized == ASSUME NEW T PROVE Vault!Cardinality(T) = Cardinality(T)
BY DEF Vault!Cardinality, Cardinality

LEMMA OneDefault ==
    ASSUME VaultInv, NEW n \in Vault!Defaults, ~(Cardinality(Vault!Defaults) > 1)
    PROVE  Vault!Defaults = {n}
<1> DEFINE D == Vault!Defaults
<1>1. D \subseteq DOMAIN disk /\ n \in D
  BY DEF Vault!Defaults
<1> HIDE DEF D
<1>2. IsFiniteSet(D)
  BY <1>1, FS_Subset DEF VaultInv, FilesTyped
<1>3. Cardinality(D) \in Nat /\ ~(Cardinality(D) > 1)
  BY <1>2, FS_CardinalityType DEF D
<1>4. IsFiniteSet(D \ {n}) /\ Cardinality(D \ {n}) = Cardinality(D) - 1
  BY <1>1, <1>2, FS_RemoveElement
<1>5. Cardinality(D \ {n}) \in Nat
  BY <1>4, FS_CardinalityType
<1>6. D \ {n} = {}
  BY <1>3, <1>4, <1>5, FS_EmptySet
<1> QED
  BY <1>1, <1>6 DEF D

LEMMA GetFile ==
    ASSUME Vault!WalletsAssumption, VaultInv, pc = "start", UNCHANGED <<disk, box, job, agreed, done>>,
           ~(Cardinality(Vault!Defaults) > 1),
           NEW n \in Vault!Sources, Vault!Opening(disk[n], n), ~Vault!End
    PROVE  VaultInv'
<1> DEFINE w == disk[n]
<1>1. /\ n \in DOMAIN disk /\ ~n[2].div
      /\ n[1] = "data" => n \in Vault!Defaults
  BY DEF Vault!Sources, Vault!Defaults
<1>2. w \in Vault!WalletSet /\ w.type # "incog_hidden" /\ Named(n, w)
  BY <1>1 DEF VaultInv, FilesTyped
<1>3. n[1] \in {"data", "work"} /\ n[2].ext = w.type
  BY <1>2, NamedAs
<1> HIDE DEF w
<1>4. Vault!Opening(w, n)
  BY DEF w
<1>5. /\ Vault!Deformats(w) /\ in' = Vault!Read(w) /\ old' = n
      /\ pc' = IF w.type \in Vault!Hashed THEN "decrypt" ELSE "opened"
      /\ HandTyped' /\ Replacing' /\ Vault!OldIsGone'
  BY <1>2, <1>4, AsOpened
<1>6. w.whole /\ (w.type \in {"mmgen", "mmhex", "seed"} => ~w.typo)
  BY <1>2, <1>5, Formatted
<1>7. /\ in'.type = w.type
      /\ ~w.typo \/ w.type \in Vault!Incog => in' = w
  BY <1>2, <1>5, Reading
<1>8. disk'[old'] = w /\ old' \in DOMAIN disk' /\ old'[1] = n[1]
  BY <1>1, <1>5 DEF w
<1>9. Locked'
  BY <1>3, <1>5, <1>6, <1>7, <1>8 DEF Locked
<1>10. agreed' = {} => ~w.typo
  BY <1>1 DEF VaultInv, NoTypos, w
<1>11. Changing'
  BY <1>6, <1>7, <1>8, <1>10 DEF Changing
<1>12. OnlyDefault'
  <2> SUFFICES ASSUME n[1] = "data" PROVE in'.type = "mmgen" /\ Vault!Defaults' \subseteq {n}
    BY <1>5, <1>8 DEF OnlyDefault
  <2>1. n \in Vault!Defaults /\ Vault!Defaults' = Vault!Defaults
    BY <1>1 DEF Vault!Defaults
  <2>2. n[2].ext = "mmgen"
    BY <2>1 DEF Vault!Defaults
  <2> QED
    BY <1>3, <1>7, <2>1, <2>2, OneDefault
<1>13. Vault!OpenedIsTrue'
  <2> SUFFICES ASSUME pc' = "opened", in'.type \in Vault!Checked
               PROVE  Vault!WrittenAt(disk[n])'
    BY <1>3, <1>5, <1>8 DEF Vault!OpenedIsTrue
  <2>1. w.type \in {"mmhex", "seed"}
    BY <1>5, <1>7 DEF Vault!Checked, Vault!Hashed
  <2>2. ~w.typo /\ in' = w
    BY <1>6, <1>7, <2>1
  <2> QED
    BY <1>5, <1>8, <2>2 DEF Vault!WrittenAt
<1> QED
  BY <1>5, <1>9, <1>11, <1>12, <1>13, FilesKept DEF VaultInv, Vault!WalletsOpen

LEMMA GetHidden ==
    ASSUME Vault!WalletsAssumption, VaultInv, pc = "start", UNCHANGED <<disk, box, job, agreed, done>>,
           job.cmd # "gen", Vault!Opening(box.at[job.off], Vault!Nowhere("box")), ~Vault!End
    PROVE  VaultInv'
<1> DEFINE w == box.at[job.off]
<1>1. job.off \in Offsets
  BY JobTyped
<1>2. w \in Vault!WalletSet /\ w.type = "incog_hidden"
  BY <1>1 DEF VaultInv, BoxTyped, Hidden
<1> HIDE DEF w
<1>3. Vault!Opening(w, Vault!Nowhere("box"))
  BY DEF w
<1>4. in' = Vault!Read(w) /\ old' = Vault!Nowhere("box") /\ pc' = "decrypt" /\ HandTyped' /\ Replacing' /\ Vault!OldIsGone'
  BY <1>2, <1>3, AsOpened DEF Vault!Hashed
<1>5. in' = w
  BY <1>2, <1>4, Reading DEF Vault!Incog
<1>6. old'[1] = "box" /\ in'.type = "incog_hidden" /\ w = (box.at[job.off])'
  BY <1>2, <1>4, <1>5, Nowheres DEF w
<1>7. Locked'
  BY <1>5, <1>6 DEF Locked, Vault!Hashed
<1>8. Changing' /\ OnlyDefault' /\ Vault!OpenedIsTrue'
  BY <1>4, <1>6 DEF Changing, OnlyDefault, Vault!OpenedIsTrue
<1> QED
  BY <1>4, <1>7, <1>8, FilesKept DEF VaultInv, Vault!WalletsOpen

LEMMA GetTyped ==
    ASSUME Vault!WalletsAssumption, VaultInv, pc = "start", UNCHANGED <<disk, box, job, agreed, done>>,
           job.type \in Vault!StdinOk, Vault!Opening(Vault!Wallet(job.type, "s", 256), Vault!NoPath), ~Vault!End
    PROVE  VaultInv'
<1> DEFINE w == Vault!Wallet(job.type, "s", 256)
<1>1. w \in Vault!WalletSet /\ w.type = job.type /\ w.seed = "s" /\ ~w.typo
  <2>1. job.type \in Vault!Formats /\ "s" \in Seeded /\ 256 \in Nat
    BY JobTyped DEF Seeded
  <2> QED
    BY <2>1, Constants
<1> HIDE DEF w
<1>2. Vault!Opening(w, Vault!NoPath)
  BY DEF w
<1>3. /\ in' = Vault!Read(w) /\ old' = Vault!NoPath /\ HandTyped' /\ Replacing' /\ Vault!OldIsGone'
      /\ pc' = IF w.type \in Vault!Hashed THEN "decrypt" ELSE "opened"
  BY <1>1, <1>2, AsOpened
<1>4. in' = w /\ old'[1] = "none"
  BY <1>1, <1>3, Reading, Nowheres
<1>5. Locked'
  <2> SUFFICES ASSUME pc' = "decrypt" PROVE w.type = "brain" /\ w.type \in Vault!Hashed
    BY <1>4 DEF Locked
  <2>1. w.type \in Vault!Hashed \intersect Vault!StdinOk
    BY <1>1, <1>3
  <2> QED
    BY <2>1 DEF Vault!Hashed, Vault!StdinOk
<1>6. Changing' /\ OnlyDefault' /\ Vault!OpenedIsTrue'
  BY <1>1, <1>3, <1>4 DEF Changing, OnlyDefault, Vault!OpenedIsTrue
<1> QED
  BY <1>3, <1>5, <1>6, FilesKept DEF VaultInv, Vault!WalletsOpen

LEMMA GetNew ==
    ASSUME Vault!WalletsAssumption, VaultInv, pc = "start", UNCHANGED <<disk, box, job, agreed, done>>,
           job.cmd = "gen", pc' = "opened", in' = Vault!Wallet("none", "new", Vault!SeedLen), out' = Vault!NoWallet
    PROVE  VaultInv'
<1>1. in' \in Vault!WalletSet /\ in'.type = "none"
  <2>1. "none" \in Vault!Formats /\ "new" \in Seeded /\ Vault!SeedLen \in Nat
    BY JobTyped DEF Seeded, Vault!Formats
  <2> QED
    BY <2>1, Constants
<1>2. HandTyped'
  BY <1>1, NoWallets DEF VaultInv, HandTyped, Places
<1>3. Vault!OpenedIsTrue'
  BY <1>1 DEF Vault!OpenedIsTrue, Vault!Checked
<1>4. Locked' /\ Changing' /\ Replacing' /\ OnlyDefault' /\ Vault!OldIsGone'
  BY DEF Locked, Changing, Replacing, OnlyDefault, Writing, Vault!OldIsGone
<1> QED
  BY <1>2, <1>3, <1>4, FilesKept DEF VaultInv, Vault!WalletsOpen

LEMMA GetStep == ASSUME Vault!WalletsAssumption, VaultInv, Vault!Get PROVE VaultInv'
<1>1. pc = "start" /\ UNCHANGED <<disk, box, job, agreed, done>>
  BY DEF Vault!Get
<1>2. CASE Vault!End
  BY <1>1, <1>2, Ended, FilesKept DEF Vault!End
<1>3. CASE ~Vault!End
  <2>1. ~(Cardinality(Vault!Defaults) > 1)
    <3>1. ~(Vault!Cardinality(Vault!Defaults) > 1)
      BY <1>3 DEF Vault!Get
    <3> QED
      BY <3>1, Sized
  <2>2. CASE job.cmd = "gen"
    BY <1>1, <1>3, <2>1, <2>2, Sized, GetNew DEF Vault!Get
  <2>3. CASE job.cmd # "gen" /\ job.src = "typed"
    BY <1>1, <1>3, <2>1, <2>3, Sized, GetTyped DEF Vault!Get
  <2>4. CASE job.cmd # "gen" /\ job.src = "box"
    BY <1>1, <1>3, <2>1, <2>4, Sized, GetHidden DEF Vault!Get
  <2>5. CASE job.cmd # "gen" /\ job.src \notin {"typed", "box"}
    BY <1>1, <1>3, <2>1, <2>5, Sized, GetFile DEF Vault!Get
  <2> QED
    BY <2>2, <2>3, <2>4, <2>5
<1> QED
  BY <1>2, <1>3

(* A wallet opened with a passphrase is the one in hand, but for what it   *)
(* was opened with.                                                        *)
LEMMA Unlocked ==
    ASSUME Vault!WalletsAssumption, VaultInv, pc = "decrypt",
           NEW pw \in Vault!Given(Passwords), NEW hp \in Nat, Vault!Opens(in, pw, hp),
           \/ in.type = "mmgen" /\ in' = [in EXCEPT !.pw = pw, !.seed = Vault!Decrypted(in, pw)]
           \/ in.type = "brain" /\ in' = [in EXCEPT !.hp = hp, !.len = Vault!SeedLen,
                                         !.seed = IF in.hp = hp /\ in.len = Vault!SeedLen THEN in.seed ELSE "other"]
           \/ in.type \in Vault!Incog /\ in' = [in EXCEPT !.pw = pw, !.hp = hp]
    PROVE  /\ in' \in Vault!WalletSet /\ in'.type = in.type
           /\ in.type # "brain" => in'.seed = in.seed /\ in'.len = in.len
           /\ in.type \in Vault!Incog => ~in.typo
<1>1. in \in Vault!WalletSet /\ in.type \in Vault!Hashed
  BY DEF VaultInv, HandTyped, Locked
<1>5. ~("mmgen" \in Vault!Incog) /\ ~("brain" \in Vault!Incog)
  BY DEF Vault!Incog
<1>2. CASE in.type = "mmgen"
  <2>1. Vault!Decrypted(in, pw) = in.seed
    BY <1>2, <1>5 DEF Vault!Opens, Vault!MmgenOpens
  <2>2. in' = [in EXCEPT !.pw = pw, !.seed = in.seed]
    BY <1>2, <1>5, <2>1
  <2> QED
    BY <1>1, <1>2, <2>2 DEF Vault!WalletSet, Vault!Incog
<1>3. CASE in.type = "brain"
  <2>1. PICK s \in {"s", "new", "other", "none"} : s = IF in.hp = hp /\ in.len = Vault!SeedLen THEN in.seed ELSE "other"
    BY <1>1 DEF Vault!WalletSet
  <2>2. in' = [in EXCEPT !.hp = hp, !.len = Vault!SeedLen, !.seed = s]
    BY <1>3, <1>5, <2>1
  <2>3. Vault!SeedLen \in Nat
    BY JobTyped
  <2> QED
    BY <1>1, <1>3, <2>2, <2>3 DEF Vault!WalletSet, Vault!Incog
<1>4. CASE in.type \in Vault!Incog
  <2>1. in' = [in EXCEPT !.pw = pw, !.hp = hp]
    BY <1>4 DEF Vault!Incog
  <2>2. Vault!IncogOpens(in, pw, hp)
    BY <1>4 DEF Vault!Opens, Vault!Incog
  <2>3. ~in.typo
    BY <2>2 DEF Vault!IncogOpens
  <2> QED
    BY <1>1, <1>4, <2>1, <2>3 DEF Vault!WalletSet, Vault!Incog
<1> QED
  BY <1>1, <1>2, <1>3, <1>4 DEF Vault!Hashed, Vault!Incog

LEMMA DecryptStep == ASSUME Vault!WalletsAssumption, VaultInv, Vault!Decrypt PROVE VaultInv'
<1>1. pc = "decrypt" /\ UNCHANGED <<disk, box, job, agreed, done>>
  BY DEF Vault!Decrypt
<1>2. CASE Vault!End
  BY <1>1, <1>2, Ended, FilesKept DEF Vault!End
<1>3. CASE UNCHANGED <<pc, in, old, out>>
  <2>1. FilesTyped' /\ BoxTyped' /\ NoTypos' /\ Vault!StillThere'
    BY <1>1, FilesKept
  <2>2. HandTyped' /\ Locked' /\ Changing'
    BY <1>1, <1>3 DEF VaultInv, HandTyped, Locked, Changing, Vault!Read
  <2>3. Replacing' /\ OnlyDefault' /\ Vault!OpenedIsTrue' /\ Vault!OldIsGone'
    <3>1. pc' = "decrypt"
      BY <1>1, <1>3
    <3>2. Vault!Defaults' = Vault!Defaults
      BY <1>1 DEF Vault!Defaults
    <3>3. OnlyDefault'
      BY <1>1, <1>3, <3>2 DEF VaultInv, OnlyDefault
    <3> QED
      BY <3>1, <3>3 DEF Replacing, Vault!OpenedIsTrue, Vault!OldIsGone, Writing
  <2> QED
    BY <2>1, <2>2, <2>3 DEF VaultInv, Vault!WalletsOpen
<1>4. ASSUME NEW pw \in (IF Vault!PasswdFile THEN {job.pwfile} ELSE Passwords),
             NEW hp \in (IF job.hp # 0 THEN {job.hp} ELSE Presets),
             Vault!Opens(in, pw, hp),
             pc' = "opened", UNCHANGED <<old, out>>,
             \/ in.type = "mmgen" /\ in' = [in EXCEPT !.pw = pw, !.seed = Vault!Decrypted(in, pw)]
             \/ in.type = "brain" /\ in' = [in EXCEPT !.hp = hp, !.len = Vault!SeedLen,
                                           !.seed = IF in.hp = hp /\ in.len = Vault!SeedLen THEN in.seed ELSE "other"]
             \/ in.type \in Vault!Incog /\ in' = [in EXCEPT !.pw = pw, !.hp = hp]
      PROVE  VaultInv'
  <2>1. pw \in Vault!Given(Passwords) /\ hp \in Nat
    BY <1>1, JobTyped DEF Vault!Given, Vault!WalletsAssumption
  <2>2. /\ in' \in Vault!WalletSet /\ in'.type = in.type
        /\ in.type # "brain" => in'.seed = in.seed /\ in'.len = in.len
        /\ in.type \in Vault!Incog => ~in.typo
    BY <1>1, <1>4, <2>1, Unlocked
  <2>3. HandTyped'
    BY <1>1, <1>4, <2>2 DEF VaultInv, HandTyped, Places
  <2>4. Locked' /\ Replacing' /\ Vault!OldIsGone'
    BY <1>4 DEF Locked, Replacing, Writing, Vault!OldIsGone
  <2>5. Changing'
    BY <1>1, <1>4, <2>2 DEF VaultInv, Changing, Working
  <2>6. OnlyDefault'
    <3>1. Vault!Defaults' = Vault!Defaults
      BY <1>1 DEF Vault!Defaults
    <3> QED
      BY <1>1, <1>4, <2>2, <3>1 DEF VaultInv, OnlyDefault, Working
  <2>7. Vault!OpenedIsTrue'
    <3> SUFFICES ASSUME in'.type \in Vault!Checked
                 PROVE  /\ old'[1] = "box" => Vault!WrittenAt(box.at[job.off])'
                        /\ old'[1] = "none" => in'.seed = "s"
                        /\ old'[1] \notin {"box", "none"} => Vault!WrittenAt(disk[old])'
      BY DEF Vault!OpenedIsTrue
    <3>1. in.type \in Vault!Checked \intersect Vault!Hashed
      BY <1>1, <2>2 DEF VaultInv, Locked
    <3>2. in.type = "mmgen" \/ in.type \in Vault!Incog
      BY <3>1 DEF Vault!Checked, Vault!Hashed, Vault!Incog
    <3>3. in'.seed = in.seed /\ in'.len = in.len /\ in.type # "brain"
      BY <2>2, <3>2 DEF Vault!Incog
    <3>4. CASE old \in DOMAIN disk /\ old[1] \in {"data", "work"}
      <4>1. disk[old] \in Vault!WalletSet /\ in = Vault!Read(disk[old]) /\ (in.type = "mmgen" => ~disk[old].typo)
        <5>1. old[1] # "box" /\ old[1] # "none"
          BY <3>4
        <5> QED
          BY <1>1, <3>4, <5>1 DEF VaultInv, Locked, FilesTyped
      <4>2. in.typo = disk[old].typo /\ in.type = disk[old].type
        BY <4>1, Reading
      <4>3. ~disk[old].typo /\ in = disk[old]
        BY <2>2, <3>2, <4>1, <4>2, Reading
      <4>4. disk' = disk /\ old' = old
        BY <1>1, <1>4
      <4>5. Vault!WrittenAt(disk[old])'
        BY <3>3, <4>3, <4>4 DEF Vault!WrittenAt
      <4> QED
        BY <3>4, <4>4, <4>5
    <3>5. CASE old[1] = "box" /\ in = box.at[job.off]
      <4>1. ~in.typo
        <5>1. in.type = "incog_hidden"
          <6>1. job.off \in Offsets
            BY <1>1, JobTyped
          <6> QED
            BY <3>5, <6>1 DEF VaultInv, BoxTyped, Hidden
        <5> QED
          BY <2>2, <5>1 DEF Vault!Incog
      <4>2. Vault!WrittenAt(box.at[job.off])'
        BY <1>1, <3>3, <3>5, <4>1 DEF Vault!WrittenAt
      <4> QED
        BY <1>4, <3>5, <4>2
    <3> QED
      BY <1>1, <3>3, <3>4, <3>5 DEF VaultInv, Locked
  <2> QED
    BY <1>1, <2>3, <2>4, <2>5, <2>6, <2>7, FilesKept DEF VaultInv, Vault!WalletsOpen
<1> QED
  BY <1>2, <1>3, <1>4 DEF Vault!Decrypt

(* The new wallet has the seed of the old one.                             *)
LEMMA EncryptStep == ASSUME Vault!WalletsAssumption, VaultInv, Vault!Encrypt PROVE VaultInv'
<1>1. pc = "opened" /\ UNCHANGED <<disk, box, job, agreed, done>>
  BY DEF Vault!Encrypt
<1>2. CASE Vault!End
  BY <1>1, <1>2, Ended, FilesKept DEF Vault!End
<1>3. CASE ~Vault!End
  <2> DEFINE w0 == Vault!Wallet(Vault!OutType, in.seed, in.len)
  <2>1. Vault!OutType # "brain" /\ Vault!OutType \in Vault!Formats
    <3>1. in.type \in Vault!Formats
      BY DEF VaultInv, HandTyped, Vault!WalletSet
    <3> QED
      BY <1>1, <1>3, <3>1, JobTyped DEF Vault!OutType, Vault!Encrypt
  <2>2. in \in Vault!WalletSet /\ in.seed \in Seeded /\ in.len \in Nat
    BY DEF VaultInv, HandTyped, Vault!WalletSet, Seeded
  <2>3. w0 \in Vault!WalletSet /\ w0.type = Vault!OutType /\ w0.seed = in.seed /\ w0.whole /\ ~w0.typo
    BY <2>1, <2>2, Constants
  <2> HIDE DEF w0
  <2>4. PICK pw \in Vault!NewPws, hp \in Vault!NewHps, s \in Salts, l \in Vault!NewLabels :
          /\ out' = IF Vault!OutType \in Vault!Passworded
                    THEN [w0 EXCEPT !.pw = pw, !.hp = hp, !.salt = s, !.label = IF Vault!OutType = "mmgen" THEN l ELSE ""]
                    ELSE w0
          /\ pc' = "rename" /\ UNCHANGED <<in, old>>
    BY <1>3 DEF Vault!Encrypt, w0
  <2>5. LET w == out' IN w \in Vault!WalletSet /\ w.type = Vault!OutType /\ w.seed = in.seed /\ w.whole /\ ~w.typo
    <3>1. pw \in Vault!Given(Passwords)
      BY <1>1, <2>2, JobTyped DEF Vault!NewPws, Vault!WalletSet, Vault!Given
    <3>2. hp \in Nat /\ s \in Nat
      BY <1>1, <2>2, JobTyped DEF Vault!NewHps, Vault!WalletSet, Vault!WalletsAssumption
    <3>3. l \in Vault!Given(Labels) /\ "" \in Vault!Given(Labels)
      BY <1>1, <2>2, JobTyped DEF Vault!NewLabels, Vault!WalletSet, Vault!Given
    <3>4. PICK k \in Vault!Given(Labels) : k = IF Vault!OutType = "mmgen" THEN l ELSE ""
      BY <3>3
    <3>5. LET v == [w0 EXCEPT !.pw = pw, !.hp = hp, !.salt = s, !.label = k] IN
          v \in Vault!WalletSet /\ v.type = w0.type /\ v.seed = w0.seed /\ v.whole = w0.whole /\ v.typo = w0.typo
      BY <2>3, <3>1, <3>2 DEF Vault!WalletSet
    <3> QED
      BY <2>3, <2>4, <3>4, <3>5
  <2>6. HandTyped'
    BY <1>1, <2>4, <2>5 DEF VaultInv, HandTyped, Places
  <2>7. Locked' /\ Vault!OldIsGone' /\ Vault!OpenedIsTrue'
    BY <2>4 DEF Locked, Vault!OldIsGone, Vault!OpenedIsTrue
  <2>8. Changing'
    BY <1>1, <2>4 DEF VaultInv, Changing, Working
  <2>9. Replacing'
    BY <1>1, <2>1, <2>4, <2>5 DEF Replacing, Vault!OutType
  <2>10. OnlyDefault'
    <3>1. Vault!Defaults' = Vault!Defaults
      BY <1>1 DEF Vault!Defaults
    <3> QED
      BY <1>1, <2>4, <3>1 DEF VaultInv, OnlyDefault, Working
  <2> QED
    BY <1>1, <2>6, <2>7, <2>8, <2>9, <2>10, FilesKept DEF VaultInv, Vault!WalletsOpen
<1> QED
  BY <1>2, <1>3

(* Where the new wallet is written, which is not where the old one is.     *)
LEMMA NewPath ==
    ASSUME VaultInv, NEW dir \in {"data", "work"}, out.type # "incog_hidden"
    PROVE  LET n == Vault!Path(dir, out) IN
           /\ n[1] = dir /\ n[2] = Vault!Filename(out) /\ n[2].ext = out.type /\ ~n[2].div
           /\ Named(n, out)
<1>1. out \in Vault!WalletSet
  BY DEF VaultInv, HandTyped
<1>2. NameOf(out, FALSE) = Vault!Filename(out) /\ NameOf(out, FALSE).ext = out.type /\ ~NameOf(out, FALSE).div
  BY <1>1, Names
<1>3. Vault!Path(dir, out) = <<dir, NameOf(out, FALSE)>>
  BY <1>2 DEF Vault!Path
<1>4. Named(Vault!Path(dir, out), out)
  BY <1>3 DEF Named
<1>5. Vault!Path(dir, out)[1] = dir /\ Vault!Path(dir, out)[2] = NameOf(out, FALSE)
  BY <1>3
<1> QED
  BY <1>2, <1>4, <1>5

LEMMA OutDirs == Vault!OutDir \in {"data", "work"} /\ (job.cmd = "passchg" /\ old[1] = "data" => Vault!OutDir = "data")
BY DEF Vault!OutDir

LEMMA PutThere ==
    ASSUME NEW n, NEW w, disk' = Vault!Put(n, w)
    PROVE  /\ DOMAIN disk' = DOMAIN disk \union {n} /\ disk'[n] = w
           /\ \A m \in DOMAIN disk : m # n => disk'[m] = disk[m]
BY DEF Vault!Put

(* Files of one more wallet.                                               *)
LEMMA PutTyped ==
    ASSUME VaultInv, NEW n, NEW w \in Vault!WalletSet, Named(n, w), w.type # "incog_hidden", disk' = Vault!Put(n, w)
    PROVE  FilesTyped'
<1>1. /\ DOMAIN disk' = DOMAIN disk \union {n} /\ disk'[n] = w
      /\ \A m \in DOMAIN disk : m # n => disk'[m] = disk[m]
  BY PutThere
<1>2. IsFiniteSet(DOMAIN disk')
  BY <1>1, FS_AddElement DEF VaultInv, FilesTyped
<1>3. ASSUME NEW m \in DOMAIN disk'
      PROVE  disk'[m] \in Vault!WalletSet /\ disk'[m].type # "incog_hidden" /\ Named(m, disk'[m])
  <2>1. CASE m = n
    BY <1>1, <2>1
  <2>2. CASE m # n
    <3>1. m \in DOMAIN disk /\ disk'[m] = disk[m]
      BY <1>1, <2>2
    <3> QED
      BY <3>1 DEF VaultInv, FilesTyped
  <2> QED
    BY <2>1, <2>2
<1> QED
  BY <1>2, <1>3 DEF FilesTyped

(* Moving a file, over another of its wallet or to a name of its own.      *)
LEMMA MovedTyped ==
    ASSUME VaultInv, NEW n \in DOMAIN disk, NEW m, Named(m, disk[n]), disk' = Vault!Moved(n, m), n # m
    PROVE  /\ FilesTyped'
           /\ DOMAIN disk' = (DOMAIN disk \ {n}) \union {m} /\ disk'[m] = disk[n]
           /\ \A k \in DOMAIN disk : k # n /\ k # m => disk'[k] = disk[k]
<1>1. /\ DOMAIN disk' = (DOMAIN disk \ {n}) \union {m} /\ disk'[m] = disk[n]
      /\ \A k \in DOMAIN disk : k # n /\ k # m => disk'[k] = disk[k]
  BY DEF Vault!Moved
<1>2. IsFiniteSet(DOMAIN disk')
  <2>1. IsFiniteSet(DOMAIN disk)
    BY DEF VaultInv, FilesTyped
  <2>2. IsFiniteSet(DOMAIN disk \ {n})
    BY <2>1, FS_RemoveElement
  <2> QED
    BY <1>1, <2>2, FS_AddElement
<1>3. ASSUME NEW k \in DOMAIN disk'
      PROVE  disk'[k] \in Vault!WalletSet /\ disk'[k].type # "incog_hidden" /\ Named(k, disk'[k])
  <2>1. CASE k = m
    BY <1>1, <2>1 DEF VaultInv, FilesTyped
  <2>2. CASE k # m
    <3>1. k \in DOMAIN disk /\ disk'[k] = disk[k]
      BY <1>1, <2>2
    <3> QED
      BY <3>1 DEF VaultInv, FilesTyped
  <2> QED
    BY <2>1, <2>2
<1>4. FilesTyped'
  BY <1>2, <1>3 DEF FilesTyped
<1> QED
  BY <1>1, <1>4

LEMMA RenameStep == ASSUME Vault!WalletsAssumption, VaultInv, Vault!Rename PROVE VaultInv'
<1>1. /\ pc = "rename" /\ UNCHANGED <<box, job, in, out, agreed, done>>
      /\ pc' = IF out.type = "incog_hidden" THEN "hide" ELSE "create"
  BY DEF Vault!Rename
<1>2. out.type \in Vault!Formats /\ out \in Vault!WalletSet
  BY DEF VaultInv, HandTyped, Vault!WalletSet
<1>3. HandTyped' /\ BoxTyped' /\ Locked' /\ Vault!OpenedIsTrue' /\ Vault!OldIsGone'
  <2>1. pc' \in {"hide", "create"}
    BY <1>1
  <2>2. HandTyped'
    BY <1>1, <2>1 DEF VaultInv, HandTyped, Places
  <2> QED
    BY <1>1, <2>1, <2>2 DEF VaultInv, BoxTyped, Locked, Vault!OpenedIsTrue, Vault!OldIsGone
<1>4. CASE job.cmd = "passchg" /\ Vault!SameName
  <2> DEFINE d == Vault!Divert(old)
             w == disk[old]
  <2>1. disk' = Vault!Moved(old, d) /\ old' = d
    BY <1>4 DEF Vault!Rename
  <2>2. old[2] = Vault!Filename(out) /\ old[2].ext = out.type /\ ~old[2].div
    BY <1>2, <1>4, Names DEF Vault!SameName
  <2>3. in.type = out.type /\ in.type # "brain" /\ out.seed = in.seed
    BY <1>1, <1>4 DEF VaultInv, Replacing, Writing
  <2>4. /\ old \in DOMAIN disk /\ disk[old].whole /\ in.type = disk[old].type
        /\ agreed = {} => in.seed = disk[old].seed
    <3>1. CASE old = Vault!Nowhere("box") /\ in.type = "incog_hidden"
      <4>1. old[2].ext = "none"
        BY <3>1, Nowheres
      <4> QED
        BY <2>2, <2>3, <3>1, <4>1
    <3>2. CASE old = Vault!NoPath /\ in.type \in Vault!StdinOk
      <4>1. old[2].ext = "none"
        BY <3>2, Nowheres
      <4> QED
        BY <2>2, <2>3, <3>2, <4>1 DEF Vault!StdinOk
    <3> QED
      BY <1>1, <1>4, <2>3, <3>1, <3>2 DEF VaultInv, Changing, Working
  <2>5. w \in Vault!WalletSet /\ w.type # "incog_hidden" /\ Named(old, w)
    BY <2>4 DEF VaultInv, FilesTyped
  <2>6. old[1] \in {"data", "work"} /\ old[2] = NameOf(w, FALSE) /\ old[2].sid = w.seed
    BY <2>2, <2>5, NamedAs
  <2>7. d = <<old[1], NameOf(w, TRUE)>> /\ d[2].div /\ d[1] = old[1] /\ d[2].sid = w.seed
    <3>1. d = <<old[1], NameOf(w, TRUE)>>
      BY <2>5, <2>6, Names DEF Vault!Divert
    <3>2. NameOf(w, TRUE).div /\ NameOf(w, TRUE).sid = w.seed
      BY <2>5, Names
    <3> HIDE DEF d, w
    <3> QED
      BY <3>1, <3>2
  <2>8. Named(d, w) /\ d # old
    BY <2>2, <2>6, <2>7 DEF Named
  <2> HIDE DEF d
  <2>9. /\ FilesTyped'
        /\ DOMAIN disk' = (DOMAIN disk \ {old}) \union {d} /\ disk'[d] = w
        /\ \A k \in DOMAIN disk : k # old /\ k # d => disk'[k] = disk[k]
    BY <2>1, <2>4, <2>8, MovedTyped
  <2>10. agreed = {} => ~w.typo
    BY <2>4 DEF VaultInv, NoTypos
  <2> HIDE DEF w
  <2>11. NoTypos'
    BY <1>1, <2>9, <2>10 DEF VaultInv, NoTypos
  <2>12. Vault!StillThere'
    <3> SUFFICES ASSUME agreed = {}, NEW n \in DOMAIN disk, Vault!Holds(disk[n])
                 PROVE  \E m \in DOMAIN disk' : Vault!Holds(disk'[m])
      BY <1>1 DEF VaultInv, Vault!WalletsOpen, Vault!StillThere
    <3>1. CASE n # old /\ n # d
      BY <2>9, <3>1
    <3>2. CASE n = old \/ n = d
      <4>1. n = old => disk[n] = w
        BY DEF w
      <4>2. n = d => n[2].sid = w.seed
        BY <2>7
      <4>3. n[2].sid = disk[n].seed
        BY NamedAs DEF VaultInv, FilesTyped
      <4>4. w.seed = "s"
        BY <3>2, <4>1, <4>2, <4>3 DEF Vault!Holds
      <4>5. Vault!Holds(w)
        BY <2>4, <2>10, <4>4 DEF Vault!Holds, w
      <4> QED
        BY <2>9, <4>5
    <3> QED
      BY <3>1, <3>2
  <2>13. Changing'
    <3>1. old' \in DOMAIN disk' /\ disk'[old'] = w /\ w.whole /\ in'.type = w.type
      BY <1>1, <2>1, <2>4, <2>9 DEF w
    <3>2. agreed' = {} => in'.seed = w.seed
      BY <1>1, <2>4 DEF w
    <3> QED
      BY <3>1, <3>2 DEF Changing
  <2>14. Replacing'
    <3>1. Vault!Filename(out)' = Vault!Filename(out)
      BY <1>1
    <3>2. ~Vault!Filename(out).div
      BY <2>2
    <3>3. old'[2] # Vault!Filename(out)
      BY <2>1, <2>7, <3>2
    <3> QED
      BY <1>1, <2>3, <3>1, <3>3 DEF Replacing
  <2>15. OnlyDefault'
    <3> SUFFICES ASSUME d[1] = "data" PROVE in.type = "mmgen" /\ Vault!Defaults' \subseteq {d}
      BY <1>1, <2>1 DEF OnlyDefault
    <3>1. in.type = "mmgen" /\ Vault!Defaults \subseteq {old}
      BY <1>1, <1>4, <2>7 DEF VaultInv, OnlyDefault, Working
    <3>2. ASSUME NEW n \in Vault!Defaults' PROVE n = d
      <4>1. n \in DOMAIN disk' /\ n[1] = "data" /\ n[2].ext = "mmgen" /\ ~n[2].div
        BY DEF Vault!Defaults
      <4>2. CASE n # d
        <5>1. n \in DOMAIN disk /\ n # old
          BY <2>9, <4>1, <4>2
        <5> QED
          BY <3>1, <4>1, <5>1 DEF Vault!Defaults
      <4> QED
        BY <4>2
    <3> QED
      BY <3>1, <3>2
  <2> QED
    BY <1>3, <2>9, <2>11, <2>12, <2>13, <2>14, <2>15 DEF VaultInv, Vault!WalletsOpen
<1>5. CASE ~(job.cmd = "passchg" /\ Vault!SameName)
  <2>1. UNCHANGED <<disk, old>>
    BY <1>5 DEF Vault!Rename
  <2>2. Changing'
    BY <1>1, <2>1 DEF VaultInv, Changing, Working
  <2>3. Replacing'
    <3>1. job.cmd = "passchg" => old[2] # Vault!Filename(out)
      BY <1>5 DEF Vault!SameName
    <3> QED
      BY <1>1, <2>1, <3>1 DEF VaultInv, Replacing, Writing
  <2>4. OnlyDefault'
    <3>1. Vault!Defaults' = Vault!Defaults
      BY <2>1 DEF Vault!Defaults
    <3> QED
      BY <1>1, <2>1, <3>1 DEF VaultInv, OnlyDefault, Working
  <2> QED
    BY <1>1, <1>3, <2>1, <2>2, <2>3, <2>4, FilesKept DEF VaultInv, Vault!WalletsOpen
<1> QED
  BY <1>4, <1>5

(* The file is emptied first: nothing is lost unless it was agreed to.     *)
LEMMA CreateStep == ASSUME Vault!WalletsAssumption, VaultInv, Vault!Create PROVE VaultInv'
<1> DEFINE n == Vault!Path(Vault!OutDir, out)
           v == [out EXCEPT !.whole = FALSE]
<1>1. pc = "create" /\ UNCHANGED <<box, job, done>>
  BY DEF Vault!Create
<1>2. CASE Vault!End /\ UNCHANGED <<disk, agreed>>
  BY <1>1, <1>2, Ended, FilesKept DEF Vault!End
<1>3. CASE /\ disk' = Vault!Put(n, v)
           /\ agreed' = IF n \in DOMAIN disk THEN agreed \union {"overwrite"} ELSE agreed
           /\ pc' = "write" /\ UNCHANGED <<in, old, out>>
  <2>1. out.type # "incog_hidden" /\ out \in Vault!WalletSet /\ ~out.typo
    BY <1>1 DEF VaultInv, Replacing, HandTyped
  <2>2. n[1] = Vault!OutDir /\ n[2] = Vault!Filename(out) /\ Named(n, out)
    BY <2>1, OutDirs, NewPath
  <2>3. v \in Vault!WalletSet /\ v.type = out.type /\ v.typo = out.typo /\ ~v.whole /\ Named(n, v)
    BY <2>1, <2>2, Filenames DEF Named
  <2>4. n' = n /\ Vault!OutDir' = Vault!OutDir
    BY <1>1, <1>3 DEF Vault!OutDir
  <2>5. v = [out EXCEPT !.whole = FALSE] /\ v' = v
    BY <1>3
  <2> HIDE DEF n, v
  <2>6. /\ DOMAIN disk' = DOMAIN disk \union {n} /\ disk'[n] = v
        /\ \A m \in DOMAIN disk : m # n => disk'[m] = disk[m]
    BY <1>3, PutThere
  <2>7. FilesTyped'
    BY <1>3, <2>1, <2>3, PutTyped
  <2>8. BoxTyped' /\ HandTyped' /\ Locked' /\ Vault!OpenedIsTrue' /\ Vault!OldIsGone'
    BY <1>1, <1>3 DEF VaultInv, BoxTyped, HandTyped, Places, Locked, Vault!OpenedIsTrue, Vault!OldIsGone
  <2>9. agreed' = {} => agreed = {} /\ n \notin DOMAIN disk
    BY <1>3
  <2>10. NoTypos'
    BY <1>1, <2>1, <2>3, <2>6, <2>9 DEF VaultInv, NoTypos
  <2>11. Vault!StillThere'
    BY <1>1, <2>6, <2>9 DEF VaultInv, Vault!WalletsOpen, Vault!StillThere
  <2>12. job.cmd = "passchg" => old # n
    BY <1>1, <2>2 DEF VaultInv, Replacing
  <2>13. Changing'
    <3>1. job.cmd = "passchg" /\ old \in DOMAIN disk => old \in DOMAIN disk' /\ disk'[old] = disk[old]
      BY <2>6, <2>12
    <3> QED
      BY <1>1, <1>3, <2>9, <3>1 DEF VaultInv, Changing, Working
  <2>14. Replacing'
    <3>1. disk'[n'] = v' /\ n' \in DOMAIN disk'
      BY <2>4, <2>5, <2>6
    <3>2. disk'[Vault!Path(Vault!OutDir, out)'] = [out' EXCEPT !.whole = FALSE] /\ Vault!Path(Vault!OutDir, out)' \in DOMAIN disk'
      BY <3>1 DEF n, v
    <3>3. Vault!Filename(out)' = Vault!Filename(out)
      BY <1>3
    <3> QED
      BY <1>1, <1>3, <2>1, <3>2, <3>3 DEF VaultInv, Replacing, Writing
  <2>15. OnlyDefault'
    <3> SUFFICES ASSUME job.cmd = "passchg", old[1] = "data"
                 PROVE  in.type = "mmgen" /\ Vault!Defaults' \subseteq {old} \union {Vault!Path("data", out)}
      BY <1>1, <1>3 DEF OnlyDefault
    <3>1. in.type = "mmgen" /\ Vault!Defaults \subseteq {old}
      BY <1>1 DEF VaultInv, OnlyDefault, Working
    <3>2. n = Vault!Path("data", out)
      BY OutDirs DEF n
    <3>3. Vault!Defaults' \subseteq Vault!Defaults \union {n}
      BY <2>6 DEF Vault!Defaults
    <3> QED
      BY <3>1, <3>2, <3>3
  <2> QED
    BY <2>7, <2>8, <2>10, <2>11, <2>13, <2>14, <2>15 DEF VaultInv, Vault!WalletsOpen
<1> QED
  BY <1>2, <1>3 DEF Vault!Create

(* After passchg's write the old wallet is shredded; other commands end.   *)
LEMMA AfterStep ==
    ASSUME Vault!WalletsAssumption, VaultInv, pc \in {"write", "hide"}, Vault!After, UNCHANGED job,
           FilesTyped', BoxTyped', NoTypos', Vault!StillThere',
           job.cmd = "passchg" /\ old \in DOMAIN disk => old \in DOMAIN disk' /\ disk'[old] = disk[old],
           agreed' = {} => agreed = {},
           Vault!Defaults' \subseteq Vault!Defaults \union {Vault!Path(Vault!OutDir, out)},
           out.type # "incog_hidden" =>
               Vault!Path(Vault!OutDir, out) \in DOMAIN disk' /\ disk'[Vault!Path(Vault!OutDir, out)] = out
    PROVE  VaultInv'
<1>1. CASE job.cmd # "passchg"
  BY <1>1, Ended DEF Vault!After, Vault!End
<1>2. CASE job.cmd = "passchg"
  <2>1. pc' = "shred" /\ UNCHANGED <<in, old, out>>
    BY <1>2 DEF Vault!After
  <2>2. HandTyped' /\ Locked' /\ Vault!OpenedIsTrue' /\ Vault!OldIsGone'
    BY <2>1 DEF VaultInv, HandTyped, Places, Locked, Vault!OpenedIsTrue, Vault!OldIsGone
  <2>3. Changing'
    BY <1>2, <2>1 DEF VaultInv, Changing, Working
  <2>4. /\ out.type = in.type /\ out.seed = in.seed /\ in.type # "brain" /\ old[2] # Vault!Filename(out)
    BY <1>2 DEF VaultInv, Replacing, Writing
  <2>5. out.type = "incog_hidden" => old[1] = "box"
    <3>1. old \in DOMAIN disk => disk[old].type # "incog_hidden"
      BY DEF VaultInv, FilesTyped
    <3>2. Vault!Nowhere("box")[1] = "box"
      BY Nowheres
    <3> QED
      BY <1>2, <2>4, <3>1, <3>2 DEF VaultInv, Changing, Working, Vault!StdinOk
  <2>6. Vault!Path(Vault!OutDir, out)' = Vault!Path(Vault!OutDir, out)
    BY <2>1 DEF Vault!OutDir
  <2>7. Replacing'
    <3>1. Vault!Filename(out)' = Vault!Filename(out)
      BY <2>1
    <3> QED
      BY <1>2, <2>1, <2>4, <2>5, <2>6, <3>1 DEF Replacing
  <2>8. OnlyDefault'
    <3> SUFFICES ASSUME old[1] = "data"
                 PROVE  in.type = "mmgen" /\ Vault!Defaults' \subseteq {old} \union {Vault!Path("data", out)}
      BY <1>2, <2>1 DEF OnlyDefault
    <3>1. in.type = "mmgen" /\ Vault!Defaults \subseteq {old} \union {Vault!Path("data", out)}
      BY <1>2 DEF VaultInv, OnlyDefault, Working
    <3>2. Vault!Path(Vault!OutDir, out) = Vault!Path("data", out)
      BY <1>2, OutDirs
    <3> QED
      BY <3>1, <3>2
  <2> QED
    BY <2>2, <2>3, <2>7, <2>8 DEF VaultInv, Vault!WalletsOpen
<1> QED
  BY <1>1, <1>2

LEMMA WriteStep == ASSUME Vault!WalletsAssumption, VaultInv, Vault!Write PROVE VaultInv'
<1> DEFINE n == Vault!Path(Vault!OutDir, out)
<1>1. /\ pc = "write" /\ UNCHANGED <<box, job, agreed, done>>
      /\ disk' = Vault!Put(n, out) /\ Vault!After
  BY DEF Vault!Write
<1>2. out.type # "incog_hidden" /\ out \in Vault!WalletSet /\ ~out.typo
  BY <1>1 DEF VaultInv, Replacing, HandTyped
<1>3. n[2] = Vault!Filename(out) /\ Named(n, out)
  BY <1>2, OutDirs, NewPath
<1>4. /\ DOMAIN disk' = DOMAIN disk \union {n} /\ disk'[n] = out
      /\ \A m \in DOMAIN disk : m # n => disk'[m] = disk[m]
  BY <1>1, PutThere
<1>5. FilesTyped'
  BY <1>1, <1>2, <1>3, PutTyped
<1>6. BoxTyped' /\ NoTypos'
  BY <1>1, <1>2, <1>4 DEF VaultInv, BoxTyped, NoTypos
<1>7. Vault!StillThere'
  <2>1. ~disk[n].whole
    <3>1. disk[n] = [out EXCEPT !.whole = FALSE]
      BY <1>1 DEF VaultInv, Replacing
    <3> QED
      BY <1>2, <3>1, Filenames
  <2> HIDE DEF n
  <2> QED
    BY <1>1, <1>4, <2>1 DEF VaultInv, Vault!WalletsOpen, Vault!StillThere, Vault!Holds
<1>8. job.cmd = "passchg" => old # n
  BY <1>1, <1>3 DEF VaultInv, Replacing
<1>9. Vault!Defaults' \subseteq Vault!Defaults \union {n}
  BY <1>4 DEF Vault!Defaults
<1>10. /\ job.cmd = "passchg" /\ old \in DOMAIN disk => old \in DOMAIN disk' /\ disk'[old] = disk[old]
       /\ n \in DOMAIN disk' /\ disk'[n] = out
  BY <1>4, <1>8
<1> QED
  BY <1>1, <1>5, <1>6, <1>7, <1>9, <1>10, AfterStep

(* What is hidden over another wallet holds its seed, unless it was agreed *)
(* to.                                                                     *)
LEMMA HideStep == ASSUME Vault!WalletsAssumption, VaultInv, Vault!Hide PROVE VaultInv'
<1> DEFINE n == Vault!DataLen(out.len, FALSE)
           lost == {p \in DOMAIN box.at : Vault!Spoils(Vault!Offset, n, p)}
<1>1. pc = "hide" /\ UNCHANGED <<disk, job, done>>
  BY DEF Vault!Hide
<1>2. CASE Vault!End /\ UNCHANGED <<box, agreed>>
  BY <1>1, <1>2, Ended, FilesKept DEF Vault!End
<1>3. CASE /\ box' = [there |-> TRUE,
                      at |-> [p \in DOMAIN box.at |-> IF p = Vault!Offset THEN out
                                                      ELSE IF ~ box.there \/ p \in lost THEN Vault!Random ELSE box.at[p]]]
           /\ agreed' = IF \A p \in lost : box.at[p].seed = out.seed THEN agreed ELSE agreed \union {"overwrite"}
           /\ Vault!After
  <2>1. out \in Hidden /\ out.whole /\ ~out.typo /\ out.len \in Nat
    BY <1>1 DEF VaultInv, Replacing, HandTyped, Hidden, Vault!WalletSet
  <2>2. Vault!Random \in Hidden /\ ~Vault!Random.typo /\ Vault!Random.seed = "none"
    BY NoWallets
  <2>3. Vault!Offset \in Offsets /\ Vault!Offset \in Nat
    BY <1>1, JobTyped DEF Vault!Offset, Vault!WalletsAssumption
  <2>4. box \in [there : BOOLEAN, at : [Offsets -> Hidden]] /\ DOMAIN box.at = Offsets
    BY DEF VaultInv, BoxTyped
  <2>5. \A k \in Nat, b \in BOOLEAN : Vault!DataLen(k, b) \in Nat /\ Vault!DataLen(k, b) > 0
    BY DEF Vault!DataLen
  <2> DEFINE at == [p \in DOMAIN box.at |-> IF p = Vault!Offset THEN out
                                            ELSE IF ~ box.there \/ p \in lost THEN Vault!Random ELSE box.at[p]]
  <2>6. box' = [there |-> TRUE, at |-> at]
    BY <1>3
  <2>7. at \in [Offsets -> Hidden] /\ at[Vault!Offset] = out
    BY <2>1, <2>2, <2>3, <2>4
  <2>8. \A p \in Offsets : ~at[p].typo \/ at[p] = box.at[p]
    BY <2>1, <2>2, <2>4
  <2>9. \A p \in Offsets : box.there /\ p \notin lost /\ p # Vault!Offset => at[p] = box.at[p]
    BY <2>4
  <2> HIDE DEF at
  <2>10. FilesTyped' /\ BoxTyped'
    BY <1>1, <2>6, <2>7 DEF VaultInv, FilesTyped, BoxTyped
  <2>11. agreed' = {} => agreed = {} /\ \A p \in lost : box.at[p].seed = out.seed
    <3> HIDE DEF lost
    <3> QED
      BY <1>3
  <2>12. NoTypos'
    BY <1>1, <2>6, <2>8, <2>11 DEF VaultInv, NoTypos
  <2>13. Vault!StillThere'
    <3> SUFFICES ASSUME agreed = {}, \A p \in lost : box.at[p].seed = out.seed
                 PROVE  (\E k \in DOMAIN disk : Vault!Holds(disk[k])) \/ (\E o \in Offsets : Vault!Holds(at[o]))
      BY <1>1, <2>6, <2>7, <2>11 DEF Vault!StillThere
    <3>1. CASE \E k \in DOMAIN disk : Vault!Holds(disk[k])
      BY <3>1
    <3>2. CASE box.there /\ \E o \in DOMAIN box.at : Vault!Holds(box.at[o])
      <4>1. PICK o \in Offsets : Vault!Holds(box.at[o])
        BY <2>4, <3>2
      <4>2. CASE o \notin lost /\ o # Vault!Offset
        BY <2>9, <3>2, <4>1, <4>2
      <4>3. CASE o \in lost \/ o = Vault!Offset
        <5>1. o \in lost
          <6> SUFFICES ASSUME o = Vault!Offset PROVE Vault!Spoils(Vault!Offset, n, o)
            BY <2>4, <4>3
          <6>1. box.at[o].seed = "s" /\ box.at[o].len \in Nat /\ box.at[o].old \in BOOLEAN
            BY <2>4, <4>1 DEF Vault!Holds, Hidden, Vault!WalletSet
          <6>2. box.at[o] # Vault!Random
            BY <2>2, <6>1
          <6>3. n \in Nat /\ n > 0
            BY <2>1, <2>5
          <6>4. Vault!DataLen(box.at[o].len, box.at[o].old) \in Nat /\ Vault!DataLen(box.at[o].len, box.at[o].old) > 0
            BY <2>5, <6>1
          <6> HIDE DEF n
          <6>5. o < Vault!Offset + n /\ Vault!Offset < o + Vault!DataLen(box.at[o].len, box.at[o].old)
            BY <2>3, <6>3, <6>4
          <6> QED
            BY <3>2, <6>2, <6>5 DEF Vault!Spoils
        <5>2. out.seed = "s"
          BY <4>1, <5>1 DEF Vault!Holds
        <5>3. Vault!Holds(at[Vault!Offset])
          BY <2>1, <2>7, <5>2 DEF Vault!Holds
        <5> QED
          BY <2>3, <5>3
      <4> QED
        BY <4>2, <4>3
    <3> QED
      BY <3>1, <3>2 DEF VaultInv, Vault!WalletsOpen, Vault!StillThere
  <2>14. Vault!Defaults' = Vault!Defaults /\ out.type = "incog_hidden"
    BY <1>1, <2>1 DEF Vault!Defaults, Hidden
  <2> QED
    BY <1>1, <1>3, <2>10, <2>11, <2>12, <2>13, <2>14, AfterStep
<1> QED
  BY <1>2, <1>3 DEF Vault!Hide

LEMMA Dropped ==
    ASSUME NEW S, disk' = Vault!Drop(S)
    PROVE  DOMAIN disk' = DOMAIN disk \ S /\ \A n \in DOMAIN disk' : disk'[n] = disk[n]
BY DEF Vault!Drop

LEMMA DroppedTyped == ASSUME VaultInv, NEW n, disk' = Vault!Drop({n}) PROVE FilesTyped'
<1>1. DOMAIN disk' = DOMAIN disk \ {n} /\ \A m \in DOMAIN disk' : disk'[m] = disk[m]
  BY Dropped
<1>2. IsFiniteSet(DOMAIN disk \ {n})
  BY FS_RemoveElement DEF VaultInv, FilesTyped
<1> QED
  BY <1>1, <1>2 DEF VaultInv, FilesTyped

(* The old wallet goes when the new one is there, with the same seed.      *)
LEMMA ShredStep == ASSUME Vault!WalletsAssumption, VaultInv, Vault!Shred PROVE VaultInv'
<1> DEFINE n == Vault!Path(Vault!OutDir, out)
<1>1. /\ pc = "shred" /\ job.cmd = "passchg" /\ UNCHANGED <<job, in, old, out, done>>
      /\ pc' = IF old[1] = "data" THEN "changed" ELSE "idle"
  BY DEF Vault!Shred, VaultInv, Replacing
<1>2. HandTyped' /\ Locked' /\ Changing' /\ Replacing' /\ OnlyDefault' /\ Vault!OpenedIsTrue'
  <2>1. pc' \in {"changed", "idle"}
    BY <1>1
  <2>2. HandTyped'
    BY <1>1, <2>1 DEF VaultInv, HandTyped, Places
  <2> QED
    BY <2>1, <2>2 DEF Locked, Changing, Replacing, OnlyDefault, Working, Writing, Vault!OpenedIsTrue
<1>3. /\ out.type = in.type /\ out.seed = in.seed /\ in.type # "brain" /\ old[2] # Vault!Filename(out)
      /\ old[1] # "box" => n \in DOMAIN disk /\ disk[n] = out
      /\ out \in Vault!WalletSet /\ out.whole /\ ~out.typo
  BY <1>1 DEF VaultInv, Replacing, Writing, HandTyped
<1>4. old \in DOMAIN disk => disk[old].type # "incog_hidden"
  BY DEF VaultInv, FilesTyped
<1>5. n # old
  <2>1. n[2] = Vault!Filename(out)
    BY DEF Vault!Path
  <2> QED
    BY <1>3, <2>1
<1>6. CASE old[1] = "box" /\ box' = [box EXCEPT !.there = FALSE] /\ agreed' = agreed \union {"container"} /\ UNCHANGED disk
  <2>1. FilesTyped' /\ BoxTyped'
    BY <1>6 DEF VaultInv, FilesTyped, BoxTyped
  <2>2. agreed' # {} /\ pc' = "idle"
    BY <1>1, <1>6
  <2> QED
    BY <1>2, <2>1, <2>2 DEF VaultInv, NoTypos, Vault!WalletsOpen, Vault!StillThere, Vault!OldIsGone
<1>7. CASE old[1] # "box" /\ disk' = Vault!Drop({old}) /\ UNCHANGED <<box, agreed>>
  <2>1. DOMAIN disk' = DOMAIN disk \ {old} /\ \A m \in DOMAIN disk' : disk'[m] = disk[m]
    BY <1>7, Dropped
  <2>2. FilesTyped' /\ BoxTyped' /\ NoTypos'
    BY <1>7, <2>1, DroppedTyped DEF VaultInv, BoxTyped, NoTypos
  <2>3. n \in DOMAIN disk' /\ disk'[n] = out
    BY <1>3, <1>5, <1>7, <2>1
  <2>4. Vault!StillThere'
    <3> SUFFICES ASSUME agreed = {}, NEW m \in DOMAIN disk, Vault!Holds(disk[m])
                 PROVE  \E k \in DOMAIN disk' : Vault!Holds(disk'[k])
      BY <1>7 DEF VaultInv, Vault!WalletsOpen, Vault!StillThere
    <3>1. CASE m # old
      BY <2>1, <3>1
    <3>2. CASE m = old
      <4>1. old[1] \notin {"box", "none"}
        <5>1. Named(old, disk[old]) /\ disk[old] \in Vault!WalletSet
          BY <3>2 DEF VaultInv, FilesTyped
        <5> QED
          BY <5>1, NamedAs
      <4>2. in.seed = disk[old].seed
        <5>1. Vault!Nowhere("box")[1] = "box" /\ Vault!NoPath[1] = "none"
          BY Nowheres
        <5> QED
          BY <1>1, <1>3, <4>1, <5>1 DEF VaultInv, Changing, Working
      <4>3. Vault!Holds(out)
        BY <1>3, <3>2, <4>2 DEF Vault!Holds
      <4> QED
        BY <2>3, <4>3
    <3> QED
      BY <3>1, <3>2
  <2>5. Vault!OldIsGone'
    <3> SUFFICES ASSUME old[1] = "data"
                 PROVE  /\ Vault!Defaults' = {Vault!Path("data", out)} /\ disk'[Vault!Path("data", out)] = out
                        /\ old \notin DOMAIN disk'
      <4>1. pc' = "changed" => old[1] = "data"
        BY <1>1
      <4>2. Vault!Path("data", out)' = Vault!Path("data", out) /\ out' = out /\ old' = old
        BY <1>1
      <4> QED
        BY <4>1, <4>2 DEF Vault!OldIsGone
    <3>1. n = Vault!Path("data", out)
      BY <1>1, OutDirs
    <3>2. in.type = "mmgen" /\ Vault!Defaults \subseteq {old} \union {n}
      BY <1>1, <3>1 DEF VaultInv, OnlyDefault, Working
    <3>3. n[1] = "data" /\ n[2].ext = "mmgen" /\ ~n[2].div
      BY <1>3, <3>1, <3>2, NewPath
    <3> HIDE DEF n
    <3>4. n \in Vault!Defaults'
      BY <2>3, <3>3 DEF Vault!Defaults
    <3>5. Vault!Defaults' \subseteq Vault!Defaults \ {old}
      BY <2>1 DEF Vault!Defaults
    <3>6. Vault!Defaults' = {n}
      BY <3>2, <3>4, <3>5
    <3> QED
      BY <2>1, <2>3, <3>1, <3>6
  <2> QED
    BY <1>2, <2>2, <2>4, <2>5 DEF VaultInv, Vault!WalletsOpen
<1>8. CASE old[1] # "data" /\ UNCHANGED <<disk, box, agreed>>
  <2>1. Vault!OldIsGone'
    BY <1>1, <1>8 DEF Vault!OldIsGone
  <2> QED
    BY <1>2, <1>8, <2>1, FilesKept DEF VaultInv, Vault!WalletsOpen
<1> QED
  BY <1>6, <1>7, <1>8 DEF Vault!Shred

(* What the user clears away is no wallet, or one that is there twice.     *)
LEMMA TidyStep == ASSUME Vault!WalletsAssumption, VaultInv, Vault!Tidy PROVE VaultInv'
<1>1. pc = "idle" /\ UNCHANGED <<box, pc, job, in, old, out, agreed, done>>
  BY DEF Vault!Tidy
<1>2. BoxTyped' /\ HandTyped'
  BY <1>1 DEF VaultInv, BoxTyped, HandTyped
<1>3. Locked' /\ Changing' /\ Replacing' /\ OnlyDefault' /\ Vault!OpenedIsTrue' /\ Vault!OldIsGone'
  BY <1>1 DEF Locked, Changing, Replacing, OnlyDefault, Working, Writing, Vault!OpenedIsTrue, Vault!OldIsGone
<1>4. CASE \E n \in DOMAIN disk :
             /\ disk[n].whole => \E m \in Vault!Defaults \ {n} : n \in Vault!Defaults /\ disk[m].whole /\ disk[m].seed = disk[n].seed
             /\ disk' = Vault!Drop({n})
  <2>1. PICK n \in DOMAIN disk :
             /\ disk[n].whole => \E m \in Vault!Defaults \ {n} : n \in Vault!Defaults /\ disk[m].whole /\ disk[m].seed = disk[n].seed
             /\ disk' = Vault!Drop({n})
    BY <1>4
  <2>2. DOMAIN disk' = DOMAIN disk \ {n} /\ \A m \in DOMAIN disk' : disk'[m] = disk[m]
    BY <2>1, Dropped
  <2>3. FilesTyped' /\ NoTypos'
    BY <1>1, <2>1, <2>2, DroppedTyped DEF VaultInv, NoTypos
  <2>4. Vault!StillThere'
    <3> SUFFICES ASSUME agreed = {}, NEW k \in DOMAIN disk, Vault!Holds(disk[k])
                 PROVE  \E m \in DOMAIN disk' : Vault!Holds(disk'[m])
      BY <1>1 DEF VaultInv, Vault!WalletsOpen, Vault!StillThere
    <3>1. CASE k # n
      BY <2>2, <3>1
    <3>2. CASE k = n
      <4>1. PICK m \in Vault!Defaults \ {n} : disk[m].whole /\ disk[m].seed = disk[n].seed
        BY <2>1, <3>2 DEF Vault!Holds
      <4>2. m \in DOMAIN disk' /\ disk'[m] = disk[m]
        BY <2>2, <4>1 DEF Vault!Defaults
      <4>3. ~disk[m].typo
        BY <2>2, <4>2 DEF VaultInv, NoTypos
      <4>4. Vault!Holds(disk[m])
        BY <3>2, <4>1, <4>3 DEF Vault!Holds
      <4> QED
        BY <4>2, <4>4
    <3> QED
      BY <3>1, <3>2
  <2> QED
    BY <1>2, <1>3, <2>3, <2>4 DEF VaultInv, Vault!WalletsOpen
<1>5. CASE \E n \in DOMAIN disk :
             LET m == <<n[1], [n[2] EXCEPT !.div = FALSE]>> IN
             n[2].div /\ m \notin DOMAIN disk /\ disk' = Vault!Moved(n, m)
  <2>1. PICK n \in DOMAIN disk :
             LET m == <<n[1], [n[2] EXCEPT !.div = FALSE]>> IN
             n[2].div /\ m \notin DOMAIN disk /\ disk' = Vault!Moved(n, m)
    BY <1>5
  <2> DEFINE m == <<n[1], [n[2] EXCEPT !.div = FALSE]>>
  <2>2. m \notin DOMAIN disk /\ disk' = Vault!Moved(n, m)
    BY <2>1
  <2>3. disk[n] \in Vault!WalletSet /\ Named(n, disk[n])
    BY DEF VaultInv, FilesTyped
  <2>4. n[1] \in {"data", "work"} /\ n[2].div \in BOOLEAN /\ n[2] = NameOf(disk[n], n[2].div)
    BY <2>3, NamedAs
  <2>5. m = <<n[1], NameOf(disk[n], FALSE)>>
    <3>1. PICK d \in BOOLEAN : d = n[2].div
      BY <2>4
    <3>2. [NameOf(disk[n], d) EXCEPT !.div = FALSE] = NameOf(disk[n], FALSE)
      BY <2>3, Names
    <3> QED
      BY <2>4, <3>1, <3>2
  <2>6. Named(m, disk[n])
    BY <2>4, <2>5 DEF Named
  <2> HIDE DEF m
  <2>7. /\ FilesTyped'
        /\ DOMAIN disk' = (DOMAIN disk \ {n}) \union {m} /\ disk'[m] = disk[n]
        /\ \A k \in DOMAIN disk : k # n /\ k # m => disk'[k] = disk[k]
    BY <2>2, <2>6, MovedTyped
  <2>8. \A k \in DOMAIN disk : k # m
    BY <2>2
  <2>9. NoTypos'
    BY <1>1, <2>7 DEF VaultInv, NoTypos
  <2>10. Vault!StillThere'
    <3> SUFFICES ASSUME agreed = {}, NEW k \in DOMAIN disk, Vault!Holds(disk[k])
                 PROVE  \E l \in DOMAIN disk' : Vault!Holds(disk'[l])
      BY <1>1 DEF VaultInv, Vault!WalletsOpen, Vault!StillThere
    <3>1. CASE k # n
      BY <2>7, <2>8, <3>1
    <3>2. CASE k = n
      BY <2>7, <3>2
    <3> QED
      BY <3>1, <3>2
  <2> QED
    BY <1>2, <1>3, <2>7, <2>9, <2>10 DEF VaultInv, Vault!WalletsOpen
<1> QED
  BY <1>4, <1>5 DEF Vault!Tidy

LEMMA VaultStep == ASSUME Vault!WalletsAssumption, VaultInv, [Vault!Next]_(Vault!vars) PROVE VaultInv'
<1>1. CASE \E j \in Jobs : Vault!Start(j)
  BY <1>1, StartStep
<1>2. CASE Vault!Finish \/ Vault!Crash
  BY <1>2, Ended, FilesKept DEF Vault!Finish, Vault!Crash, Vault!End
<1>3. CASE UNCHANGED Vault!vars
  <2>1. UNCHANGED <<disk, box, pc, job, in, old, out, agreed, done>>
    BY <1>3 DEF Vault!vars
  <2>2. HandTyped' /\ Locked' /\ Changing'
    BY <2>1 DEF VaultInv, HandTyped, Locked, Changing, Vault!Read
  <2>3. Replacing'
    <3>1. Vault!Filename(out)' = Vault!Filename(out) /\ Vault!Path(Vault!OutDir, out)' = Vault!Path(Vault!OutDir, out)
      BY <2>1 DEF Vault!OutDir
    <3> QED
      BY <2>1, <3>1 DEF VaultInv, Replacing
  <2>4. OnlyDefault' /\ Vault!OldIsGone'
    <3>1. Vault!Defaults' = Vault!Defaults /\ Vault!Path("data", out)' = Vault!Path("data", out)
      BY <2>1 DEF Vault!Defaults
    <3> QED
      BY <2>1, <3>1 DEF VaultInv, OnlyDefault, Vault!WalletsOpen, Vault!OldIsGone
  <2>5. Vault!OpenedIsTrue'
    BY <2>1 DEF VaultInv, Vault!WalletsOpen, Vault!OpenedIsTrue, Vault!WrittenAt
  <2> QED
    BY <2>1, <2>2, <2>3, <2>4, <2>5, FilesKept DEF VaultInv, Vault!WalletsOpen
<1> QED
  BY <1>1, <1>2, <1>3, GetStep, DecryptStep, EncryptStep, RenameStep, CreateStep, WriteStep, HideStep, ShredStep, TidyStep
     DEF Vault!Next

LEMMA VaultOpens == VaultInv => Vault!WalletsOpen
BY DEF VaultInv

(* Until the user agrees to write over it, the seed can be had from some   *)
(* file or hidden wallet, wherever a command is killed; a format with a    *)
(* checksum opens to what was written; and passchg leaves one default      *)
(* wallet, the new one.  This is of the subjects as the run composes them  *)
(* (MCSeeds), for any wallets, passwords and commands.                     *)
THEOREM SeedNeverLost == MCSpec => []WalletsOpen
<1> DEFINE I == subject = "wallets" => VaultInv
<1>1. MCInit => I
  <2> SUFFICES ASSUME MCInit, subject = "wallets" PROVE VaultInv
    OBVIOUS
  <2>1. Vault!Init
    BY DEF MCInit, HostedInit
  <2> QED
    BY <2>1, VaultStarts, WalletConstants
<1>2. I /\ [MCNext]_allVars => I'
  <2> SUFFICES ASSUME I, [MCNext]_allVars, subject' = "wallets" PROVE VaultInv'
    OBVIOUS
  <2>1. subject = "wallets" /\ [Vault!Next]_(Vault!vars)
    BY DEF MCNext, HostedNext, allVars, filed, Vault!vars
  <2> QED
    BY <2>1, VaultStep, WalletConstants
<1>3. I => WalletsOpen
  BY VaultOpens DEF WalletsOpen
<1> QED
  BY <1>1, <1>2, <1>3, PTL DEF MCSpec
=============================================================================
