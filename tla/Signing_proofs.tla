--------------------------- MODULE Signing_proofs ---------------------------
(***************************************************************************)
(* Theorems of the signing machine's components, which MCTransactions      *)
(* hosts, for any transactions, wallets, devices and messages: how keys    *)
(* are found (TxSign), how the machine is set up (AutosignSetup), and what *)
(* a message signed and one verified are (MsgSign).                        *)
(***************************************************************************)
EXTENDS MCTransactions, SequenceTheorems, FiniteSetTheorems, WellFoundedInduction, TLAPS

USE DEF Keys!vars, Keys!seeking, Setup!setupVars, Setup!devVars, Setup!machineVars, Setup!cmdVars, Setup!loopVars

----------------------------------------------------------------------------
(* Every key passed to the signer is accounted for.                        *)

(* While a transaction is worked on: what is noted as done is true, keys   *)
(* are those of its inputs, and the calls of add_keys() that look for      *)
(* seeds leave no address behind.                                          *)
Done(i) == \A a \in Keys!Wallets(Keys!Part(i)) : <<Keys!Kind(i), a>> \in have

Noted ==
    /\ \A i \in 1 .. 3 : \A a : <<i, a>> \in have => a.true
    /\ \A a : <<1, a>> \in have => a \in Keys!Current.ins
    /\ \A a : a \in keys <=> a \in Keys!Current.ins /\ (a.sid = NoSeed \/ <<1, a>> \in have)
    /\ \A i \in 4 .. 6 : i < stage => Done(i)

KeysInv ==
    /\ stage \in 1 .. 7
    /\ step \in {"add", "seek"} => Noted
    /\ step = "seek" => stage <= 6
    /\ step = "begin" => have = {}

LEMMA Parts ==
    ASSUME NEW i \in 1 .. 6
    PROVE  /\ Keys!Kind(i) \in 1 .. 3 /\ (Keys!Kind(i) = 1 <=> i \in {1, 4}) /\ (i > 3 => Keys!Kind(i) = i - 3)
           /\ Keys!Kind(i) = 1 => Keys!Part(i) = Keys!Current.ins
<1>1. i \in {1, 2, 3, 4, 5, 6}
  OBVIOUS
<1> QED
  BY <1>1 DEF Keys!Kind, Keys!Part

(* A call of add_keys() whose seeds are at hand.                           *)
LEMMA AddKeysStep == ASSUME KeysInv, Keys!AddKeys PROVE KeysInv'
<1>1. /\ step = "add" /\ stage \in 1 .. 6 /\ Noted
      /\ Keys!Current' = Keys!Current /\ UNCHANGED <<job, nth>>
  BY DEF Keys!AddKeys, KeysInv, Keys!Current
<1>2. CASE \E a \in Keys!Given(stage) : ~a.true
  <2>1. step' \in {"load", "died"} /\ stage' = stage
    BY <1>2 DEF Keys!AddKeys, Keys!Refuse
  <2> QED
    BY <1>1, <2>1 DEF KeysInv
<1>3. CASE ~(\E a \in Keys!Given(stage) : ~a.true)
  <2> DEFINE kind == Keys!Kind(stage)
             given == Keys!Given(stage)
  <2>1. /\ step' = step /\ stage' = stage + 1
        /\ have' = have \union {<<kind, a>> : a \in given}
        /\ keys' = IF kind = 1 THEN keys \union given ELSE keys
    BY <1>3 DEF Keys!AddKeys
  <2>2. /\ kind \in 1 .. 3 /\ (stage > 3 => kind = stage - 3)
        /\ kind = 1 => Keys!Part(stage) = Keys!Current.ins
    BY <1>1, Parts
  <2>3. \A a \in given : a \in Keys!Part(stage) /\ a.sid # NoSeed /\ a.true
    BY <1>3 DEF Keys!Given, Keys!Need, Keys!Wallets
  <2>4. stage > 3 => \A a \in Keys!Wallets(Keys!Part(stage)) : <<kind, a>> \in have \/ a \in given
    BY <1>1 DEF Keys!Given, Keys!Need
  <2> HIDE DEF kind, given
  <2>5. \A i : \A a : <<i, a>> \in have' <=> <<i, a>> \in have \/ (i = kind /\ a \in given)
    BY <2>1
  <2>6. \A i \in 4 .. 6 : i < stage' => Done(i)'
    <3> SUFFICES ASSUME NEW i \in 4 .. 6, i < stage' PROVE Done(i)'
      OBVIOUS
    <3>1. Keys!Part(i)' = Keys!Part(i) /\ Keys!Kind(i) = i - 3
      BY <1>1, Parts DEF Keys!Part
    <3>2. CASE i < stage
      BY <1>1, <2>5, <3>1, <3>2 DEF Noted, Done
    <3>3. CASE i = stage
      BY <2>2, <2>4, <2>5, <3>1, <3>3 DEF Done, kind
    <3> QED
      BY <1>1, <2>1, <3>2, <3>3
  <2>7. \A a : a \in keys' <=> a \in Keys!Current.ins /\ (a.sid = NoSeed \/ <<1, a>> \in have')
    BY <1>1, <2>1, <2>2, <2>3, <2>5 DEF Noted
  <2>8. Noted'
    BY <1>1, <2>2, <2>3, <2>5, <2>6, <2>7 DEF Noted
  <2> QED
    BY <1>1, <2>1, <2>8 DEF KeysInv
<1> QED
  BY <1>2, <1>3

LEMMA KeysInvNext == KeysInv /\ [Keys!Next]_Keys!vars => KeysInv'
<1> SUFFICES ASSUME KeysInv, [Keys!Next]_Keys!vars PROVE KeysInv'
  OBVIOUS
<1>1. ASSUME UNCHANGED <<job, nth, have, keys, stage>>, step \in {"add", "seek"},
             step' \in {"add", "seek"}, step' = "seek" => stage <= 6
      PROVE  KeysInv'
  <2>1. Noted'
    BY <1>1 DEF Noted, Done, Keys!Current, Keys!Part, Keys!Kind, KeysInv
  <2> QED
    BY <1>1, <2>1 DEF KeysInv
<1>2. ASSUME step' \notin {"add", "seek"}, stage' \in 1 .. 7, step' = "begin" => have' = {} PROVE KeysInv'
  BY <1>2 DEF KeysInv
<1>3. CASE Keys!LoadTx
  BY <1>2, <1>3 DEF Keys!LoadTx
<1>4. CASE Keys!Begin
  <2>1. CASE step' = "add"
    <3>1. stage' \in {1, 4} /\ keys' = Keys!Current.ins \ Keys!Wallets(Keys!Current.ins) /\ UNCHANGED <<job, nth, have>>
      BY <1>4, <2>1 DEF Keys!Begin, Keys!Refuse
    <3>2. step = "begin" /\ have' = {}
      BY <1>4, <3>1 DEF Keys!Begin, KeysInv
    <3>3. Noted'
      BY <3>1, <3>2 DEF Noted, Keys!Current, Keys!Wallets
    <3> QED
      BY <2>1, <3>1, <3>3 DEF KeysInv
  <2>2. CASE step' # "add"
    BY <1>2, <1>4, <2>2 DEF Keys!Begin, Keys!Refuse, KeysInv
  <2> QED
    BY <2>1, <2>2
<1>5. CASE Keys!AddKeys
  BY <1>5, AddKeysStep
<1>6. CASE Keys!OpenWallet
  BY <1>1, <1>6 DEF Keys!OpenWallet, Keys!Keep, KeysInv
<1>7. CASE Keys!SearchSubseeds
  BY <1>1, <1>7 DEF Keys!SearchSubseeds, Keys!Keep, KeysInv
<1>8. CASE Keys!NoSource
  BY <1>2, <1>8 DEF Keys!NoSource, Keys!Refuse, KeysInv
<1>9. CASE Keys!Sign
  BY <1>2, <1>9 DEF Keys!Sign, KeysInv
<1>10. ASSUME NEW s \in DOMAIN Subseeds, Keys!Seek(s) PROVE KeysInv'
  BY <1>1, <1>10 DEF Keys!Seek, KeysInv
<1>11. ASSUME NEW s \in DOMAIN Subseeds, Keys!AskUser(s) PROVE KeysInv'
  <2>1. CASE s = sid \/ sid \in Subseeds[s]
    BY <1>1, <1>11, <2>1 DEF Keys!AskUser, Keys!Keep, KeysInv
  <2>2. CASE ~(s = sid \/ sid \in Subseeds[s])
    BY <1>2, <1>11, <2>2 DEF Keys!AskUser, Keys!Refuse, KeysInv
  <2> QED
    BY <2>1, <2>2
<1>12. CASE UNCHANGED Keys!vars
  BY <1>12 DEF KeysInv, Noted, Done, Keys!Current, Keys!Part, Keys!Kind
<1> QED
  BY <1>3, <1>4, <1>5, <1>6, <1>7, <1>8, <1>9, <1>10, <1>11, <1>12 DEF Keys!Next

(* When the keys are passed to the signer, every address of the            *)
(* transaction that has an MMGen ID has been found to belong to it, and    *)
(* there is a key for every input and for nothing else, for any            *)
(* transactions, wallets, key files and answers of the user.               *)
THEOREM SignsTheVerified == Keys!Spec => []Keys!SignedIsVerified
<1>1. Keys!Init => KeysInv
  BY DEF Keys!Init, KeysInv
<1>2. KeysInv => Keys!SignedIsVerified
  <2> SUFFICES ASSUME KeysInv, step = "add", stage > 6
               PROVE  /\ \A a \in Keys!Wallets(Keys!Current.ins \union Keys!Current.outs \union Keys!Current.memo) : a.true
                      /\ keys = Keys!Current.ins
    BY DEF Keys!SignedIsVerified
  <2>1. Noted /\ Done(4) /\ Done(5) /\ Done(6)
    BY DEF KeysInv, Noted
  <2>2. /\ Keys!Part(4) = Keys!Current.ins /\ Keys!Part(5) = Keys!Current.outs /\ Keys!Part(6) = Keys!Current.memo
        /\ Keys!Kind(4) = 1 /\ Keys!Kind(5) = 2 /\ Keys!Kind(6) = 3
    BY DEF Keys!Part, Keys!Kind
  <2> QED
    BY <2>1, <2>2 DEF Done, Noted, Keys!Wallets
<1> QED
  BY <1>1, <1>2, KeysInvNext, PTL DEF Keys!Spec

----------------------------------------------------------------------------
(* A transaction is refused for a reason of its own.                       *)

LEMMA Elements ==
    ASSUME NEW S, NEW s \in Seq(S), NEW e \in S
    PROVE  /\ Keys!Range(Append(s, e)) = Keys!Range(s) \union {e}
           /\ s # <<>> => Head(s) \in S /\ Tail(s) \in Seq(S) /\ Keys!Range(s) = {Head(s)} \union Keys!Range(Tail(s))
           /\ Keys!Range(<<>>) = {}
<1>1. Keys!Range(Append(s, e)) = Keys!Range(s) \union {e}
  <2>1. /\ DOMAIN s = 1 .. Len(s) /\ DOMAIN Append(s, e) = 1 .. (Len(s) + 1) /\ Len(s) \in Nat
        /\ \A i \in DOMAIN s : Append(s, e)[i] = s[i]
        /\ Append(s, e)[Len(s) + 1] = e
    OBVIOUS
  <2>2. \A i \in 1 .. (Len(s) + 1) : i = Len(s) + 1 \/ i \in DOMAIN s
    BY <2>1
  <2> QED
    BY <2>1, <2>2 DEF Keys!Range
<1>2. ASSUME s # <<>> PROVE Head(s) \in S /\ Tail(s) \in Seq(S) /\ Keys!Range(s) = {Head(s)} \union Keys!Range(Tail(s))
  <2>1. /\ Len(s) \in Nat \ {0} /\ DOMAIN s = 1 .. Len(s) /\ DOMAIN Tail(s) = 1 .. (Len(s) - 1)
        /\ \A i \in 1 .. (Len(s) - 1) : Tail(s)[i] = s[i + 1]
        /\ Head(s) = s[1] /\ Head(s) \in S /\ Tail(s) \in Seq(S)
    BY <1>2, HeadTailProperties
  <2>2. \A i \in 1 .. Len(s) : i = 1 \/ (i - 1 \in DOMAIN Tail(s) /\ Tail(s)[i - 1] = s[i])
    BY <2>1
  <2>3. \A i \in DOMAIN Tail(s) : i + 1 \in DOMAIN s
    BY <2>1
  <2>4. ASSUME NEW x \in Keys!Range(s) PROVE x = Head(s) \/ x \in Keys!Range(Tail(s))
    <3>1. PICK i \in DOMAIN s : x = s[i]
      BY DEF Keys!Range
    <3>2. i \in 1 .. Len(s)
      BY <2>1
    <3>3. i = 1 \/ (i - 1 \in DOMAIN Tail(s) /\ Tail(s)[i - 1] = x)
      BY <2>2, <3>1, <3>2
    <3> QED
      BY <2>1, <3>1, <3>3 DEF Keys!Range
  <2>5. \A x \in Keys!Range(Tail(s)) : x \in Keys!Range(s)
    BY <2>1, <2>3 DEF Keys!Range
  <2>6. Head(s) \in Keys!Range(s)
    BY <2>1 DEF Keys!Range
  <2> QED
    BY <2>1, <2>4, <2>5, <2>6
<1>3. Keys!Range(<<>>) = {}
  BY DEF Keys!Range
<1> QED
  BY <1>1, <1>2, <1>3

Seeds == DOMAIN Subseeds

Results == {"refused", "signed", "failed"}

SignTyped ==
    /\ job \in SignJobs
    /\ nth \in Nat
    /\ files \in Seq(Seeds) /\ pool \in Seq(Seeds) /\ saved \in Seq(Seeds)
    /\ step = "seek" => sid \in Seeds
    /\ result \in Seq(Results)

(* The signing program of autosign: its list of wallet files is never used *)
(* up, so that every wallet has been opened or is still in the list when a *)
(* seed is looked for; there is one result for each transaction.           *)
AutoInv ==
    /\ files = job.files \o job.dflt
    /\ step # "load" => copied
    /\ IF step = "load" THEN nth = Len(result) ELSE nth = Len(result) + 1
    /\ step \in {"begin", "add", "seek"} => Keys!Range(files) \subseteq Keys!Range(pool) \union Keys!Range(saved)
    /\ step = "seek" => sid \notin Keys!Range(saved) /\ \E a \in Keys!Wallets(Keys!Part(stage)) : a.sid = sid
    /\ Keys!AutosignRefusesOnly

RefuseInv == SignTyped /\ (job.auto => AutoInv)

(* Refusing, signing and failing to sign end the work on a transaction.    *)
LEMMA Concluded ==
    ASSUME RefuseInv, step # "load", step' = "load", UNCHANGED <<job, nth, files, pool>>, saved' \in Seq(Seeds),
           NEW how \in Results, result' = Append(result, how), how = "refused" /\ job.auto => Keys!Deserved(Keys!Current)
    PROVE  RefuseInv'
<1>1. /\ result \in Seq(Results) /\ result' \in Seq(Results) /\ Len(result) \in Nat
      /\ Len(result') = Len(result) + 1 /\ DOMAIN result = 1 .. Len(result) /\ DOMAIN result' = 1 .. (Len(result) + 1)
      /\ result'[Len(result) + 1] = how /\ \A i \in DOMAIN result : result'[i] = result[i]
  BY DEF RefuseInv, SignTyped
<1>2. SignTyped'
  BY <1>1 DEF RefuseInv, SignTyped
<1>3. ASSUME job.auto PROVE AutoInv'
  <2>1. AutoInv /\ nth = Len(result) + 1
    BY <1>3 DEF RefuseInv, AutoInv
  <2>2. \A txn : Keys!Deserved(txn)' <=> Keys!Deserved(txn)
    BY DEF Keys!Deserved
  <2>3. Keys!AutosignRefusesOnly'
    <3> SUFFICES ASSUME NEW j \in DOMAIN result', result'[j] = "refused" PROVE Keys!Deserved(job.txs[j])
      BY <2>2 DEF Keys!AutosignRefusesOnly
    <3>1. CASE j \in DOMAIN result
      BY <1>1, <1>3, <2>1, <3>1 DEF AutoInv, Keys!AutosignRefusesOnly
    <3>2. CASE j = nth
      BY <1>1, <1>3, <2>1, <3>2 DEF Keys!Current
    <3> QED
      BY <1>1, <2>1, <3>1, <3>2
  <2> QED
    BY <1>1, <2>1, <2>3 DEF AutoInv
<1> QED
  BY <1>2, <1>3 DEF RefuseInv

LEMMA Refused ==
    ASSUME RefuseInv, step # "load", Keys!Refuse, UNCHANGED <<job, nth, files, pool>>, saved' \in Seq(Seeds),
           job.auto => Keys!Deserved(Keys!Current)
    PROVE  RefuseInv'
<1>1. CASE job.auto
  BY <1>1, Concluded DEF Keys!Refuse, Results
<1>2. CASE ~job.auto
  BY <1>2 DEF Keys!Refuse, RefuseInv, SignTyped
<1> QED
  BY <1>1, <1>2

(* What is done between beginning a transaction and its result.            *)
LEMMA Working ==
    ASSUME RefuseInv, step # "load", step' # "load", UNCHANGED <<job, nth, result, copied>>,
           pool' \in Seq(Seeds), saved' \in Seq(Seeds), files' \in Seq(Seeds), copied => files' = files,
           step' \in {"begin", "add", "seek"} => step \in {"begin", "add", "seek"},
           Keys!Range(pool) \union Keys!Range(saved) \subseteq Keys!Range(pool') \union Keys!Range(saved'),
           step' = "seek" => sid' \in Seeds /\ sid' \notin Keys!Range(saved'),
           step' = "seek" /\ job.auto => \E a \in Keys!Wallets(Keys!Part(stage))' : a.sid = sid'
    PROVE  RefuseInv'
<1>1. SignTyped'
  BY DEF RefuseInv, SignTyped
<1>2. ASSUME job.auto PROVE AutoInv'
  <2>1. AutoInv /\ copied /\ files' = files
    BY <1>2 DEF RefuseInv, AutoInv
  <2>2. Keys!AutosignRefusesOnly'
    BY <2>1 DEF AutoInv, Keys!AutosignRefusesOnly, Keys!Deserved
  <2>3. step' \in {"begin", "add", "seek"} => Keys!Range(files') \subseteq Keys!Range(pool') \union Keys!Range(saved')
    BY <2>1 DEF AutoInv
  <2>4. nth' = Len(result') + 1
    BY <2>1 DEF AutoInv
  <2>5. step' = "seek" => sid' \notin Keys!Range(saved') /\ \E a \in Keys!Wallets(Keys!Part(stage))' : a.sid = sid'
    BY <1>2
  <2>6. files' = job'.files \o job'.dflt /\ copied'
    BY <2>1 DEF AutoInv
  <2> QED
    BY <2>2, <2>3, <2>4, <2>5, <2>6 DEF AutoInv
<1> QED
  BY <1>1, <1>2 DEF RefuseInv

(* A seed no wallet file has is looked for in all of them and refused.     *)
LEMMA Nowhere ==
    ASSUME RefuseInv, job.auto, step = "seek", pool = <<>>, Keys!SignAssumption
    PROVE  Keys!Deserved(Keys!Current)
<1>1. PICK a \in Keys!Wallets(Keys!Part(stage)) : a.sid = sid
  BY DEF RefuseInv, AutoInv
<1>2. a \in Keys!Current.ins \union Keys!Current.outs \union Keys!Current.memo /\ a.sid # NoSeed
  BY <1>1 DEF Keys!Wallets, Keys!Part
<1>3. sid \notin Keys!Range(files)
  BY Elements DEF RefuseInv, AutoInv, SignTyped
<1> QED
  BY <1>1, <1>2, <1>3 DEF RefuseInv, AutoInv, Keys!Deserved

LEMMA RefuseInvNext ==
    ASSUME Keys!SignAssumption, KeysInv, RefuseInv, [Keys!Next]_Keys!vars PROVE RefuseInv'
<1>1. CASE Keys!LoadTx
  <2>1. /\ step = "load" /\ step' \in {"died", "begin"} /\ nth' = nth + 1 /\ saved' = <<>>
        /\ copied' = (job.auto \/ files = <<>>) /\ pool' = IF files # <<>> THEN files ELSE job.dflt
        /\ UNCHANGED <<job, files, sid, result>>
    BY <1>1 DEF Keys!LoadTx
  <2>2. SignTyped'
    <3>1. pool' \in Seq(Seeds)
      BY <2>1 DEF RefuseInv, SignTyped, Keys!SignAssumption, Seeds
    <3>2. nth' \in Nat /\ saved' \in Seq(Seeds)
      BY <2>1 DEF RefuseInv, SignTyped
    <3> QED
      BY <2>1, <3>1, <3>2 DEF RefuseInv, SignTyped
  <2>3. ASSUME job.auto PROVE AutoInv'
    <3>1. AutoInv /\ Len(result) \in Nat
      BY <2>3 DEF RefuseInv, SignTyped
    <3>2. Keys!Range(files) \subseteq Keys!Range(pool')
      BY <2>1, <3>1 DEF Keys!Range
    <3>3. Keys!AutosignRefusesOnly'
      BY <2>1, <3>1 DEF AutoInv, Keys!AutosignRefusesOnly, Keys!Deserved
    <3>4. copied'
      BY <2>1, <2>3
    <3> QED
      BY <2>1, <3>1, <3>2, <3>3, <3>4 DEF AutoInv
  <2> QED
    BY <2>1, <2>2, <2>3 DEF RefuseInv
<1>2. CASE Keys!Begin
  <2>1. step = "begin" /\ UNCHANGED <<job, files, nth, pool, copied, saved, sid, checked, have>>
    BY <1>2 DEF Keys!Begin
  <2>2. CASE step' = "add" /\ UNCHANGED result
    BY <2>1, <2>2, Working DEF RefuseInv, SignTyped
  <2>3. CASE Keys!Refuse /\ Keys!Deserved(Keys!Current)
    BY <2>1, <2>3, Refused DEF RefuseInv, SignTyped
  <2> QED
    BY <1>2, <2>2, <2>3 DEF Keys!Begin, Keys!Deserved, Keys!Wallets
<1>3. CASE Keys!AddKeys
  <2>1. step = "add" /\ UNCHANGED <<job, files, nth, pool, copied, saved, sid, checked>>
    BY <1>3 DEF Keys!AddKeys
  <2>2. CASE UNCHANGED <<step, result>>
    BY <2>1, <2>2, Working DEF RefuseInv, SignTyped
  <2>3. ASSUME Keys!Refuse, NEW a \in Keys!Given(stage), ~a.true PROVE RefuseInv'
    <3>1. a \in Keys!Current.ins \union Keys!Current.outs \union Keys!Current.memo /\ a.sid # NoSeed
      BY <2>3 DEF Keys!Given, Keys!Need, Keys!Wallets, Keys!Part
    <3>2. Keys!Deserved(Keys!Current)
      BY <2>3, <3>1 DEF Keys!Deserved
    <3> QED
      BY <2>1, <2>3, <3>2, Refused DEF RefuseInv, SignTyped
  <2> QED
    BY <1>3, <2>2, <2>3 DEF Keys!AddKeys
<1>4. ASSUME NEW s \in Seeds, Keys!Keep(s), step = "seek", pool' \in Seq(Seeds), UNCHANGED <<job, nth, result, copied, stage, sid>>,
             files' \in Seq(Seeds), copied => files' = files,
             Keys!Range(pool) \subseteq Keys!Range(pool') \union {s}
      PROVE  RefuseInv'
  <2>1. saved \in Seq(Seeds) /\ Keys!Range(Append(saved, s)) = Keys!Range(saved) \union {s}
    BY Elements DEF RefuseInv, SignTyped
  <2>2. saved' \in Seq(Seeds) /\ Keys!Range(saved') = Keys!Range(saved) \union {s}
    BY <1>4, <2>1 DEF Keys!Keep
  <2>3. step' = "seek" => s # sid
    BY <1>4 DEF Keys!Keep
  <2>4. step' \in {"add", "seek"}
    BY <1>4 DEF Keys!Keep
  <2>5. step' = "seek" /\ job.auto => sid' \notin Keys!Range(saved') /\ \E a \in Keys!Wallets(Keys!Part(stage))' : a.sid = sid'
    BY <1>4, <2>2, <2>3 DEF RefuseInv, AutoInv, Keys!Wallets, Keys!Part, Keys!Current
  <2> QED
    BY <1>4, <2>2, <2>3, <2>4, <2>5, Working DEF RefuseInv, SignTyped
<1>5. CASE Keys!OpenWallet
  <2>1. /\ pool # <<>> /\ pool' = Tail(pool) /\ files' = (IF copied THEN files ELSE pool') /\ step = "seek"
        /\ Keys!Keep(Head(pool)) /\ UNCHANGED <<job, nth, copied, stage, sid, checked, have, keys, result>>
    BY <1>5 DEF Keys!OpenWallet
  <2>2. /\ Head(pool) \in Seeds /\ pool' \in Seq(Seeds)
        /\ Keys!Range(pool) = {Head(pool)} \union Keys!Range(pool')
    BY <2>1, Elements DEF RefuseInv, SignTyped
  <2> QED
    BY <1>4, <2>1, <2>2 DEF RefuseInv, SignTyped
<1>6. CASE Keys!SearchSubseeds
  <2>1. /\ step = "seek" /\ sid \in Seeds
        /\ UNCHANGED <<job, files, nth, pool, copied, stage, sid, have, keys, result>>
    BY <1>6 DEF Keys!SearchSubseeds, RefuseInv, SignTyped
  <2>2. CASE Keys!Keep(sid)
    BY <1>4, <2>1, <2>2 DEF RefuseInv, SignTyped
  <2>3. CASE UNCHANGED <<saved, step>>
    BY <2>1, <2>3 DEF RefuseInv, SignTyped, AutoInv, Keys!AutosignRefusesOnly, Keys!Deserved, Keys!Part, Keys!Current, Keys!Wallets
  <2> QED
    BY <1>6, <2>2, <2>3 DEF Keys!SearchSubseeds
<1>7. CASE Keys!NoSource
  BY <1>7, Nowhere, Refused DEF Keys!NoSource, Keys!Exhausted, RefuseInv, SignTyped
<1>8. CASE Keys!Sign
  <2>1. PICK how \in {"signed", "failed"} : result' = Append(result, how)
    BY <1>8 DEF Keys!Sign
  <2> QED
    BY <1>8, <2>1, Concluded DEF Keys!Sign, Results, RefuseInv, SignTyped
<1>9. ASSUME NEW s \in DOMAIN Subseeds, Keys!Seek(s) PROVE RefuseInv'
  <2>1. /\ step = "add" /\ step' = "seek" /\ sid' = s /\ s \notin Keys!Range(saved)
        /\ UNCHANGED <<job, files, nth, pool, copied, saved, stage, have, keys, result>>
    BY <1>9 DEF Keys!Seek
  <2>2. \E a \in Keys!Wallets(Keys!Part(stage)) : a.sid = s
    BY <1>9 DEF Keys!Seek, Keys!Need
  <2>3. \E a \in Keys!Wallets(Keys!Part(stage))' : a.sid = s
    BY <2>1, <2>2 DEF Keys!Wallets, Keys!Part, Keys!Current
  <2> QED
    BY <2>1, <2>3, Working DEF RefuseInv, SignTyped, Seeds
<1>10. ASSUME NEW s \in DOMAIN Subseeds, Keys!AskUser(s) PROVE RefuseInv'
  <2>1. /\ step = "seek" /\ pool = <<>> /\ sid \in Seeds
        /\ UNCHANGED <<job, files, nth, pool, copied, stage, sid, checked, have, keys>>
    BY <1>10 DEF Keys!AskUser, Keys!Exhausted, RefuseInv, SignTyped
  <2>2. CASE Keys!Keep(sid) /\ result' = result
    BY <1>4, <2>1, <2>2 DEF RefuseInv, SignTyped
  <2>3. CASE Keys!Refuse /\ saved' = saved
    BY <2>1, <2>3, Nowhere, Refused DEF RefuseInv, SignTyped
  <2> QED
    BY <1>10, <2>2, <2>3 DEF Keys!AskUser
<1>11. CASE UNCHANGED Keys!vars
  BY <1>11 DEF RefuseInv, SignTyped, AutoInv, Keys!AutosignRefusesOnly, Keys!Deserved, Keys!Part, Keys!Current, Keys!Wallets
<1> QED
  BY <1>1, <1>2, <1>3, <1>4, <1>5, <1>6, <1>7, <1>8, <1>9, <1>10, <1>11 DEF Keys!Next

(* The signing program refuses no transaction without a reason of its own: *)
(* an address that is not what its ID says, a seed none of the wallet      *)
(* files has, a key that was not given, or a swap to a stranger.  What     *)
(* became of the transactions before it, and how many there were, makes no *)
(* difference.                                                             *)
THEOREM RefusedForAReason == ASSUME Keys!SignAssumption PROVE Keys!Spec => []Keys!AutosignRefusesOnly
<1>1. Keys!Init => KeysInv
  BY DEF Keys!Init, KeysInv
<1>2. Keys!Init => RefuseInv
  <2> SUFFICES ASSUME Keys!Init PROVE RefuseInv
    OBVIOUS
  <2>1. job \in SignJobs /\ job.files \in Seq(Seeds) /\ job.dflt \in Seq(Seeds)
    BY DEF Keys!Init, Keys!SignAssumption, Seeds
  <2>2. SignTyped
    BY <2>1 DEF Keys!Init, SignTyped
  <2>3. AutoInv
    BY DEF Keys!Init, AutoInv, Keys!AutosignRefusesOnly
  <2> QED
    BY <2>2, <2>3 DEF RefuseInv
<1>3. RefuseInv => Keys!AutosignRefusesOnly
  BY DEF RefuseInv, AutoInv, Keys!AutosignRefusesOnly
<1>4. KeysInv /\ RefuseInv /\ [Keys!Next]_Keys!vars => (KeysInv /\ RefuseInv)'
  BY KeysInvNext, RefuseInvNext
<1> QED
  BY <1>1, <1>2, <1>3, <1>4, PTL DEF Keys!Spec

----------------------------------------------------------------------------
(* The setup of the signing machine (AutosignSetup).                       *)

Past == [ready : BOOLEAN, target : Devices \union {0, 99}, wiped : Devices \union {0, 99}, intruded : BOOLEAN,
         pulled : BOOLEAN, enabled : BOOLEAN, mixed : BOOLEAN]

(* Which commands take which steps.                                        *)
Stages ==
    /\ step = "none" <=> cmd = "none"
    /\ step \in {"rmdir", "mkdir", "wallet", "keys", "shred"} => Setup!IsSetup

SetupTyped ==
    /\ disk \in [Devices -> Int] /\ view \in Int /\ made \in Nat
    /\ plugged \in Devices \union {0} /\ mounted \in Devices \union {0, 99}
    /\ ram \in [dir : BOOLEAN, wallet : Int, keys : Int]
    /\ past \in Past

USE DEF Setup!None, Setup!Stale

LEMMA Places ==
    ASSUME SetupTyped, Setup!SetupAssumption
    PROVE  Setup!Junk \in Int /\ Setup!Junk \notin 1 .. MaxKeys /\ Setup!Junk # 0 /\ (Setup!Accessible <=> mounted \in Devices)
BY DEF SetupTyped, Setup!SetupAssumption, Setup!Junk, Setup!Accessible

LEMMA Mounting ==
    ASSUME SetupTyped, Setup!SetupAssumption, Setup!CanMount, Setup!do_mount
    PROVE  mounted' \in Devices /\ view' \in Int /\ UNCHANGED <<disk, plugged>>
BY DEF SetupTyped, Setup!CanMount, Setup!do_mount, Setup!SetupAssumption

LEMMA Unmounting ==
    ASSUME SetupTyped, Setup!SetupAssumption, Setup!do_umount
    PROVE  disk' \in [Devices -> Int] /\ view' = 0 /\ mounted' = 0 /\ UNCHANGED plugged
BY Places DEF SetupTyped, Setup!do_umount

LEMMA Pulling ==
    ASSUME SetupTyped, Setup!SetupAssumption, Setup!Pulled
    PROVE  disk' \in [Devices -> Int]
<1>1. CASE Setup!Accessible
  <2>1. mounted \in Devices /\ Setup!Junk \in Int /\ view \in Int /\ disk \in [Devices -> Int]
    BY <1>1, Places DEF SetupTyped
  <2>2. disk' \in {disk, [disk EXCEPT ![mounted] = view], [disk EXCEPT ![mounted] = Setup!Junk]}
    BY <1>1 DEF Setup!Pulled
  <2> QED
    BY <2>1, <2>2
<1>2. CASE ~Setup!Accessible
  BY <1>2 DEF Setup!Pulled, SetupTyped
<1> QED
  BY <1>1, <1>2

Names == {"setup", "setup -k", "gen_key", "wipe_key", "enable_swap", "disable_swap"}

LEMMA CommandStarted ==
    ASSUME Setup!StartSetup \/ Setup!StartOther
    PROVE  \E name \in Names, first \in {"inserted", "mount", "enable", "disable"} :
               Setup!Start(name, first) /\ (name \in {"setup", "setup -k"} => first = "inserted") /\ (name = "wipe_key" => first = "mount")
<1>1. CASE Setup!StartSetup
  BY <1>1 DEF Setup!StartSetup, Names
<1>2. CASE Setup!StartOther
  <2>1. PICK pair \in {<<"gen_key", "inserted">>, <<"wipe_key", "mount">>, <<"enable_swap", "enable">>, <<"disable_swap", "disable">>} :
            Setup!Start(pair[1], pair[2])
    BY <1>2 DEF Setup!StartOther
  <2>2. /\ pair[1] \in Names /\ pair[2] \in {"inserted", "mount", "enable", "disable"}
        /\ pair[1] \notin {"setup", "setup -k"} /\ (pair[1] = "wipe_key" => pair[2] = "mount")
    <3>1. \/ pair = <<"gen_key", "inserted">> \/ pair = <<"wipe_key", "mount">>
          \/ pair = <<"enable_swap", "enable">> \/ pair = <<"disable_swap", "disable">>
      OBVIOUS
    <3>2. CASE pair = <<"gen_key", "inserted">>
      BY <3>2 DEF Names
    <3>3. CASE pair = <<"wipe_key", "mount">>
      BY <3>3 DEF Names
    <3>4. CASE pair = <<"enable_swap", "enable">>
      BY <3>4 DEF Names
    <3>5. CASE pair = <<"disable_swap", "disable">>
      BY <3>5 DEF Names
    <3> QED
      BY <3>1, <3>2, <3>3, <3>4, <3>5
  <2> QED
    BY <2>1, <2>2
<1> QED
  BY <1>1, <1>2

LEMMA StagesNext == Stages /\ [Setup!Next]_Setup!setupVars => Stages'
<1> SUFFICES ASSUME Stages, [Setup!Next]_Setup!setupVars PROVE Stages'
  OBVIOUS
<1> USE DEF Stages, Setup!Ends, Setup!Goto, Setup!At, Setup!IsSetup
<1>1. CASE Setup!StartSetup \/ Setup!StartOther
  BY <1>1, CommandStarted DEF Setup!Start, Names
<1>2. CASE Setup!device_inserted
  BY <1>2 DEF Setup!device_inserted
<1>3. CASE Setup!Mount
  BY <1>3 DEF Setup!Mount
<1>4. CASE Setup!wipe_encryption_key
  BY <1>4 DEF Setup!wipe_encryption_key
<1>5. CASE Setup!Unlink
  BY <1>5 DEF Setup!Unlink
<1>6. CASE Setup!create_key
  BY <1>6 DEF Setup!create_key
<1>7. CASE Setup!disable
  BY <1>7 DEF Setup!disable
<1>8. CASE Setup!enable \/ Setup!Finish \/ Setup!Interrupt \/ Setup!PowerOff
  BY <1>8 DEF Setup!enable, Setup!Finish, Setup!Interrupt, Setup!PowerOff
<1>9. CASE Setup!remove_wallet_dir \/ Setup!create_wallet_dir
  BY <1>9 DEF Setup!remove_wallet_dir, Setup!create_wallet_dir
<1>10. CASE Setup!WriteWallet \/ Setup!setup_non_mmgen_keys \/ Setup!Shred
  BY <1>10 DEF Setup!WriteWallet, Setup!setup_non_mmgen_keys, Setup!Shred
<1>11. CASE UNCHANGED Setup!cmdVars
  BY <1>11
<1>12. CASE Setup!LoopStart \/ Setup!LoopPoll \/ Setup!decrypt_wallets \/ Setup!init_non_mmgen_keys \/ Setup!LoopMount
              \/ Setup!LoopSign \/ Setup!LoopUmount
  BY <1>11, <1>12 DEF Setup!LoopStart, Setup!LoopPoll, Setup!decrypt_wallets, Setup!init_non_mmgen_keys,
     Setup!LoopMount, Setup!LoopSign, Setup!LoopUmount, Setup!WaitAt
<1>13. CASE Setup!Insert \/ Setup!Remove \/ Setup!UserUmount
  BY <1>11, <1>13 DEF Setup!Insert, Setup!Remove, Setup!UserUmount
<1> QED
  BY <1>1, <1>2, <1>3, <1>4, <1>5, <1>6, <1>7, <1>8, <1>9, <1>10, <1>11, <1>12, <1>13 DEF Setup!Next

(* Turning the swap space off forgets only that the user had turned it on. *)
LEMMA Disabling ==
    ASSUME SetupTyped, Setup!disable
    PROVE  /\ past' \in Past /\ past'.ready = past.ready /\ past'.wiped = past.wiped /\ past'.target = past.target
           /\ past'.intruded = past.intruded /\ past'.pulled = past.pulled /\ past'.mixed = past.mixed
           /\ swap' = "off" \/ (past'.enabled = past.enabled /\ swap' = swap /\ step' = "none")
           /\ UNCHANGED <<disk, view, plugged, mounted, ram, made, cache, loop>>
<1>1. past' = past \/ past' = [past EXCEPT !.enabled = FALSE]
  BY DEF Setup!disable
<1>2. /\ past' \in Past /\ past'.ready = past.ready /\ past'.wiped = past.wiped /\ past'.target = past.target
      /\ past'.intruded = past.intruded /\ past'.pulled = past.pulled /\ past'.mixed = past.mixed
  BY <1>1 DEF SetupTyped, Past
<1>3. swap' = "off" \/ (past' = past /\ swap' = swap /\ step' = "none")
  BY DEF Setup!disable, Setup!Ends
<1>4. UNCHANGED <<disk, view, plugged, mounted, ram, made, cache, loop>>
  BY DEF Setup!disable
<1> QED
  BY <1>2, <1>3, <1>4

LEMMA SetupTypedNext ==
    ASSUME SetupTyped, Setup!SetupAssumption, [Setup!Next]_Setup!setupVars PROVE SetupTyped'
<1> USE DEF SetupTyped, Past
<1>1. CASE Setup!StartSetup \/ Setup!StartOther
  <2>1. PICK name \in Names, first \in {"inserted", "mount", "enable", "disable"} : Setup!Start(name, first)
    BY <1>1, CommandStarted
  <2>2. UNCHANGED <<disk, view, plugged, mounted, ram, made>>
    BY <2>1 DEF Setup!Start
  <2>3. past' = [past EXCEPT !.intruded = FALSE, !.pulled = FALSE, !.target = 0, !.ready = FALSE, !.wiped = 0]
    BY <2>1 DEF Setup!Start, Setup!Undisturbed
  <2>4. past' \in Past
    BY <2>3
  <2> QED
    BY <2>2, <2>4
<1>2. CASE Setup!device_inserted
  BY <1>2 DEF Setup!device_inserted
<1>3. CASE Setup!Mount
  BY <1>3, Mounting DEF Setup!Mount
<1>4. CASE Setup!wipe_encryption_key
  BY <1>4, Places DEF Setup!wipe_encryption_key, Setup!Exists
<1>5. CASE Setup!Unlink
  BY <1>5 DEF Setup!Unlink
<1>6. CASE Setup!create_key
  BY <1>6 DEF Setup!create_key
<1>7. CASE Setup!disable
  BY <1>7, Disabling
<1>8. CASE Setup!enable
  <2>1. UNCHANGED <<disk, view, plugged, mounted, ram, made>>
    BY <1>8 DEF Setup!enable
  <2>2. PICK enabled \in BOOLEAN : past' = [past EXCEPT !.enabled = enabled]
    BY <1>8 DEF Setup!enable
  <2>3. past' \in Past
    BY <2>2
  <2> QED
    BY <2>1, <2>3
<1>9. CASE Setup!remove_wallet_dir \/ Setup!create_wallet_dir
  <2>1. UNCHANGED <<disk, view, plugged, mounted, made, past>>
    BY <1>9 DEF Setup!remove_wallet_dir, Setup!create_wallet_dir
  <2>2. \E dir \in BOOLEAN : ram' = [dir |-> dir, wallet |-> 0, keys |-> 0]
    BY <1>9 DEF Setup!remove_wallet_dir, Setup!create_wallet_dir, Setup!EmptyDir
  <2>3. ram' \in [dir : BOOLEAN, wallet : Int, keys : Int]
    BY <2>2
  <2> QED
    BY <2>1, <2>3
<1>10. CASE Setup!WriteWallet \/ Setup!setup_non_mmgen_keys \/ Setup!Shred
  <2>1. UNCHANGED <<disk, view, plugged, mounted, made, past>>
    BY <1>10 DEF Setup!WriteWallet, Setup!setup_non_mmgen_keys, Setup!Shred
  <2>2. ram' = ram \/ ram' = [ram EXCEPT !.wallet = view] \/ ram' = [ram EXCEPT !.keys = view]
    BY <1>10 DEF Setup!WriteWallet, Setup!setup_non_mmgen_keys, Setup!Shred
  <2>3. ram' \in [dir : BOOLEAN, wallet : Int, keys : Int]
    BY <2>2
  <2> QED
    BY <2>1, <2>3
<1>11. CASE Setup!Finish
  <2>1. disk' \in [Devices -> Int] /\ view' = 0 /\ mounted' = 0 /\ UNCHANGED <<plugged, ram, made>>
    BY <1>11, Unmounting DEF Setup!Finish
  <2>2. PICK ready \in BOOLEAN, wiped \in Devices \union {0, 99} : past' = [Setup!Undisturbed EXCEPT !.ready = ready, !.wiped = wiped]
    BY <1>11 DEF Setup!Finish
  <2>3. Setup!Undisturbed \in Past
    BY DEF Setup!Undisturbed
  <2>4. past' \in Past
    BY <2>2, <2>3
  <2> QED
    BY <2>1, <2>4
<1>12. CASE Setup!Interrupt
  BY <1>12 DEF Setup!Interrupt, Setup!Undisturbed
<1>13. CASE Setup!LoopStart \/ Setup!LoopPoll \/ Setup!decrypt_wallets \/ Setup!init_non_mmgen_keys
  BY <1>13 DEF Setup!LoopStart, Setup!LoopPoll, Setup!decrypt_wallets, Setup!init_non_mmgen_keys, Setup!WaitAt
<1>14. CASE Setup!LoopMount
  BY <1>14, Mounting DEF Setup!LoopMount, Setup!WaitAt
<1>15. CASE Setup!LoopSign
  <2>1. UNCHANGED <<disk, view, plugged, mounted, ram, made>>
    BY <1>15 DEF Setup!LoopSign, Setup!WaitAt
  <2>2. PICK mixed \in BOOLEAN : past' = [past EXCEPT !.mixed = mixed]
    BY <1>15 DEF Setup!LoopSign
  <2>3. past' \in Past
    BY <2>2
  <2> QED
    BY <2>1, <2>3
<1>16. CASE Setup!LoopUmount
  <2>1. disk' \in [Devices -> Int] /\ view' = 0 /\ mounted' = 0 /\ UNCHANGED <<plugged, ram, made>>
    BY <1>16, Unmounting DEF Setup!LoopUmount, Setup!WaitAt
  <2>2. PICK intruded \in BOOLEAN : past' = [past EXCEPT !.intruded = intruded]
    BY <1>16 DEF Setup!LoopUmount
  <2>3. past' \in Past
    BY <2>2
  <2> QED
    BY <2>1, <2>3
<1>17. CASE Setup!Insert
  BY <1>17 DEF Setup!Insert
<1>18. CASE Setup!Remove
  <2>1. disk' \in [Devices -> Int] /\ plugged' = 0 /\ mounted' \in {0, 99} /\ view' = 0 /\ UNCHANGED <<ram, made>>
    BY <1>18, Pulling DEF Setup!Remove
  <2>2. PICK ready, pulled \in BOOLEAN : past' = [past EXCEPT !.ready = ready, !.pulled = pulled]
    BY <1>18 DEF Setup!Remove
  <2>3. past' \in Past
    BY <2>2
  <2> QED
    BY <2>1, <2>3
<1>19. CASE Setup!UserUmount
  BY <1>19, Unmounting DEF Setup!UserUmount
<1>20. CASE Setup!PowerOff
  <2>1. disk' \in [Devices -> Int] /\ view' = 0 /\ mounted' = 0 /\ ram' = Setup!EmptyDir /\ UNCHANGED <<plugged, made>>
    BY <1>20, Pulling DEF Setup!PowerOff
  <2>2. past' \in Past
    BY <1>20 DEF Setup!PowerOff
  <2>3. ram' \in [dir : BOOLEAN, wallet : Int, keys : Int]
    BY <2>1 DEF Setup!EmptyDir
  <2> QED
    BY <2>1, <2>2, <2>3
<1>21. CASE UNCHANGED Setup!setupVars
  BY <1>21
<1> QED
  BY <1>1, <1>2, <1>3, <1>4, <1>5, <1>6, <1>7, <1>8, <1>9, <1>10, <1>11, <1>12, <1>13, <1>14, <1>15, <1>16, <1>17,
     <1>18, <1>19, <1>20, <1>21 DEF Setup!Next

LEMMA Undisturbing ==
    ASSUME SetupTyped
    PROVE  LET u == Setup!Undisturbed
           IN /\ u \in Past /\ u.ready = past.ready /\ u.enabled = past.enabled /\ u.wiped = past.wiped
              /\ ~u.intruded /\ ~u.pulled
              /\ Setup!Finish => /\ past'.enabled = past.enabled
                                 /\ past'.ready = (Setup!IsSetup /\ ~past.pulled)
                                 /\ past'.wiped = IF cmd = "wipe_key" /\ ~past.intruded THEN past.target ELSE 0
<1>1. past \in Past
  BY DEF SetupTyped
<1>2. /\ Setup!Undisturbed \in Past /\ Setup!Undisturbed.ready = past.ready
      /\ Setup!Undisturbed.enabled = past.enabled /\ Setup!Undisturbed.wiped = past.wiped
      /\ ~Setup!Undisturbed.intruded /\ ~Setup!Undisturbed.pulled
  BY <1>1 DEF Setup!Undisturbed, Past
<1>3. ASSUME Setup!Finish
      PROVE  /\ past'.enabled = past.enabled
             /\ past'.ready = (Setup!IsSetup /\ ~past.pulled)
             /\ past'.wiped = IF cmd = "wipe_key" /\ ~past.intruded THEN past.target ELSE 0
  BY <1>2, <1>3 DEF Setup!Finish, Past
<1> QED
  BY <1>2, <1>3

(* While there is a wallet in memory, and from the time the swap space has *)
(* been turned off for it, it is on only if the user has turned it on.     *)
SwapInv ==
    (ram.wallet # 0 \/ step \in {"rmdir", "mkdir", "wallet", "keys", "shred"}) /\ swap = "on" => past.enabled

LEMMA SwapInvNext ==
    ASSUME SetupTyped, SetupTyped', SwapInv, [Setup!Next]_Setup!setupVars PROVE SwapInv'
<1> USE DEF SwapInv, Setup!Ends, Setup!Goto, Setup!At
<1>1. CASE Setup!StartSetup \/ Setup!StartOther
  <2>1. PICK name \in Names, first \in {"inserted", "mount", "enable", "disable"} : Setup!Start(name, first)
    BY <1>1, CommandStarted
  <2>2. past'.enabled = past.enabled /\ UNCHANGED <<swap, ram>> /\ step' = first
    BY <2>1 DEF Setup!Start, Setup!Undisturbed, SetupTyped, Past
  <2> QED
    BY <2>2
<1>2. CASE Setup!device_inserted \/ Setup!wipe_encryption_key \/ Setup!Unlink \/ Setup!create_key
  BY <1>2 DEF Setup!device_inserted, Setup!wipe_encryption_key, Setup!Unlink, Setup!create_key
<1>3. CASE Setup!Mount
  <2>1. past'.enabled = past.enabled
    BY <1>3 DEF Setup!Mount, SetupTyped, Past
  <2> QED
    BY <1>3, <2>1 DEF Setup!Mount
<1>4. CASE Setup!disable
  BY <1>4, Disabling
<1>5. CASE Setup!enable
  <2>1. past'.enabled = (past.enabled \/ swap' = "on")
    BY <1>5 DEF Setup!enable, SetupTyped, Past
  <2> QED
    BY <1>5, <2>1 DEF Setup!enable
<1>6. CASE Setup!remove_wallet_dir \/ Setup!create_wallet_dir
  BY <1>6 DEF Setup!remove_wallet_dir, Setup!create_wallet_dir, Setup!EmptyDir
<1>7. CASE Setup!WriteWallet \/ Setup!setup_non_mmgen_keys \/ Setup!Shred
  <2>1. UNCHANGED <<swap, past>> /\ step \in {"wallet", "keys", "shred"}
    BY <1>7 DEF Setup!WriteWallet, Setup!setup_non_mmgen_keys, Setup!Shred
  <2> QED
    BY <2>1
<1>8. CASE Setup!Finish \/ Setup!Interrupt
  <2>1. past'.enabled = past.enabled
    BY <1>8, Undisturbing DEF Setup!Interrupt
  <2>2. UNCHANGED <<swap, ram>> /\ step' = "none"
    BY <1>8 DEF Setup!Finish, Setup!Interrupt
  <2> QED
    BY <2>1, <2>2
<1>9. ASSUME UNCHANGED <<swap, ram, step>>, past'.enabled = past.enabled PROVE SwapInv'
  BY <1>9
<1>10. CASE Setup!LoopStart \/ Setup!LoopPoll \/ Setup!decrypt_wallets \/ Setup!init_non_mmgen_keys \/ Setup!LoopMount
  BY <1>9, <1>10 DEF Setup!LoopStart, Setup!LoopPoll, Setup!decrypt_wallets, Setup!init_non_mmgen_keys, Setup!LoopMount, Setup!WaitAt
<1>11. CASE Setup!LoopSign \/ Setup!LoopUmount
  BY <1>9, <1>11 DEF Setup!LoopSign, Setup!LoopUmount, Setup!WaitAt, SetupTyped, Past
<1>12. CASE Setup!Insert \/ Setup!Remove \/ Setup!UserUmount
  BY <1>9, <1>12 DEF Setup!Insert, Setup!Remove, Setup!UserUmount, SetupTyped, Past
<1>13. CASE Setup!PowerOff
  BY <1>13 DEF Setup!PowerOff, Setup!EmptyDir
<1>14. CASE UNCHANGED Setup!setupVars
  BY <1>9, <1>14
<1> QED
  BY <1>1, <1>2, <1>3, <1>4, <1>5, <1>6, <1>7, <1>8, <1>10, <1>11, <1>12, <1>13, <1>14 DEF Setup!Next

----------------------------------------------------------------------------
(* With a single device D, what it is known to contain survives its being  *)
(* mounted and unmounted by either program.                                *)
OnDevice(D) == IF mounted = 0 THEN disk[D] ELSE view

NotAKey(c) == c \notin 1 .. MaxKeys

Clean(D) == NotAKey(disk[D]) /\ (mounted = D => NotAKey(view))

LEMMA ContentKept ==
    ASSUME NEW D, Devices = {D}, SetupTyped, Setup!SetupAssumption
    PROVE  /\ Setup!CanMount /\ Setup!do_mount =>
                /\ mounted' = D /\ mounted # 99 /\ UNCHANGED <<disk, plugged>>
                /\ OnDevice(D)' = OnDevice(D) /\ (mounted = D => view' = view) /\ (mounted = 0 => view' = disk[D])
                /\ Clean(D) => Clean(D)'
           /\ Setup!do_umount => 
                /\ mounted' = 0 /\ mounted' # 99 /\ (mounted # 99 => OnDevice(D)' = OnDevice(D))
                /\ disk'[D] = (IF mounted = D THEN view ELSE disk[D])
                /\ Clean(D) => Clean(D)'
           /\ Setup!Pulled /\ mounted' \in {0, 99} =>
                /\ mounted = 0 => disk'[D] = disk[D]
                /\ Clean(D) => Clean(D)'
<1>1. D \in Nat \ {0, 99} /\ disk \in [{D} -> Int] /\ mounted \in {0, 99, D} /\ plugged \in {0, D}
  BY DEF SetupTyped, Setup!SetupAssumption
<1>2. Setup!Accessible <=> mounted = D
  BY <1>1 DEF Setup!Accessible
<1>3. ASSUME Setup!CanMount, Setup!do_mount
      PROVE  /\ mounted' = D /\ mounted # 99 /\ UNCHANGED <<disk, plugged>>
             /\ OnDevice(D)' = OnDevice(D) /\ (mounted = D => view' = view) /\ (mounted = 0 => view' = disk[D])
             /\ Clean(D) => Clean(D)'
  BY <1>1, <1>3 DEF Setup!CanMount, Setup!do_mount, OnDevice, Clean
<1>4. ASSUME Setup!do_umount
      PROVE  /\ mounted' = 0 /\ mounted' # 99 /\ (mounted # 99 => OnDevice(D)' = OnDevice(D))
             /\ disk'[D] = (IF mounted = D THEN view ELSE disk[D])
             /\ Clean(D) => Clean(D)'
  BY <1>1, <1>2, <1>4 DEF Setup!do_umount, OnDevice, Clean
<1>5. ASSUME Setup!Pulled, mounted' \in {0, 99}
      PROVE  (mounted = 0 => disk'[D] = disk[D]) /\ (Clean(D) => Clean(D)')
  <2>1. CASE mounted # D
    BY <1>1, <1>2, <1>5, <2>1 DEF Setup!Pulled, Clean
  <2>2. CASE mounted = D
    <3>1. disk'[D] \in {disk[D], view, Setup!Junk}
      BY <1>1, <1>2, <1>5, <2>2 DEF Setup!Pulled
    <3>2. NotAKey(Setup!Junk)
      BY Places DEF NotAKey
    <3> QED
      BY <1>1, <1>5, <2>2, <3>1, <3>2 DEF Clean
  <2> QED
    BY <2>1, <2>2
<1> QED
  BY <1>3, <1>4, <1>5

(* From the wallet's being written to the end of a setup in which the      *)
(* device was not pulled out, and after it, the device has the wallet's    *)
(* key.                                                                    *)
ReadyInv(D) ==
    /\ past.ready => /\ cmd = "none" /\ mounted # 99 /\ OnDevice(D) = ram.wallet
                     /\ ram.wallet # 0 /\ ram.keys \in {0, ram.wallet}
    /\ cmd # "none" => ~past.ready
    /\ Setup!IsSetup =>
        /\ step \in {"wallet", "keys"} => ram.keys = 0
        /\ step \in {"keys", "shred", "umount"} => ram.wallet # 0
        /\ ~past.pulled =>
            /\ step \notin {"inserted", "mount"} => mounted # 99
            /\ step \in {"keys", "shred", "umount"} => OnDevice(D) = ram.wallet
            /\ step \in {"shred", "umount"} => ram.keys \in {0, ram.wallet}

LEMMA ReadyInvNext ==
    ASSUME NEW D, Devices = {D}, Setup!SetupAssumption, SetupTyped, Stages, ReadyInv(D), [Setup!Next]_Setup!setupVars
    PROVE  ReadyInv(D)'
<1> USE DEF ReadyInv, Setup!Ends, Setup!Goto, Setup!At, Setup!IsSetup
<1>0. D \in Nat \ {0, 99} /\ mounted \in {0, 99, D} /\ (Setup!Accessible <=> mounted = D)
  BY Places DEF SetupTyped, Setup!SetupAssumption
<1>1. CASE Setup!StartSetup \/ Setup!StartOther
  <2>1. PICK name \in Names, first \in {"inserted", "mount", "enable", "disable"} :
            Setup!Start(name, first) /\ (name \in {"setup", "setup -k"} => first = "inserted") /\ (name = "wipe_key" => first = "mount")
    BY <1>1, CommandStarted
  <2>2. /\ ~past'.ready /\ ~past'.pulled /\ cmd' = name /\ step' = first
        /\ UNCHANGED <<disk, view, plugged, mounted, ram>>
    BY <2>1 DEF Setup!Start, Setup!Undisturbed, SetupTyped, Past
  <2> QED
    BY <2>1, <2>2 DEF Names
<1>2. CASE Setup!device_inserted
  BY <1>2 DEF Setup!device_inserted, Stages, OnDevice
<1>3. CASE Setup!Mount
  <2>1. past'.ready = past.ready /\ past'.pulled = past.pulled /\ step = "mount" /\ cmd # "none" /\ UNCHANGED ram
    BY <1>3 DEF Setup!Mount, SetupTyped, Past, Stages
  <2>2. CASE Setup!CanMount
    BY <1>0, <1>3, <2>1, <2>2, ContentKept DEF Setup!Mount
  <2>3. CASE ~Setup!CanMount
    BY <1>3, <2>1, <2>3 DEF Setup!Mount
  <2> QED
    BY <2>2, <2>3
<1>4. CASE Setup!wipe_encryption_key
  BY <1>0, <1>4 DEF Setup!wipe_encryption_key, Setup!Exists, Stages
<1>5. CASE Setup!Unlink
  BY <1>0, <1>5 DEF Setup!Unlink, Stages
<1>6. CASE Setup!create_key
  BY <1>0, <1>6 DEF Setup!create_key, Stages
<1>7. CASE Setup!disable \/ Setup!enable
  <2>1. past'.ready = past.ready /\ past'.pulled = past.pulled /\ cmd # "none" /\ UNCHANGED <<disk, view, mounted, ram>>
    BY <1>7, Disabling DEF Setup!disable, Setup!enable, SetupTyped, Past, Stages
  <2> QED
    BY <1>7, <2>1 DEF Setup!disable, Setup!enable
<1>8. CASE Setup!remove_wallet_dir \/ Setup!create_wallet_dir
  BY <1>8 DEF Setup!remove_wallet_dir, Setup!create_wallet_dir, Setup!EmptyDir, Stages
<1>9. CASE Setup!WriteWallet
  <2>1. step = "wallet" /\ cmd # "none" /\ UNCHANGED <<disk, view, mounted, past>>
    BY <1>9 DEF Setup!WriteWallet, Stages
  <2>2. CASE Setup!Exists
    <3>1. /\ mounted = D /\ view # 0 /\ ram'.wallet = view /\ ram'.keys = ram.keys /\ step' \in {"keys", "umount"} /\ cmd' = cmd
      BY <1>0, <1>9, <2>2 DEF Setup!WriteWallet, Setup!Exists, SetupTyped
    <3> QED
      BY <1>0, <2>1, <3>1 DEF OnDevice
  <2>3. CASE ~Setup!Exists
    BY <1>9, <2>1, <2>3 DEF Setup!WriteWallet
  <2> QED
    BY <2>2, <2>3
<1>10. CASE Setup!setup_non_mmgen_keys
  <2>1. step = "keys" /\ cmd # "none" /\ Setup!IsSetup /\ UNCHANGED <<disk, view, mounted, past>>
    BY <1>10 DEF Setup!setup_non_mmgen_keys, Stages
  <2>2. CASE orig /\ Setup!Exists
    <3>1. /\ mounted = D /\ ram'.wallet = ram.wallet /\ ram'.keys = view /\ step' = "shred" /\ cmd' = cmd
      BY <1>0, <1>10, <2>2 DEF Setup!setup_non_mmgen_keys, Setup!Exists, SetupTyped
    <3> QED
      BY <1>0, <2>1, <3>1 DEF OnDevice
  <2>3. CASE ~(orig /\ Setup!Exists)
    BY <1>10, <2>1, <2>3 DEF Setup!setup_non_mmgen_keys
  <2> QED
    BY <2>2, <2>3
<1>11. CASE Setup!Shred
  BY <1>11 DEF Setup!Shred, OnDevice
<1>12. CASE Setup!Finish
  <2>1. /\ past'.ready = (Setup!IsSetup /\ ~past.pulled) /\ cmd' = "none" /\ step' = "none"
        /\ step = "umount" /\ Setup!do_umount /\ UNCHANGED ram
    BY <1>12, Undisturbing DEF Setup!Finish
  <2>2. mounted' # 99 /\ (mounted # 99 => OnDevice(D)' = OnDevice(D))
    BY <2>1, ContentKept
  <2>3. CASE Setup!IsSetup /\ ~past.pulled
    <3>1. mounted # 99 /\ OnDevice(D) = ram.wallet /\ ram.wallet # 0 /\ ram.keys \in {0, ram.wallet}
      BY <2>1, <2>3
    <3>2. mounted' # 99 /\ OnDevice(D)' = ram'.wallet /\ ram'.wallet # 0 /\ ram'.keys \in {0, ram'.wallet}
      BY <2>1, <2>2, <3>1
    <3>3. cmd' = "none"
      BY <2>1
    <3> HIDE <2>1, <2>2
    <3> QED
      BY <3>2, <3>3
  <2>4. CASE ~(Setup!IsSetup /\ ~past.pulled)
    <3>1. ~past'.ready
      BY <2>1, <2>4
    <3> QED
      BY <2>1, <3>1
  <2> QED
    BY <2>3, <2>4
<1>13. CASE Setup!Interrupt
  <2>1. past'.ready = past.ready /\ ~past.ready /\ cmd' = "none"
    BY <1>13, Undisturbing DEF Setup!Interrupt
  <2> QED
    BY <2>1
<1>14. ASSUME UNCHANGED <<disk, view, mounted, ram, cmd, step, past>> PROVE ReadyInv(D)'
  BY <1>14 DEF OnDevice
<1>15. CASE Setup!LoopStart \/ Setup!LoopPoll \/ Setup!decrypt_wallets \/ Setup!init_non_mmgen_keys \/ Setup!Insert
  BY <1>14, <1>15 DEF Setup!LoopStart, Setup!LoopPoll, Setup!decrypt_wallets, Setup!init_non_mmgen_keys, Setup!WaitAt, Setup!Insert
<1>16. CASE Setup!LoopMount
  <2>1. UNCHANGED <<ram, cmd, step, past>>
    BY <1>16 DEF Setup!LoopMount, Setup!WaitAt
  <2>2. CASE Setup!CanMount
    BY <1>0, <1>16, <2>1, <2>2, ContentKept DEF Setup!LoopMount
  <2>3. CASE ~Setup!CanMount
    BY <1>14, <1>16, <2>1, <2>3 DEF Setup!LoopMount
  <2> QED
    BY <2>2, <2>3
<1>17. CASE Setup!LoopSign
  <2>1. past'.ready = past.ready /\ past'.pulled = past.pulled /\ UNCHANGED <<disk, view, mounted, ram, cmd, step>>
    BY <1>17 DEF Setup!LoopSign, Setup!WaitAt, SetupTyped, Past
  <2> QED
    BY <2>1 DEF OnDevice
<1>18. CASE Setup!LoopUmount \/ Setup!UserUmount
  <2>1. past'.ready = past.ready /\ past'.pulled = past.pulled /\ Setup!do_umount /\ UNCHANGED <<ram, cmd, step>>
    BY <1>18 DEF Setup!LoopUmount, Setup!UserUmount, Setup!WaitAt, SetupTyped, Past
  <2>2. mounted' # 99 /\ (mounted # 99 => OnDevice(D)' = OnDevice(D))
    BY <2>1, ContentKept
  <2>3. CASE mounted # 99
    <3>1. mounted' # 99 /\ OnDevice(D)' = OnDevice(D) /\ UNCHANGED <<ram, cmd, step>>
      BY <2>1, <2>2, <2>3
    <3> QED
      BY <2>1, <3>1
  <2>4. CASE mounted = 99
    <3>1. ~past'.ready /\ (Setup!IsSetup' /\ ~past'.pulled => step' \in {"inserted", "mount"})
      BY <2>1, <2>4
    <3> QED
      BY <2>1, <2>2, <3>1
  <2> QED
    BY <2>3, <2>4
<1>19. CASE Setup!Remove
  <2>1. /\ past'.ready = (past.ready /\ mounted = 0) /\ past'.pulled = (past.pulled \/ (mounted # 0 /\ Setup!IsSetup))
        /\ Setup!Pulled /\ mounted' = (IF mounted = 0 THEN 0 ELSE 99) /\ UNCHANGED <<ram, cmd, step>>
    BY <1>19 DEF Setup!Remove, SetupTyped, Past
  <2>2. CASE mounted = 0
    BY <2>1, <2>2, ContentKept DEF OnDevice
  <2>3. CASE mounted # 0
    BY <2>1, <2>3 DEF Stages
  <2> QED
    BY <2>2, <2>3
<1>20. CASE Setup!PowerOff
  BY <1>20 DEF Setup!PowerOff, SetupTyped, Past
<1>21. CASE UNCHANGED Setup!setupVars
  BY <1>14, <1>21
<1> QED
  BY <1>1, <1>2, <1>3, <1>4, <1>5, <1>6, <1>7, <1>8, <1>9, <1>10, <1>11, <1>12, <1>13, <1>15, <1>16, <1>17,
     <1>18, <1>19, <1>20, <1>21 DEF Setup!Next

(* Nothing but wiping, unlinking and making a key changes what the device  *)
(* contains, and a file that has been unlinked had been wiped.             *)
WipedInv(D) ==
    /\ mounted = D /\ view = 0 => NotAKey(disk[D])
    /\ step = "unlink" => Clean(D)
    /\ cmd = "wipe_key" =>
        /\ step \in {"mount", "wipe", "unlink", "umount"}
        /\ step \in {"wipe", "unlink", "umount"} => past.target \in {0, D} /\ (~past.intruded => mounted # 0 /\ past.target = D)
        /\ step = "umount" /\ ~past.intruded => Clean(D)
    /\ past.wiped # 0 => cmd = "none" /\ past.wiped = D /\ Clean(D)

LEMMA WipedInvNext ==
    ASSUME NEW D, Devices = {D}, Setup!SetupAssumption, SetupTyped, Stages, WipedInv(D), [Setup!Next]_Setup!setupVars
    PROVE  WipedInv(D)'
<1> USE DEF WipedInv, Setup!Ends, Setup!Goto, Setup!At
<1>0. /\ D \in Nat \ {0, 99} /\ mounted \in {0, 99, D} /\ (Setup!Accessible <=> mounted = D) /\ disk \in [{D} -> Int]
      /\ NotAKey(Setup!Junk) /\ Setup!Junk # 0 /\ NotAKey(0)
  BY Places DEF SetupTyped, Setup!SetupAssumption, NotAKey
<1>1. CASE Setup!StartSetup \/ Setup!StartOther
  <2>1. PICK name \in Names, first \in {"inserted", "mount", "enable", "disable"} :
            Setup!Start(name, first) /\ (name = "wipe_key" => first = "mount")
    BY <1>1, CommandStarted
  <2>2. past'.wiped = 0 /\ cmd' = name /\ step' = first /\ UNCHANGED <<disk, view, plugged, mounted>>
    BY <2>1 DEF Setup!Start, Setup!Undisturbed, SetupTyped, Past
  <2> QED
    BY <2>1, <2>2 DEF Clean
<1>2. CASE Setup!device_inserted
  BY <1>2 DEF Setup!device_inserted, Stages, Clean
<1>3. CASE Setup!Mount
  <2>1. /\ past'.wiped = past.wiped /\ past'.intruded = past.intruded /\ past'.target = mounted'
        /\ step = "mount" /\ cmd # "none"
    BY <1>3 DEF Setup!Mount, SetupTyped, Past, Stages
  <2>2. CASE Setup!CanMount
    BY <1>0, <1>3, <2>1, <2>2, ContentKept DEF Setup!Mount
  <2>3. CASE ~Setup!CanMount
    BY <1>3, <2>1, <2>3 DEF Setup!Mount
  <2> QED
    BY <2>2, <2>3
<1>4. CASE Setup!wipe_encryption_key
  <2>1. step = "wipe" /\ cmd # "none" /\ UNCHANGED <<plugged, mounted, past>>
    BY <1>4 DEF Setup!wipe_encryption_key, Stages
  <2>2. CASE mounted = 99
    BY <1>4, <2>1, <2>2 DEF Setup!wipe_encryption_key, Clean
  <2>3. CASE mounted # 99 /\ Setup!Exists
    <3>1. mounted = D /\ disk'[D] = Setup!Junk /\ view' = Setup!Junk /\ step' = "unlink" /\ cmd' = cmd
      BY <1>0, <1>4, <2>3 DEF Setup!wipe_encryption_key, Setup!Exists
    <3> QED
      BY <1>0, <2>1, <3>1 DEF Clean
  <2>4. CASE mounted # 99 /\ ~Setup!Exists
    <3>1. /\ step' = (IF cmd = "wipe_key" THEN "umount" ELSE "create") /\ cmd' = cmd /\ UNCHANGED <<disk, view>>
          /\ mounted = 0 \/ (mounted = D /\ view = 0)
      BY <1>0, <1>4, <2>4 DEF Setup!wipe_encryption_key, Setup!Exists
    <3> QED
      BY <1>0, <2>1, <3>1 DEF Clean
  <2> QED
    BY <2>2, <2>3, <2>4
<1>5. CASE Setup!Unlink
  BY <1>0, <1>5 DEF Setup!Unlink, Stages, Clean
<1>6. CASE Setup!create_key
  <2>1. step = "create" /\ cmd # "none" /\ cmd # "wipe_key" /\ UNCHANGED <<disk, mounted, past>>
    BY <1>6 DEF Setup!create_key, Stages
  <2>2. step' # "unlink" /\ cmd' # "wipe_key" /\ (view' = view \/ view' # 0)
    BY <1>6, <2>1 DEF Setup!create_key, SetupTyped
  <2> QED
    BY <2>1, <2>2
<1>7. ASSUME UNCHANGED <<disk, view, mounted>>, step # "none", step' # "unlink", cmd' \in {cmd, "none"},
             past'.wiped = past.wiped, step \notin {"mount", "wipe", "unlink", "umount"}
      PROVE  WipedInv(D)'
  BY <1>7 DEF Stages, Clean
<1>8. CASE Setup!disable \/ Setup!remove_wallet_dir \/ Setup!create_wallet_dir \/ Setup!WriteWallet
           \/ Setup!setup_non_mmgen_keys \/ Setup!Shred
  BY <1>7, <1>8, Disabling DEF Setup!disable, Setup!IsSetup, Setup!remove_wallet_dir, Setup!create_wallet_dir, Setup!WriteWallet,
     Setup!setup_non_mmgen_keys, Setup!Shred
<1>9. CASE Setup!enable
  <2>1. past'.wiped = past.wiped /\ cmd # "none" /\ cmd' = "none" /\ step' = "none" /\ UNCHANGED <<disk, view, mounted>>
    BY <1>9 DEF Setup!enable, SetupTyped, Past, Stages
  <2> QED
    BY <2>1 DEF Clean
<1>10. CASE Setup!Finish
  <2>1. /\ past'.wiped = (IF cmd = "wipe_key" /\ ~past.intruded THEN past.target ELSE 0)
        /\ step = "umount" /\ cmd' = "none" /\ step' = "none" /\ Setup!do_umount
    BY <1>10, Undisturbing DEF Setup!Finish
  <2>2. mounted' = 0 /\ (Clean(D) => Clean(D)')
    BY <2>1, ContentKept
  <2>3. mounted' # D
    BY <1>0, <2>2
  <2> QED
    BY <2>1, <2>2, <2>3
<1>11. CASE Setup!Interrupt
  <2>1. past'.wiped = past.wiped /\ cmd' = "none" /\ step' = "none" /\ cmd # "none" /\ UNCHANGED <<disk, view, mounted>>
    BY <1>11, Undisturbing DEF Setup!Interrupt
  <2> QED
    BY <2>1 DEF Clean
<1>12. ASSUME UNCHANGED <<disk, view, mounted, cmd, step>>, past'.wiped = past.wiped, past'.intruded = past.intruded,
              past'.target = past.target
       PROVE  WipedInv(D)'
  BY <1>12 DEF Clean
<1>13. CASE Setup!LoopStart \/ Setup!LoopPoll \/ Setup!decrypt_wallets \/ Setup!init_non_mmgen_keys \/ Setup!Insert
  BY <1>12, <1>13 DEF Setup!LoopStart, Setup!LoopPoll, Setup!decrypt_wallets, Setup!init_non_mmgen_keys, Setup!WaitAt, Setup!Insert
<1>14. CASE Setup!LoopMount
  <2>1. UNCHANGED <<cmd, step, past>>
    BY <1>14 DEF Setup!LoopMount, Setup!WaitAt
  <2>2. CASE Setup!CanMount
    <3>1. /\ mounted' = D /\ mounted # 99 /\ disk' = disk /\ (Clean(D) => Clean(D)')
          /\ (mounted = D => view' = view) /\ (mounted = 0 => view' = disk[D])
      BY <1>14, <2>2, ContentKept DEF Setup!LoopMount
    <3>2. view' = 0 => NotAKey(disk'[D])
      BY <1>0, <3>1
    <3>3. mounted' # 0
      BY <1>0, <3>1
    <3> QED
      BY <2>1, <3>1, <3>2, <3>3
  <2>3. CASE ~Setup!CanMount
    BY <1>12, <1>14, <2>1, <2>3 DEF Setup!LoopMount
  <2> QED
    BY <2>2, <2>3
<1>15. CASE Setup!LoopSign
  <2>1. /\ past'.wiped = past.wiped /\ past'.intruded = past.intruded /\ past'.target = past.target
        /\ UNCHANGED <<disk, view, mounted, cmd, step>>
    BY <1>15 DEF Setup!LoopSign, Setup!WaitAt, SetupTyped, Past
  <2> QED
    BY <1>12, <2>1
<1>16. CASE Setup!LoopUmount \/ Setup!UserUmount
  <2>1. /\ past'.wiped = past.wiped /\ (cmd = "wipe_key" => past'.intruded) /\ past'.target = past.target
        /\ UNCHANGED <<cmd, step>> /\ Setup!do_umount
    BY <1>16 DEF Setup!LoopUmount, Setup!UserUmount, Setup!WaitAt, SetupTyped, Past
  <2>2. mounted' = 0 /\ (Clean(D) => Clean(D)')
    BY <2>1, ContentKept
  <2>3. mounted' # D
    BY <1>0, <2>2
  <2> QED
    BY <2>1, <2>2, <2>3
<1>17. CASE Setup!Remove
  <2>1. /\ past'.wiped = past.wiped /\ past'.intruded = past.intruded /\ past'.target = past.target
        /\ UNCHANGED <<cmd, step>> /\ Setup!Pulled /\ mounted' = IF mounted = 0 THEN 0 ELSE 99
    BY <1>17 DEF Setup!Remove, SetupTyped, Past
  <2>2. mounted' # D /\ (mounted # 0 => mounted' # 0) /\ mounted' \in {0, 99}
    BY <1>0, <2>1
  <2>3. Clean(D) => Clean(D)'
    BY <2>1, <2>2, ContentKept
  <2> QED
    BY <2>1, <2>2, <2>3
<1>18. CASE Setup!PowerOff
  <2>1. past'.wiped = past.wiped /\ cmd' = "none" /\ step' = "none" /\ Setup!Pulled /\ mounted' = 0
    BY <1>18 DEF Setup!PowerOff, SetupTyped, Past
  <2>2. mounted' # D /\ (Clean(D) => Clean(D)')
    BY <1>0, <2>1, ContentKept
  <2> QED
    BY <2>1, <2>2
<1>19. CASE UNCHANGED Setup!setupVars
  BY <1>12, <1>19
<1> QED
  BY <1>1, <1>2, <1>3, <1>4, <1>5, <1>6, <1>8, <1>9, <1>10, <1>11, <1>13, <1>14, <1>15, <1>16, <1>17,
     <1>18, <1>19 DEF Setup!Next

----------------------------------------------------------------------------
LEMMA SetupInit == Setup!Init => SetupTyped /\ Stages /\ SwapInv
<1> SUFFICES ASSUME Setup!Init PROVE SetupTyped /\ Stages /\ SwapInv
  OBVIOUS
<1>1. /\ ram = [dir |-> FALSE, wallet |-> 0, keys |-> 0]
      /\ past = [ready |-> FALSE, target |-> 0, wiped |-> 0, intruded |-> FALSE, pulled |-> FALSE, enabled |-> FALSE, mixed |-> FALSE]
      /\ disk = [d \in Devices |-> 0] /\ view = 0 /\ plugged = 0 /\ mounted = 0 /\ made = 0
  BY DEF Setup!Init, Setup!EmptyDir
<1>2. past \in Past
  BY <1>1 DEF Past
<1>3. SetupTyped
  BY <1>1, <1>2 DEF SetupTyped
<1>4. Stages /\ SwapInv
  BY <1>1 DEF Setup!Init, Stages, SwapInv
<1> QED
  BY <1>3, <1>4

(* No part of a wallet in the memory of the signing machine is ever        *)
(* swapped out, unless the user turned the swap space on, whatever fails   *)
(* or is interrupted, for any number of devices.                           *)
THEOREM NothingSwapped == ASSUME Setup!SetupAssumption PROVE Setup!Spec => []Setup!NeverSwapped
<1>1. SwapInv => Setup!NeverSwapped
  BY DEF SwapInv, Setup!NeverSwapped
<1>2. SetupTyped /\ Stages /\ SwapInv /\ [Setup!Next]_Setup!setupVars => (SetupTyped /\ Stages /\ SwapInv)'
  BY SetupTypedNext, StagesNext, SwapInvNext
<1> QED
  BY <1>1, <1>2, SetupInit, PTL DEF Setup!Spec

(* With one device, what `setup' has called ready is ready: wallet and key *)
(* list are encrypted with the key on the device, even when the wait loop  *)
(* of another terminal unmounts and mounts it in between.                  *)
THEOREM ReadyIsReady ==
    ASSUME NEW D, Devices = {D}, Setup!SetupAssumption PROVE Setup!Spec => []Setup!SetupIsReady
<1>1. Setup!Init => ReadyInv(D)
  BY DEF Setup!Init, ReadyInv, Setup!IsSetup
<1>2. ReadyInv(D) => Setup!SetupIsReady
  BY DEF ReadyInv, OnDevice, Setup!SetupIsReady
<1>3. /\ SetupTyped /\ Stages /\ ReadyInv(D) /\ [Setup!Next]_Setup!setupVars
      => (SetupTyped /\ Stages /\ ReadyInv(D))'
  BY SetupTypedNext, StagesNext, ReadyInvNext
<1> QED
  BY <1>1, <1>2, <1>3, SetupInit, PTL DEF Setup!Spec

(* With one device, no key is left on the device that wipe_key was given,  *)
(* even if the device was pulled out meanwhile, unless the wait loop of    *)
(* another terminal unmounted it.                                          *)
THEOREM WipedForGood ==
    ASSUME NEW D, Devices = {D}, Setup!SetupAssumption PROVE Setup!Spec => []Setup!WipedIsGone
<1>1. Setup!Init => WipedInv(D)
  BY DEF Setup!Init, WipedInv, NotAKey
<1>2. WipedInv(D) => Setup!WipedIsGone
  BY DEF WipedInv, Clean, NotAKey, Setup!WipedIsGone
<1>3. /\ SetupTyped /\ Stages /\ WipedInv(D) /\ [Setup!Next]_Setup!setupVars
      => (SetupTyped /\ Stages /\ WipedInv(D))'
  BY SetupTypedNext, StagesNext, WipedInvNext
<1> QED
  BY <1>1, <1>2, <1>3, SetupInit, PTL DEF Setup!Spec

----------------------------------------------------------------------------
USE DEF Setup!Unread

(* With one device the loop signs with one setup's files.  What a key file *)
(* can hold: nothing, a key made so far, or what overwriting has left.     *)
Marked(k) == k \in Int /\ ((0 <= k /\ k <= made) \/ (MaxKeys < k /\ k <= MaxKeys + 1 + made))
Earlier(k) == k \in Int /\ ((0 < k /\ k <= made) \/ (MaxKeys < k /\ k <= MaxKeys + made))

CacheTyped == cache \in [files : Int, keylist : Int, prev : BOOLEAN]

MarksInv(D) == made <= MaxKeys /\ Marked(disk[D]) /\ Marked(view) /\ Marked(ram.wallet) /\ Marked(ram.keys)

(* How the key on the device, the mounted view of it and the keys of the   *)
(* files in memory are related at each step of the first terminal.         *)
DeviceInv(D) ==
    /\ mounted = D => view \in {0, disk[D], made}
    /\ step = "unlink" => disk[D] = Setup!Junk /\ (mounted = D => view = Setup!Junk)
    /\ step = "create" /\ mounted = D /\ view # 0 => view = disk[D]
    /\ Setup!IsSetup /\ step \in {"disable", "rmdir"} => ram.keys # made
    /\ step \in {"mkdir", "wallet", "keys"} => ram.keys = 0
    /\ step = "keys" /\ mounted = D /\ view # ram.wallet => disk[D] # ram.wallet
    /\ ram.keys \notin {0, ram.wallet} /\ mounted = D /\ view = ram.keys => disk[D] # ram.wallet

(* A key may be the only one that the device can still show; it may be     *)
(* gone; or it is on the device but not in memory, and can come back only  *)
(* for a loop that will fail to decrypt with it.                           *)
Lone(D, k) == k = Setup!Junk /\ disk[D] \in {0, k} /\ (mounted = D => view \in {0, k})
Gone(D, k) == disk[D] # k /\ (mounted = D => view # k)
Shadow(D, k) ==
    /\ disk[D] = k /\ ram.wallet # k /\ loop # "keys" /\ (mounted = D => view # 0)
    /\ step = "create" /\ mounted = D => loop = "decrypt"
    /\ Setup!IsSetup /\ step \in {"disable", "rmdir", "mkdir", "wallet"} =>
           loop = "decrypt" /\ (mounted = 99 \/ (mounted = D /\ view # k))

CacheInv(D) ==
    /\ cache.files = 99 => cache.keylist = 99
    /\ loop = "keys" => cache.files # 99
    /\ loop = "sign" => cache.keylist # 99
    /\ cache.files # 0
    /\ cache.files # 99 /\ cache.keylist = 99 => loop = "keys" /\ (Earlier(cache.files) \/ Lone(D, cache.files))
    /\ cache.files # 99 /\ cache.keylist \notin {99, 0, cache.files} =>
           Earlier(cache.files) /\ (Gone(D, cache.files) \/ Shadow(D, cache.files))

OneInv(D) == MarksInv(D) /\ DeviceInv(D) /\ CacheInv(D)

LEMMA CacheTypedNext ==
    ASSUME SetupTyped, CacheTyped, [Setup!Next]_Setup!setupVars PROVE CacheTyped'
<1> USE DEF CacheTyped
<1>0. Setup!NoCache \in [files : Int, keylist : Int, prev : BOOLEAN]
  BY DEF Setup!NoCache
<1>1. CASE Setup!LoopStart \/ Setup!PowerOff
  BY <1>0, <1>1 DEF Setup!LoopStart, Setup!PowerOff
<1>2. CASE Setup!LoopPoll
  BY <1>2 DEF Setup!LoopPoll
<1>3. CASE Setup!LoopMount
  BY <1>0, <1>3 DEF Setup!LoopMount, Setup!LoopDies
<1>4. CASE Setup!decrypt_wallets
  <2>1. Setup!wallet_files \in Int
    BY DEF Setup!wallet_files, SetupTyped
  <2>2. cache' = [cache EXCEPT !.files = Setup!wallet_files] \/ cache' = Setup!NoCache
    BY <1>4 DEF Setup!decrypt_wallets, Setup!LoopDies
  <2> QED
    BY <1>0, <2>1, <2>2
<1>5. CASE Setup!init_non_mmgen_keys
  BY <1>0, <1>5 DEF Setup!init_non_mmgen_keys, Setup!LoopDies, SetupTyped
<1>6. CASE UNCHANGED cache
  BY <1>6
<1>7. CASE Setup!LoopSign \/ Setup!LoopUmount
  BY <1>6, <1>7 DEF Setup!LoopSign, Setup!LoopUmount
<1>8. CASE Setup!Insert \/ Setup!Remove \/ Setup!UserUmount
  BY <1>6, <1>8 DEF Setup!Insert, Setup!Remove, Setup!UserUmount
<1>9. CASE Setup!StartSetup \/ Setup!StartOther
  BY <1>6, <1>9, CommandStarted DEF Setup!Start
<1>10. CASE Setup!device_inserted \/ Setup!Mount \/ Setup!wipe_encryption_key \/ Setup!Unlink \/ Setup!create_key
  BY <1>6, <1>10 DEF Setup!device_inserted, Setup!Mount, Setup!wipe_encryption_key, Setup!Unlink, Setup!create_key
<1>11. CASE Setup!disable \/ Setup!enable \/ Setup!remove_wallet_dir \/ Setup!create_wallet_dir
  BY <1>6, <1>11 DEF Setup!disable, Setup!enable, Setup!remove_wallet_dir, Setup!create_wallet_dir
<1>12. CASE Setup!WriteWallet \/ Setup!setup_non_mmgen_keys \/ Setup!Shred \/ Setup!Finish \/ Setup!Interrupt
  BY <1>6, <1>12 DEF Setup!WriteWallet, Setup!setup_non_mmgen_keys, Setup!Shred, Setup!Finish, Setup!Interrupt
<1> QED
  BY <1>1, <1>2, <1>3, <1>4, <1>5, <1>6, <1>7, <1>8, <1>9, <1>10, <1>11, <1>12 DEF Setup!Next

LEMMA Numbers ==
    ASSUME NEW D, Devices = {D}, SetupTyped, CacheTyped, Setup!SetupAssumption
    PROVE  /\ D \in Nat \ {0, 99} /\ mounted \in {0, 99, D} /\ (Setup!Accessible <=> mounted = D)
           /\ (Setup!Exists <=> mounted = D /\ view # 0) /\ disk \in [{D} -> Int]
           /\ view \in Int /\ made \in Nat /\ MaxKeys \in 1 .. 48 /\ Setup!Junk = MaxKeys + 1 + made
           /\ ram.wallet \in Int /\ ram.keys \in Int /\ cache.files \in Int /\ cache.keylist \in Int
<1>1. D \in Nat \ {0, 99} /\ mounted \in {0, 99, D} /\ (Setup!Accessible <=> mounted = D)
  BY Places DEF SetupTyped, Setup!SetupAssumption
<1> QED
  BY <1>1 DEF SetupTyped, CacheTyped, Setup!SetupAssumption, Setup!Junk, Setup!Exists

(* Steps that leave the keys and the loop alone.                           *)
LEMMA ElsewhereInv ==
    ASSUME NEW D, Devices = {D}, SetupTyped, CacheTyped, Setup!SetupAssumption, OneInv(D),
           UNCHANGED <<disk, view, mounted, ram, made, cache, loop>>,
           UNCHANGED <<step, cmd>> \/ step' \in {"none", "inserted", "mount", "umount", "enable"}
              \/ (step' = "disable" /\ cmd' \notin {"setup", "setup -k"}) \/ (step = "disable" /\ step' = "rmdir" /\ UNCHANGED cmd)
    PROVE  OneInv(D)'
<1> USE DEF OneInv, MarksInv, DeviceInv, CacheInv, Lone, Gone, Shadow, Setup!Junk, Setup!IsSetup
<1>1. MarksInv(D)' /\ (Earlier(cache.files)' <=> Earlier(cache.files)) /\ Setup!Junk' = Setup!Junk
  BY DEF Marked, Earlier
<1>2. DeviceInv(D)'
  <2>1. CASE UNCHANGED <<step, cmd>>
    <3>1. /\ (mounted = D => view \in {0, disk[D], made})'
          /\ (step = "unlink" => disk[D] = Setup!Junk /\ (mounted = D => view = Setup!Junk))'
      BY <2>1
    <3>2. /\ (step = "create" /\ mounted = D /\ view # 0 => view = disk[D])'
          /\ (step \in {"mkdir", "wallet", "keys"} => ram.keys = 0)'
      BY <2>1
    <3>3. (Setup!IsSetup /\ step \in {"disable", "rmdir"} => ram.keys # made)'
      BY <2>1
    <3>4. /\ (step = "keys" /\ mounted = D /\ view # ram.wallet => disk[D] # ram.wallet)'
          /\ (ram.keys \notin {0, ram.wallet} /\ mounted = D /\ view = ram.keys => disk[D] # ram.wallet)'
      BY <2>1
    <3> QED
      BY <3>1, <3>2, <3>3, <3>4
  <2>2. CASE step' \in {"none", "inserted", "mount", "umount", "enable"}
    BY <2>2
  <2>3. CASE step' = "disable" /\ cmd' \notin {"setup", "setup -k"}
    BY <2>3
  <2>4. CASE step = "disable" /\ step' = "rmdir" /\ UNCHANGED cmd
    BY <2>4
  <2> QED
    BY <2>1, <2>2, <2>3, <2>4
<1>3. ASSUME NEW k, Shadow(D, k) PROVE Shadow(D, k)'
  BY <1>3
<1>4. CacheInv(D)'
  BY <1>1, <1>3
<1> QED
  BY <1>1, <1>2, <1>4

(* The steps of the first terminal.                                        *)
LEMMA OneInvSetup ==
    ASSUME NEW D, Devices = {D}, SetupTyped, CacheTyped, Setup!SetupAssumption, Stages, OneInv(D)
    PROVE  /\ Setup!Mount => OneInv(D)'
           /\ Setup!wipe_encryption_key => OneInv(D)'
           /\ Setup!Unlink => OneInv(D)'
           /\ made < MaxKeys /\ Setup!create_key => OneInv(D)'
           /\ Setup!remove_wallet_dir \/ Setup!create_wallet_dir => OneInv(D)'
           /\ Setup!WriteWallet => OneInv(D)'
           /\ Setup!setup_non_mmgen_keys => OneInv(D)'
<1> USE DEF OneInv, MarksInv, DeviceInv, CacheInv, Lone, Gone, Shadow, Setup!Ends, Setup!Goto, Setup!At
<1>0. /\ D \in Nat \ {0, 99} /\ mounted \in {0, 99, D} /\ (Setup!Accessible <=> mounted = D)
      /\ (Setup!Exists <=> mounted = D /\ view # 0) /\ disk \in [{D} -> Int]
      /\ view \in Int /\ made \in Nat /\ MaxKeys \in 1 .. 48 /\ Setup!Junk = MaxKeys + 1 + made
      /\ ram.wallet \in Int /\ ram.keys \in Int /\ cache.files \in Int /\ cache.keylist \in Int
  BY Numbers
<1>00. \A k : Earlier(k) => k # 0 /\ k # Setup!Junk
  BY <1>0 DEF Earlier
<1>1. ASSUME Setup!Mount PROVE OneInv(D)'
  <2>1. step = "mount" /\ UNCHANGED <<ram, made, cache, loop>>
    BY <1>1 DEF Setup!Mount
  <2>2. CASE Setup!CanMount
    <3>1. /\ mounted' = D /\ disk' = disk /\ (mounted = D => view' = view) /\ (mounted = 0 => view' = disk[D]) /\ mounted # 99
          /\ step' = "wipe"
      BY <1>1, <2>2, ContentKept DEF Setup!Mount
    <3>2. MarksInv(D)' /\ Setup!Junk' = Setup!Junk /\ (Earlier(cache.files)' <=> Earlier(cache.files))
      BY <1>0, <2>1, <3>1 DEF Marked, Setup!Junk, Earlier
    <3>3. DeviceInv(D)'
      BY <1>0, <2>1, <3>1
    <3>4. CacheInv(D)'
      BY <1>0, <1>00, <2>1, <3>1, <3>2
    <3> QED
      BY <3>2, <3>3, <3>4
  <2>3. CASE ~Setup!CanMount
    BY <1>1, <2>1, <2>3, ElsewhereInv DEF Setup!Mount
  <2> QED
    BY <2>2, <2>3
<1>2. ASSUME Setup!wipe_encryption_key PROVE OneInv(D)'
  <2>1. step = "wipe" /\ UNCHANGED <<mounted, ram, made, cache, loop>> /\ Setup!Junk' = Setup!Junk
        /\ (Earlier(cache.files)' <=> Earlier(cache.files))
    BY <1>2 DEF Setup!wipe_encryption_key, Setup!Junk, Earlier
  <2>2. CASE mounted = 99
    BY <1>2, <2>1, <2>2, ElsewhereInv DEF Setup!wipe_encryption_key
  <2>3. CASE mounted # 99 /\ Setup!Exists
    <3>1. mounted = D /\ disk'[D] = Setup!Junk /\ view' = Setup!Junk /\ step' = "unlink"
      BY <1>0, <1>2, <2>3 DEF Setup!wipe_encryption_key
    <3>2. MarksInv(D)'
      BY <1>0, <2>1, <3>1 DEF Marked
    <3>3. DeviceInv(D)'
      BY <1>0, <2>1, <3>1
    <3>4. CacheInv(D)'
      BY <1>0, <1>00, <2>1, <3>1
    <3> QED
      BY <3>2, <3>3, <3>4
  <2>4. CASE mounted # 99 /\ ~Setup!Exists
    <3>1. UNCHANGED <<disk, view>> /\ step' \in {"umount", "create"} /\ (mounted = D => view = 0)
      BY <1>0, <1>2, <2>4 DEF Setup!wipe_encryption_key
    <3>2. MarksInv(D)'
      BY <1>0, <2>1, <3>1 DEF Marked
    <3>3. DeviceInv(D)'
      BY <1>0, <2>1, <3>1
    <3>4. CacheInv(D)'
      BY <1>0, <1>00, <2>1, <3>1
    <3> QED
      BY <3>2, <3>3, <3>4
  <2> QED
    BY <2>2, <2>3, <2>4
<1>3. ASSUME Setup!Unlink PROVE OneInv(D)'
  <2>1. step = "unlink" /\ UNCHANGED <<disk, mounted, ram, made, cache, loop>> /\ Setup!Junk' = Setup!Junk
        /\ (Earlier(cache.files)' <=> Earlier(cache.files))
    BY <1>3 DEF Setup!Unlink, Setup!Junk, Earlier
  <2>2. CASE mounted = D
    <3>1. view' = 0 /\ step' \in {"umount", "create"}
      BY <1>0, <1>3, <2>2 DEF Setup!Unlink
    <3>2. MarksInv(D)'
      BY <1>0, <2>1, <3>1 DEF Marked
    <3>3. DeviceInv(D)'
      BY <1>0, <2>1, <3>1
    <3>4. CacheInv(D)'
      BY <1>0, <1>00, <2>1, <2>2, <3>1
    <3> QED
      BY <3>2, <3>3, <3>4
  <2>3. CASE mounted # D
    BY <1>0, <1>3, <2>1, <2>3, ElsewhereInv DEF Setup!Unlink
  <2> QED
    BY <2>2, <2>3
<1>4. ASSUME made < MaxKeys, Setup!create_key PROVE OneInv(D)'
  <2>1. step = "create" /\ UNCHANGED <<disk, mounted, ram, cache, loop>>
    BY <1>4 DEF Setup!create_key
  <2>2. CASE mounted = D
    <3>1. view' = made + 1 /\ made' = made + 1 /\ step' \in {"umount", "disable"}
      BY <1>0, <1>4, <2>2 DEF Setup!create_key
    <3>2. MarksInv(D)' /\ Setup!Junk' = Setup!Junk + 1
      BY <1>0, <1>4, <2>1, <3>1 DEF Marked, Setup!Junk
    <3>3. ram.keys # made + 1 /\ ram.wallet # made + 1 /\ view' # 0
      BY <1>0, <1>4, <3>1 DEF Marked
    <3>4. DeviceInv(D)'
      BY <1>0, <2>1, <3>1, <3>3
    <3>5. ASSUME Earlier(cache.files) \/ Lone(D, cache.files)
          PROVE  Earlier(cache.files)'
      BY <1>0, <2>1, <3>1, <3>5 DEF Earlier
    <3>6. Earlier(cache.files) => cache.files # made + 1
      BY <1>0, <1>4 DEF Earlier
    <3>7. CacheInv(D)'
      BY <1>0, <2>1, <2>2, <3>1, <3>3, <3>5, <3>6
    <3> QED
      BY <3>2, <3>4, <3>7
  <2>3. CASE mounted # D
    BY <1>0, <1>4, <2>1, <2>3, ElsewhereInv DEF Setup!create_key
  <2> QED
    BY <2>2, <2>3
<1>5. ASSUME Setup!remove_wallet_dir \/ Setup!create_wallet_dir PROVE OneInv(D)'
  <2>1. /\ UNCHANGED <<disk, view, mounted, made, cache, loop, cmd>> /\ Setup!Junk' = Setup!Junk
        /\ (Earlier(cache.files)' <=> Earlier(cache.files)) /\ Setup!IsSetup' = Setup!IsSetup
    BY <1>5 DEF Setup!remove_wallet_dir, Setup!create_wallet_dir, Setup!Junk, Earlier, Setup!IsSetup
  <2>2. step \in {"rmdir", "mkdir"} /\ step' \in {"mkdir", "wallet"} /\ ram'.wallet = 0 /\ ram'.keys = 0
    BY <1>5 DEF Setup!remove_wallet_dir, Setup!create_wallet_dir, Setup!EmptyDir
  <2>3. MarksInv(D)'
    BY <1>0, <2>1, <2>2 DEF Marked
  <2>4. DeviceInv(D)'
    BY <1>0, <2>1, <2>2
  <2>5. CacheInv(D)'
    BY <1>0, <1>00, <2>1, <2>2 DEF Stages
  <2> QED
    BY <2>3, <2>4, <2>5
<1>6. ASSUME Setup!WriteWallet PROVE OneInv(D)'
  <2>1. step = "wallet" /\ UNCHANGED <<disk, view, mounted, made, cache, loop>> /\ Setup!Junk' = Setup!Junk
        /\ (Earlier(cache.files)' <=> Earlier(cache.files)) /\ Setup!IsSetup
    BY <1>6 DEF Setup!WriteWallet, Setup!Junk, Earlier, Stages
  <2>2. CASE Setup!Exists
    <3>1. ram'.wallet = view /\ ram'.keys = ram.keys /\ step' \in {"keys", "umount"} /\ mounted = D
      BY <1>0, <1>6, <2>2 DEF Setup!WriteWallet, SetupTyped
    <3>2. MarksInv(D)'
      BY <1>0, <2>1, <3>1 DEF Marked
    <3>3. DeviceInv(D)'
      BY <1>0, <2>1, <3>1
    <3>4. CacheInv(D)'
      BY <1>0, <1>00, <2>1, <3>1
    <3> QED
      BY <3>2, <3>3, <3>4
  <2>3. CASE ~Setup!Exists
    BY <1>6, <2>1, <2>3, ElsewhereInv DEF Setup!WriteWallet
  <2> QED
    BY <2>2, <2>3
<1>7. ASSUME Setup!setup_non_mmgen_keys PROVE OneInv(D)'
  <2>1. step = "keys" /\ UNCHANGED <<disk, view, mounted, made, cache, loop>> /\ Setup!Junk' = Setup!Junk
        /\ (Earlier(cache.files)' <=> Earlier(cache.files))
    BY <1>7 DEF Setup!setup_non_mmgen_keys, Setup!Junk, Earlier
  <2>2. CASE orig /\ Setup!Exists
    <3>1. ram'.wallet = ram.wallet /\ ram'.keys = view /\ step' = "shred" /\ mounted = D
      BY <1>0, <1>7, <2>2 DEF Setup!setup_non_mmgen_keys, SetupTyped
    <3>2. MarksInv(D)'
      BY <1>0, <2>1, <3>1 DEF Marked
    <3>3. DeviceInv(D)'
      BY <1>0, <2>1, <3>1
    <3>4. CacheInv(D)'
      BY <1>0, <1>00, <2>1, <3>1
    <3> QED
      BY <3>2, <3>3, <3>4
  <2>3. CASE ~(orig /\ Setup!Exists)
    BY <1>7, <2>1, <2>3, ElsewhereInv DEF Setup!setup_non_mmgen_keys
  <2> QED
    BY <2>2, <2>3
<1> QED
  BY <1>1, <1>2, <1>3, <1>4, <1>5, <1>6, <1>7

(* Unmounting, by either program or the user, leaves the mounted view on   *)
(* the device.                                                             *)
LEMMA UmountInv ==
    ASSUME NEW D, Devices = {D}, SetupTyped, CacheTyped, Setup!SetupAssumption, OneInv(D), Setup!do_umount,
           UNCHANGED <<ram, made, cache>>, Setup!IsSetup' => Setup!IsSetup,
           (loop' = loop /\ step' = "none") \/ (loop = "umount" /\ loop' = "poll" /\ step' = step)
    PROVE  OneInv(D)'
<1> USE DEF OneInv, MarksInv, DeviceInv, CacheInv, Lone, Gone, Shadow
<1>0. /\ D \in Nat \ {0, 99} /\ mounted \in {0, 99, D}
      /\ view \in Int /\ made \in Nat /\ MaxKeys \in 1 .. 48 /\ Setup!Junk = MaxKeys + 1 + made
      /\ ram.wallet \in Int /\ ram.keys \in Int /\ cache.files \in Int /\ cache.keylist \in Int
  BY Numbers
<1>1. mounted' = 0 /\ view' = 0 /\ mounted' # D /\ disk'[D] = IF mounted = D THEN view ELSE disk[D]
  BY <1>0, ContentKept, Unmounting
<1>2. Setup!Junk' = Setup!Junk /\ (Earlier(cache.files)' <=> Earlier(cache.files))
      /\ (Earlier(cache.files) => cache.files # 0 /\ cache.files # Setup!Junk)
  BY <1>0 DEF Setup!Junk, Earlier
<1>3. MarksInv(D)'
  BY <1>0, <1>1 DEF Marked
<1>4. DeviceInv(D)'
  BY <1>0, <1>1, <1>2
<1>5. Lone(D, cache.files) => Lone(D, cache.files)'
  BY <1>0, <1>1, <1>2
<1>6. Gone(D, cache.files) => Gone(D, cache.files)'
  BY <1>0, <1>1, <1>2
<1>7. Shadow(D, cache.files) => Gone(D, cache.files)' \/ Shadow(D, cache.files)'
  BY <1>0, <1>1, <1>2
<1>8. CacheInv(D)'
  BY <1>0, <1>2, <1>5, <1>6, <1>7
<1> QED
  BY <1>3, <1>4, <1>8

(* Pulling the device out may leave what is on it half-written.            *)
LEMMA PullInv ==
    ASSUME NEW D, Devices = {D}, SetupTyped, CacheTyped, Setup!SetupAssumption, OneInv(D), Setup!Remove
    PROVE  OneInv(D)'
<1> USE DEF OneInv, MarksInv, DeviceInv, CacheInv, Lone, Gone, Shadow
<1>0. /\ D \in Nat \ {0, 99} /\ mounted \in {0, 99, D}
      /\ view \in Int /\ made \in Nat /\ MaxKeys \in 1 .. 48 /\ Setup!Junk = MaxKeys + 1 + made
      /\ ram.wallet \in Int /\ ram.keys \in Int /\ cache.files \in Int /\ cache.keylist \in Int
  BY Numbers
<1>1. /\ mounted' = (IF mounted = 0 THEN 0 ELSE 99) /\ mounted' # D
      /\ view' = 0 /\ UNCHANGED <<ram, made, cache, loop, cmd, step>> /\ Setup!IsSetup' = Setup!IsSetup
  BY <1>0 DEF Setup!Remove, Setup!IsSetup
<1>2. disk'[D] \in {disk[D], Setup!Junk} \/ (mounted = D /\ disk'[D] = view)
  <2>1. disk \in [{D} -> Int] /\ Setup!Pulled /\ (Setup!Accessible <=> mounted = D)
    BY Numbers DEF Setup!Remove
  <2> QED
    BY <1>0, <2>1 DEF Setup!Pulled
<1>02. mounted # D => disk'[D] = disk[D]
  BY Numbers DEF Setup!Remove, Setup!Pulled
<1>3. Setup!Junk' = Setup!Junk /\ (Earlier(cache.files)' <=> Earlier(cache.files))
      /\ (Earlier(cache.files) => cache.files # 0 /\ cache.files # Setup!Junk)
  BY <1>0, <1>1 DEF Setup!Junk, Earlier
<1>4. MarksInv(D)'
  BY <1>0, <1>1, <1>2 DEF Marked
<1>5. DeviceInv(D)'
  BY <1>0, <1>1, <1>2, <1>02, <1>3
<1>6. Lone(D, cache.files) => Lone(D, cache.files)'
  BY <1>0, <1>1, <1>2, <1>3
<1>7. Earlier(cache.files) /\ Gone(D, cache.files) => Gone(D, cache.files)'
  BY <1>0, <1>1, <1>2, <1>3
<1>8. Earlier(cache.files) /\ Shadow(D, cache.files) => Gone(D, cache.files)' \/ Shadow(D, cache.files)'
  BY <1>0, <1>1, <1>2, <1>02, <1>3
<1>9. CacheInv(D)'
  BY <1>0, <1>1, <1>3, <1>6, <1>7, <1>8
<1> QED
  BY <1>4, <1>5, <1>9

(* The steps of the wait loop.                                             *)
LEMMA OneInvLoop ==
    ASSUME NEW D, Devices = {D}, SetupTyped, CacheTyped, Setup!SetupAssumption, Stages, OneInv(D)
    PROVE  /\ Setup!LoopStart => OneInv(D)'
           /\ Setup!LoopPoll => OneInv(D)'
           /\ Setup!LoopMount => OneInv(D)'
           /\ Setup!decrypt_wallets => OneInv(D)'
           /\ Setup!init_non_mmgen_keys => OneInv(D)'
           /\ Setup!LoopSign => OneInv(D)'
           /\ Setup!LoopUmount => OneInv(D)'
           /\ Setup!PowerOff => OneInv(D)'
<1> USE DEF OneInv, MarksInv, DeviceInv, CacheInv, Lone, Gone, Shadow, Setup!WaitAt
<1>0. /\ D \in Nat \ {0, 99} /\ mounted \in {0, 99, D} /\ (Setup!Accessible <=> mounted = D)
      /\ (Setup!Exists <=> mounted = D /\ view # 0) /\ disk \in [{D} -> Int]
      /\ view \in Int /\ made \in Nat /\ MaxKeys \in 1 .. 48 /\ Setup!Junk = MaxKeys + 1 + made
      /\ ram.wallet \in Int /\ ram.keys \in Int /\ cache.files \in Int /\ cache.keylist \in Int
  BY Numbers
<1>00. Earlier(cache.files) => cache.files # 0 /\ cache.files # Setup!Junk
  BY <1>0 DEF Earlier
<1>10. ASSUME UNCHANGED <<disk, view, mounted, ram, cmd, step, made>>
       PROVE  MarksInv(D)' /\ DeviceInv(D)'
  <2>1. MarksInv(D)'
    BY <1>10 DEF Marked
  <2>2. Setup!Junk' = Setup!Junk
    BY <1>10 DEF Setup!Junk
  <2>3. /\ (mounted = D => view \in {0, disk[D], made})'
        /\ (step = "unlink" => disk[D] = Setup!Junk /\ (mounted = D => view = Setup!Junk))'
    BY <1>10, <2>2
  <2>4. /\ (step = "create" /\ mounted = D /\ view # 0 => view = disk[D])'
        /\ (step \in {"mkdir", "wallet", "keys"} => ram.keys = 0)'
    BY <1>10
  <2>5. (Setup!IsSetup /\ step \in {"disable", "rmdir"} => ram.keys # made)'
    BY <1>10 DEF Setup!IsSetup
  <2>6. /\ (step = "keys" /\ mounted = D /\ view # ram.wallet => disk[D] # ram.wallet)'
        /\ (ram.keys \notin {0, ram.wallet} /\ mounted = D /\ view = ram.keys => disk[D] # ram.wallet)'
    BY <1>10
  <2> QED
    BY <2>1, <2>3, <2>4, <2>5, <2>6
<1>11. ASSUME loop' = "none" \/ loop' = "poll", cache' = Setup!NoCache PROVE CacheInv(D)'
  <2>1. cache'.files = 99 /\ cache'.keylist = 99
    BY <1>11 DEF Setup!NoCache
  <2> QED
    BY <1>11, <2>1
<1>1. ASSUME Setup!LoopStart PROVE OneInv(D)'
  BY <1>1, <1>10, <1>11 DEF Setup!LoopStart
<1>2. ASSUME Setup!LoopPoll PROVE OneInv(D)'
  <2>1. /\ loop = "poll" /\ loop' \in {"poll", "mount"} /\ cache'.files = cache.files /\ cache'.keylist = cache.keylist
        /\ UNCHANGED <<disk, view, mounted, ram, cmd, step, made>>
    BY <1>2 DEF Setup!LoopPoll, CacheTyped
  <2>2. Setup!Junk' = Setup!Junk /\ (Earlier(cache.files)' <=> Earlier(cache.files)) /\ Setup!IsSetup' = Setup!IsSetup
    BY <2>1 DEF Setup!Junk, Earlier, Setup!IsSetup
  <2>3. CacheInv(D)'
    BY <2>1, <2>2
  <2> QED
    BY <1>10, <2>1, <2>3
<1>3. ASSUME Setup!LoopMount PROVE OneInv(D)'
  <2>1. loop = "mount" /\ UNCHANGED <<ram, cmd, step, made>>
    BY <1>3 DEF Setup!LoopMount
  <2>2. CASE Setup!CanMount
    <3>1. /\ mounted' = D /\ disk' = disk /\ (mounted = D => view' = view) /\ (mounted = 0 => view' = disk[D]) /\ mounted # 99
          /\ loop' = "decrypt" /\ cache' = cache
      BY <1>3, <2>2, ContentKept DEF Setup!LoopMount
    <3>02. MarksInv(D)'
      BY <1>0, <2>1, <3>1 DEF Marked
    <3>2. Setup!Junk' = Setup!Junk /\ (Earlier(cache.files)' <=> Earlier(cache.files)) /\ Setup!IsSetup' = Setup!IsSetup
      BY <2>1, <3>1 DEF Setup!Junk, Earlier, Setup!IsSetup
    <3>3. DeviceInv(D)'
      BY <1>0, <2>1, <3>1, <3>2
    <3>4. CacheInv(D)'
      BY <1>0, <1>00, <2>1, <3>1, <3>2
    <3> QED
      BY <3>02, <3>3, <3>4
  <2>3. CASE ~Setup!CanMount
    BY <1>3, <1>10, <1>11, <2>1, <2>3 DEF Setup!LoopMount, Setup!LoopDies
  <2> QED
    BY <2>2, <2>3
<1>4. ASSUME Setup!decrypt_wallets PROVE OneInv(D)'
  <2>1. loop = "decrypt" /\ UNCHANGED <<disk, view, mounted, ram, cmd, step, made>>
    BY <1>4 DEF Setup!decrypt_wallets
  <2>2. PICK k : k = Setup!wallet_files
    OBVIOUS
  <2>3. k = IF cache.files = 99 THEN ram.wallet ELSE cache.files
    BY <2>2 DEF Setup!wallet_files
  <2>4. CASE Setup!OpensWith(k)
    <3>1. k # 0 /\ k = ram.wallet /\ mounted = D /\ view = k
      BY <1>0, <2>4 DEF Setup!OpensWith
    <3>2. loop' = "keys" /\ cache'.files = k /\ cache'.keylist = cache.keylist
      BY <1>4, <2>2, <2>4 DEF Setup!decrypt_wallets, CacheTyped
    <3>3. k # 99 /\ (Earlier(k) \/ (k = Setup!Junk /\ disk[D] = Setup!Junk))
      BY <1>0, <3>1 DEF Marked, Earlier
    <3>4. Setup!Junk' = Setup!Junk /\ (Earlier(k) <=> Earlier(cache.files)') /\ (k = cache.files => (Earlier(k) <=> Earlier(cache.files)))
      BY <2>1, <3>2 DEF Earlier, Setup!Junk
    <3>5. CASE cache.files = 99
      <4>1. cache'.keylist = 99 /\ (Earlier(cache.files)' \/ Lone(D, cache.files)')
        BY <2>1, <3>1, <3>2, <3>3, <3>4, <3>5
      <4> QED
        BY <1>10, <2>1, <3>1, <3>2, <3>3, <4>1
    <3>6. CASE cache.files # 99
      <4>1. k = cache.files /\ cache.keylist \in {0, cache.files}
        BY <1>0, <2>1, <2>3, <3>1, <3>6
      <4>2. CacheInv(D)'
        BY <1>0, <3>1, <3>2, <3>3, <4>1
      <4> QED
        BY <1>10, <2>1, <4>2
    <3> QED
      BY <3>5, <3>6
  <2>5. CASE ~Setup!OpensWith(k)
    BY <1>4, <1>10, <1>11, <2>1, <2>2, <2>5 DEF Setup!decrypt_wallets, Setup!LoopDies
  <2> QED
    BY <2>4, <2>5
<1>5. ASSUME Setup!init_non_mmgen_keys PROVE OneInv(D)'
  <2>1. loop = "keys" /\ cache.files # 99 /\ UNCHANGED <<disk, view, mounted, ram, cmd, step, made>>
    BY <1>5 DEF Setup!init_non_mmgen_keys
  <2>2. Setup!Junk' = Setup!Junk /\ Setup!IsSetup' = Setup!IsSetup /\ (cache'.files = cache.files => (Earlier(cache.files)' <=> Earlier(cache.files)))
    BY <2>1 DEF Setup!Junk, Earlier, Setup!IsSetup
  <2>3. CASE cache.keylist # 99
    <3>1. loop' = "sign" /\ cache' = cache
      BY <1>5, <2>3 DEF Setup!init_non_mmgen_keys
    <3>2. CacheInv(D)'
      BY <2>1, <2>2, <2>3, <3>1
    <3> QED
      BY <1>10, <2>1, <3>2
  <2>4. CASE cache.keylist = 99 /\ (ram.keys = 0 \/ (Setup!Exists /\ view = ram.keys))
    <3>1. loop' = "sign" /\ cache'.files = cache.files /\ cache'.keylist = ram.keys
      BY <1>5, <2>4 DEF Setup!init_non_mmgen_keys, CacheTyped
    <3>2. ram.keys # 99
      BY <1>0 DEF Marked
    <3>3. ASSUME ram.keys \notin {0, cache.files}
          PROVE  Earlier(cache.files)' /\ (Gone(D, cache.files)' \/ Shadow(D, cache.files)')
      <4>1. mounted = D /\ view = ram.keys /\ view # 0 /\ view # cache.files
        BY <1>0, <2>4, <3>3
      <4>2. Earlier(cache.files)
        BY <2>1, <2>4, <4>1
      <4>3. CASE disk[D] # cache.files
        BY <2>1, <2>2, <3>1, <4>1, <4>2, <4>3
      <4>4. CASE disk[D] = cache.files
        <5>1. ram.wallet # cache.files
          BY <3>3, <4>1, <4>4
        <5>2. step # "create" /\ step \notin {"mkdir", "wallet"}
          BY <4>1, <4>4
        <5>3. view = made
          BY <4>1, <4>4
        <5>4. ~(Setup!IsSetup /\ step \in {"disable", "rmdir"})
          BY <4>1, <5>3
        <5> QED
          BY <2>1, <2>2, <3>1, <4>1, <4>2, <4>4, <5>1, <5>2, <5>4
      <4> QED
        BY <4>3, <4>4
    <3>4. CacheInv(D)'
      BY <2>1, <3>1, <3>2, <3>3
    <3> QED
      BY <1>10, <2>1, <3>4
  <2>5. CASE cache.keylist = 99 /\ ~(ram.keys = 0 \/ (Setup!Exists /\ view = ram.keys))
    BY <1>5, <1>10, <1>11, <2>1, <2>5 DEF Setup!init_non_mmgen_keys, Setup!LoopDies
  <2> QED
    BY <2>3, <2>4, <2>5
<1>6. ASSUME Setup!LoopSign PROVE OneInv(D)'
  <2>1. loop = "sign" /\ loop' = "umount" /\ UNCHANGED <<disk, view, mounted, ram, cmd, step, made, cache>>
    BY <1>6 DEF Setup!LoopSign
  <2>2. Setup!Junk' = Setup!Junk /\ (Earlier(cache.files)' <=> Earlier(cache.files)) /\ Setup!IsSetup' = Setup!IsSetup
    BY <2>1 DEF Setup!Junk, Earlier, Setup!IsSetup
  <2>3. CacheInv(D)'
    BY <2>1, <2>2
  <2> QED
    BY <1>10, <2>1, <2>3
<1>7. ASSUME Setup!LoopUmount PROVE OneInv(D)'
  <2>1. /\ loop = "umount" /\ loop' = "poll" /\ Setup!do_umount /\ UNCHANGED <<ram, cmd, step, made, cache>>
    BY <1>7 DEF Setup!LoopUmount
  <2> HIDE DEF OneInv
  <2> QED
    BY <2>1, UmountInv DEF Setup!IsSetup
<1>8. ASSUME Setup!PowerOff PROVE OneInv(D)'
  <2>1. /\ mounted' = 0 /\ mounted' # D /\ view' = 0 /\ ram'.wallet = 0 /\ ram'.keys = 0 /\ made' = made /\ step' = "none"
        /\ loop' = "none" /\ cache' = Setup!NoCache /\ Setup!Pulled
    BY <1>0, <1>8 DEF Setup!PowerOff, Setup!EmptyDir, Setup!Ends
  <2>2. disk'[D] \in {disk[D], Setup!Junk, view}
    BY <1>0, <2>1 DEF Setup!Pulled
  <2>3. MarksInv(D)'
    BY <1>0, <2>1, <2>2 DEF Marked
  <2>4. DeviceInv(D)'
    BY <2>1
  <2>5. CacheInv(D)'
    BY <1>11, <2>1
  <2> QED
    BY <2>3, <2>4, <2>5
<1> QED
  BY <1>1, <1>2, <1>3, <1>4, <1>5, <1>6, <1>7, <1>8

LEMMA OneInvNext ==
    ASSUME NEW D, Devices = {D}, SetupTyped, CacheTyped, Setup!SetupAssumption, Stages, OneInv(D), [Setup!Next]_Setup!setupVars
    PROVE  OneInv(D)'
<1> USE DEF Setup!Ends, Setup!Goto, Setup!At
<1>1. CASE Setup!StartSetup \/ Setup!StartOther
  <2>1. PICK name \in Names, first \in {"inserted", "mount", "enable", "disable"} :
            Setup!Start(name, first) /\ (name \in {"setup", "setup -k"} => first = "inserted")
    BY <1>1, CommandStarted
  <2> QED
    BY <2>1, ElsewhereInv DEF Setup!Start
<1>2. CASE Setup!device_inserted
  BY <1>2, ElsewhereInv DEF Setup!device_inserted
<1>3. CASE Setup!disable
  BY <1>3, ElsewhereInv DEF Setup!disable
<1>4. CASE Setup!enable \/ Setup!Interrupt
  BY <1>4, ElsewhereInv DEF Setup!enable, Setup!Interrupt
<1>5. CASE Setup!Shred
  BY <1>5, ElsewhereInv DEF Setup!Shred
<1>6. CASE Setup!Finish \/ Setup!UserUmount
  <2>1. Setup!do_umount /\ UNCHANGED <<ram, made, cache, loop>> /\ step' = "none"
    BY <1>6 DEF Setup!Finish, Setup!UserUmount, Stages
  <2>2. Setup!IsSetup' => Setup!IsSetup
    BY <1>6 DEF Setup!Finish, Setup!UserUmount, Setup!IsSetup
  <2> QED
    BY <2>1, <2>2, UmountInv
<1>7. CASE Setup!Insert
  BY <1>7, ElsewhereInv DEF Setup!Insert
<1>8. CASE UNCHANGED Setup!setupVars
  BY <1>8, ElsewhereInv
<1> QED
  BY <1>1, <1>2, <1>3, <1>4, <1>5, <1>6, <1>7, <1>8, PullInv, OneInvSetup, OneInvLoop DEF Setup!Next

LEMMA OnlySigningMixes ==
    ASSUME SetupTyped, [Setup!Next]_Setup!setupVars, ~Setup!LoopSign PROVE past'.mixed = past.mixed
<1> USE DEF SetupTyped, Past
<1>1. CASE Setup!StartSetup \/ Setup!StartOther
  BY <1>1, CommandStarted DEF Setup!Start, Setup!Undisturbed
<1>2. CASE Setup!Mount
  BY <1>2 DEF Setup!Mount
<1>3. CASE Setup!enable
  BY <1>3 DEF Setup!enable
<1>4. CASE Setup!Finish \/ Setup!Interrupt
  <2>1. Setup!Undisturbed \in Past /\ Setup!Undisturbed.mixed = past.mixed
    BY DEF Setup!Undisturbed
  <2>2. past' = Setup!Undisturbed
            \/ \E ready, wiped : past' = [Setup!Undisturbed EXCEPT !.ready = ready, !.wiped = wiped]
    BY <1>4 DEF Setup!Finish, Setup!Interrupt
  <2> QED
    BY <2>1, <2>2
<1>5. CASE Setup!LoopUmount \/ Setup!Remove \/ Setup!PowerOff
  BY <1>5 DEF Setup!LoopUmount, Setup!Remove, Setup!PowerOff
<1>6. ASSUME UNCHANGED past PROVE past'.mixed = past.mixed
  BY <1>6
<1>7. CASE Setup!device_inserted \/ Setup!wipe_encryption_key \/ Setup!Unlink \/ Setup!create_key \/ Setup!disable
  BY <1>6, <1>7, Disabling DEF Setup!device_inserted, Setup!wipe_encryption_key, Setup!Unlink, Setup!create_key
<1>8. CASE Setup!remove_wallet_dir \/ Setup!create_wallet_dir \/ Setup!WriteWallet \/ Setup!setup_non_mmgen_keys \/ Setup!Shred
  BY <1>6, <1>8 DEF Setup!remove_wallet_dir, Setup!create_wallet_dir, Setup!WriteWallet, Setup!setup_non_mmgen_keys, Setup!Shred
<1>9. CASE Setup!LoopStart \/ Setup!LoopPoll \/ Setup!LoopMount \/ Setup!decrypt_wallets \/ Setup!init_non_mmgen_keys
  BY <1>6, <1>9 DEF Setup!LoopStart, Setup!LoopPoll, Setup!LoopMount, Setup!decrypt_wallets, Setup!init_non_mmgen_keys
<1>10. CASE Setup!Insert \/ Setup!UserUmount \/ UNCHANGED Setup!setupVars
  BY <1>6, <1>10 DEF Setup!Insert, Setup!UserUmount
<1> QED
  BY <1>1, <1>2, <1>3, <1>4, <1>5, <1>7, <1>8, <1>9, <1>10 DEF Setup!Next

(* With one device, the wait loop never signs with the wallet of one setup *)
(* and the key list of another: once a loop holds the files of one setup,  *)
(* the key that would open those of a later one cannot be found together   *)
(* with them, however the commands of the other terminal, the user and the *)
(* power come in between.                                                  *)
THEOREM SignedWithOne ==
    ASSUME NEW D, Devices = {D}, Setup!SetupAssumption PROVE Setup!Spec => []Setup!SignedByOne
<1> DEFINE Signed == OneInv(D) /\ CacheTyped /\ ~past.mixed
<1>1. Setup!Init => Signed
  <2> SUFFICES ASSUME Setup!Init PROVE Signed
    OBVIOUS
  <2>1. /\ disk[D] = 0 /\ view = 0 /\ mounted = 0 /\ made = 0 /\ step = "none" /\ cmd = "none" /\ loop = "none"
        /\ ram.wallet = 0 /\ ram.keys = 0 /\ cache = Setup!NoCache /\ ~past.mixed
    BY DEF Setup!Init, Setup!EmptyDir
  <2>2. cache.files = 99 /\ cache.keylist = 99 /\ CacheTyped
    BY <2>1 DEF Setup!NoCache, CacheTyped
  <2>3. D # 0 /\ MaxKeys \in Nat
    BY DEF Setup!SetupAssumption
  <2>4. MarksInv(D)
    BY <2>1, <2>3 DEF MarksInv, Marked
  <2>5. DeviceInv(D)
    BY <2>1, <2>3 DEF DeviceInv, Setup!IsSetup
  <2>6. CacheInv(D)
    BY <2>1, <2>2 DEF CacheInv
  <2> QED
    BY <2>1, <2>2, <2>4, <2>5, <2>6 DEF OneInv
<1>2. ASSUME SetupTyped, Stages, OneInv(D), CacheTyped, ~past.mixed, [Setup!Next]_Setup!setupVars
      PROVE  ~past'.mixed
  <2>1. CASE Setup!LoopSign
    <3>1. /\ loop = "sign" /\ past'.mixed = (past.mixed \/ (Setup!OpensWith(Setup!wallet_files) /\ cache.keylist \notin {0, Setup!wallet_files}))
      BY <1>2, <2>1 DEF Setup!LoopSign, Setup!WaitAt, SetupTyped, Past
    <3>2. cache.keylist # 99 /\ cache.files # 99 /\ Setup!wallet_files = cache.files
      BY <1>2, <3>1 DEF OneInv, CacheInv, Setup!wallet_files
    <3>3. ASSUME Setup!OpensWith(cache.files), cache.keylist \notin {0, cache.files} PROVE FALSE
      <4>1. Gone(D, cache.files) \/ Shadow(D, cache.files)
        BY <1>2, <3>2, <3>3 DEF OneInv, CacheInv
      <4>2. mounted = D /\ view = cache.files /\ ram.wallet = cache.files
        BY <1>2, <3>3, Numbers DEF Setup!OpensWith
      <4> QED
        BY <4>1, <4>2 DEF Gone, Shadow
    <3> QED
      BY <1>2, <3>1, <3>2, <3>3
  <2>2. CASE ~Setup!LoopSign
    BY <1>2, <2>2, OnlySigningMixes
  <2> QED
    BY <2>1, <2>2
<1>3. OneInv(D) /\ CacheTyped /\ SetupTyped /\ Stages /\ [Setup!Next]_Setup!setupVars => OneInv(D)' /\ CacheTyped'
  BY OneInvNext, CacheTypedNext
<1>4. Signed => Setup!SignedByOne
  BY DEF Setup!SignedByOne
<1>5. SetupTyped /\ Stages /\ Signed /\ [Setup!Next]_Setup!setupVars => (SetupTyped /\ Stages /\ Signed)'
  BY <1>2, <1>3, SetupTypedNext, StagesNext
<1>6. Setup!Init => SetupTyped /\ Stages
  BY SetupInit
<1> HIDE DEF Signed
<1> QED
  BY <1>1, <1>4, <1>5, <1>6, PTL DEF Setup!Spec

----------------------------------------------------------------------------
(* Messages: their signing, export and verification (MsgSign).             *)

MsgTypes == {"E", "L", "C", "S", "B"}

(* The record of a signature, of a message m; and one as it is made.       *)
IsSig(e, m) ==
    e = [addr |-> e.addr, sig |-> [key |-> e.sig.key, message |-> m, hash |-> e.sig.hash],
         addr_p2pkh |-> e.addr_p2pkh, pubhash |-> e.pubhash]

AsMade(e, key, m, hash) ==
    /\ e.addr = Message!ToAddr(key) /\ e.sig = [key |-> key, message |-> m, hash |-> hash]
    /\ e.addr_p2pkh = IF key.type \in {"S", "B"} THEN <<"p2pkh", key>> ELSE <<>>

IsFile(f) == f = [signed |-> f.signed, data |-> f.data, sigs |-> f.sigs]

IsData(datum, m) ==
    /\ datum = [network |-> datum.network, addrlists |-> datum.addrlists, message |-> m,
               msghash_type |-> datum.msghash_type, failed_sids |-> datum.failed_sids]
    /\ \A n \in DOMAIN datum.addrlists : datum.addrlists[n].type \in MsgTypes

AllSigs(sigs, m) == sigs = [k \in DOMAIN sigs |-> sigs[k]] /\ \A k \in DOMAIN sigs : IsSig(sigs[k], m)

Untouched(f, m) ==
    /\ f.data.message = m
    /\ \A k \in DOMAIN f.sigs : k.type \in MsgTypes /\ AsMade(f.sigs[k], k, m, f.data.msghash_type)

(* Which signatures are looked at, when some addresses are asked for.      *)
Wanted(addrs, sigs) == IF addrs = {} THEN DOMAIN sigs ELSE DOMAIN sigs \intersect addrs

(* What is exported, and that of an untouched file.                        *)
Entries(ex) == {x[2] : x \in ex.signatures}

AsExported(ex, f, addrs, m) ==
    /\ ex.message = m /\ ex.msghash_type = f.data.msghash_type
    /\ Wanted(addrs, f.sigs) # {}
    /\ Entries(ex) = {f.sigs[k] : k \in Wanted(addrs, f.sigs)}

(* The invariant: every signature there is is of the job's message, even   *)
(* in a file that was altered, in which the message may be another.        *)
MessageInv ==
    /\ step \in {"create", "unsigned", "signed", "exported"} => verified = <<>>
    /\ step \in {"create", "unsigned"} => altered = 0
    /\ step = "unsigned" => IsData(file.data, job.message)
    /\ step \in {"signed", "exported"} => IsFile(file) /\ AllSigs(file.sigs, job.message) /\ (altered = 0 => Untouched(file, job.message))
    /\ step = "exported" =>
          /\ export = [message |-> export.message, msghash_type |-> export.msghash_type,
                       network |-> export.network, signatures |-> export.signatures]
          /\ \A e \in Entries(export) : IsSig(e, job.message)
          /\ altered = 0 => AsExported(export, file, job.addrs, job.message)
    /\ Message!Verified

LEMMA SigFields ==
    ASSUME NEW e, NEW m, IsSig(e, m)
    PROVE  e.sig = [key |-> e.sig.key, message |-> m, hash |-> e.sig.hash] /\ e.sig.message = m
<1>1. PICK a, g, p, h : e = [addr |-> a, sig |-> g, addr_p2pkh |-> p, pubhash |-> h] /\ g = [key |-> e.sig.key, message |-> m, hash |-> e.sig.hash]
  BY DEF IsSig
<1>2. e.sig = g
  BY <1>1
<1> QED
  BY <1>1, <1>2

(* A signature that is verified is one of the message that was signed.     *)
LEMMA GoodSig ==
    ASSUME NEW e, NEW m, IsSig(e, m), NEW datum, Message!do_verify(Message!VerifyAddr(e), e.sig, datum)
    PROVE  e.sig = Message!do_sign(Message!VerifyAddr(e)[2], m, datum.msghash_type) /\ datum.message = m
<1>1. e.sig = [key |-> e.sig.key, message |-> m, hash |-> e.sig.hash] /\ e.sig.message = m
  BY SigFields
<1>2. e.sig.key = Message!VerifyAddr(e)[2] /\ e.sig.message = datum.message /\ e.sig.hash = datum.msghash_type
  BY DEF Message!do_verify
<1> QED
  BY <1>1, <1>2 DEF Message!do_sign

(* One that is untouched is verified, and has its address.                 *)
LEMMA UntouchedVerified ==
    ASSUME NEW e, NEW key, key.type \in MsgTypes, NEW m, NEW datum, datum.message = m,
           AsMade(e, key, m, datum.msghash_type)
    PROVE  /\ Message!do_verify(Message!VerifyAddr(e), e.sig, datum)
           /\ e.addr = Message!ToAddr(e.sig.key) /\ e.sig.key = key
<1>1. e.sig.key = key /\ e.sig.message = m /\ e.sig.hash = datum.msghash_type
  BY DEF AsMade
<1>2. CASE key.type \in {"S", "B"}
  <2>1. Message!VerifyAddr(e) = <<"p2pkh", key>>
    BY <1>2 DEF AsMade, Message!VerifyAddr
  <2> QED
    BY <1>1, <2>1 DEF Message!do_verify, AsMade
<1>3. CASE key.type \notin {"S", "B"}
  <2>1. Message!VerifyAddr(e) = Message!ToAddr(key)
    BY <1>3 DEF AsMade, Message!VerifyAddr
  <2>2. Message!ToAddr(key) = <<Message!AddrForm(key.type), key>> /\ Message!AddrForm(key.type) \in {"p2pkh", "eth"}
    BY <1>3 DEF Message!ToAddr, Message!AddrForm, MsgTypes
  <2> QED
    BY <1>1, <2>1, <2>2 DEF Message!do_verify, AsMade
<1> QED
  BY <1>2, <1>3

LEMMA NewMade ==
    ASSUME NEW key, NEW datum
    PROVE  IsSig(Message!Entry(key, datum), datum.message) /\ AsMade(Message!Entry(key, datum), key, datum.message, datum.msghash_type)
BY DEF Message!Entry, Message!do_sign, IsSig, AsMade

LEMMA Looked == ASSUME NEW sigs PROVE DOMAIN Message!get_sigs(sigs) = Wanted(job.addrs, sigs)
                                      /\ \A k \in Wanted(job.addrs, sigs) : Message!get_sigs(sigs)[k] = sigs[k]
BY DEF Message!get_sigs, Wanted

LEMMA MessageMade == ASSUME MessageInv, Message!new PROVE MessageInv'
<1>1. step = "create" /\ UNCHANGED <<job, export, verified, altered>> /\ step' \in {"unsigned", "refused"}
  BY DEF Message!new, Message!Ends
<1>2. step' = "unsigned" => IsData(file'.data, job.message)
  <2> SUFFICES ASSUME step' = "unsigned" PROVE IsData(file'.data, job.message)
    OBVIOUS
  <2>1. PICK hash, lists, nw :
          /\ file' = [signed |-> FALSE, sigs |-> <<>>,
                      data |-> [network |-> nw, addrlists |-> lists, message |-> job.message,
                                msghash_type |-> hash, failed_sids |-> {}]]
          /\ \A n \in DOMAIN lists : lists[n].type \in Message!mmtypes
    BY DEF Message!new, Message!Ends
  <2>2. Message!mmtypes \subseteq MsgTypes
    BY DEF Message!mmtypes, MsgTypes
  <2> QED
    BY <2>1, <2>2 DEF IsData
<1>3. Message!Verified'
  BY <1>1 DEF MessageInv, Message!Verified
<1> QED
  BY <1>1, <1>2, <1>3 DEF MessageInv

LEMMA MessageSigned == ASSUME MessageInv, Message!sign PROVE MessageInv'
<1>1. step = "unsigned" /\ step' = "signed" /\ UNCHANGED <<job, export, verified, altered>> /\ IsData(file.data, job.message)
      /\ verified = <<>>
  BY DEF Message!sign, Message!Ends, MessageInv
<1>2. PICK made0, failed :
        /\ file' = [signed |-> TRUE, data |-> [file.data EXCEPT !.failed_sids = failed],
                    sigs |-> [key \in made0 |-> Message!Entry(key, file.data)]]
        /\ \A key \in made0 : key.type \in MsgTypes
  <2> DEFINE lists == file.data.addrlists
             need == Message!NoDups(lists)
             first == Message!Removing(lists, need, Message!WithWallet)
             second == Message!Removing(lists, need \ first, Message!WithSubseed)
             chosen == {p \in DOMAIN lists : lists[p].sid \in Message!Sids(lists, first \union second)}
             rest == Message!Sids(lists, need \ (first \union second))
             all == UNION {Message!KeysOf(lists[n]) : n \in chosen}
  <2>1. file' = [signed |-> TRUE, data |-> [file.data EXCEPT !.failed_sids = rest],
                 sigs |-> [key \in all |-> Message!Entry(key, file.data)]]
    BY DEF Message!sign
  <2>2. ASSUME NEW key \in all PROVE key.type \in MsgTypes
    <3> HIDE DEF need, first, second
    <3>1. PICK n \in DOMAIN lists : key \in Message!KeysOf(lists[n])
      OBVIOUS
    <3>2. key.type = lists[n].type
      BY <3>1 DEF Message!KeysOf
    <3> QED
      BY <1>1, <3>2 DEF IsData
  <2> HIDE DEF all, rest
  <2> QED
    BY <2>1, <2>2
<1>3. PICK datum : datum = [file.data EXCEPT !.failed_sids = failed]
  OBVIOUS
<1>4. datum.message = job.message /\ datum.msghash_type = file.data.msghash_type /\ file.data.message = job.message
  <2>1. PICK n, l, m, h, f : file.data = [network |-> n, addrlists |-> l, message |-> m, msghash_type |-> h, failed_sids |-> f]
                             /\ m = job.message
    BY <1>1 DEF IsData
  <2>2. datum = [network |-> n, addrlists |-> l, message |-> m, msghash_type |-> h, failed_sids |-> failed]
    BY <1>3, <2>1
  <2> QED
    BY <2>1, <2>2
<1>5. /\ file'.data = datum /\ DOMAIN file'.sigs = made0 /\ file'.sigs = [k \in DOMAIN file'.sigs |-> file'.sigs[k]]
      /\ \A k \in made0 : file'.sigs[k] = Message!Entry(k, file.data)
      /\ IsFile(file')
  BY <1>2, <1>3 DEF IsFile
<1>6. AllSigs(file'.sigs, job'.message) /\ Untouched(file', job'.message)
  BY <1>1, <1>2, <1>4, <1>5, NewMade DEF AllSigs, Untouched
<1>7. Message!Verified'
  BY <1>1 DEF Message!Verified
<1> QED
  BY <1>1, <1>5, <1>6, <1>7 DEF MessageInv

LEMMA MessageVerified == ASSUME MessageInv, Message!verify PROVE MessageInv'
<1>1. /\ step = "signed" /\ UNCHANGED <<job, file, export, altered>>
      /\ AllSigs(file.sigs, job.message) /\ (altered = 0 => Untouched(file, job.message)) /\ verified = <<>>
  BY DEF Message!verify, MessageInv
<1>2. PICK looked, all : looked = Message!get_sigs(file.sigs) /\ all = Wanted(job.addrs, file.sigs)
  OBVIOUS
<1>3. DOMAIN looked = all /\ all \subseteq DOMAIN file.sigs /\ \A k \in all : looked[k] = file.sigs[k]
  BY <1>2, Looked DEF Wanted
<1>4. \A k \in all : IsSig(looked[k], job.message)
  BY <1>1, <1>3 DEF AllSigs
<1>5. ASSUME altered = 0, NEW k \in all
      PROVE  /\ Message!do_verify(Message!VerifyAddr(looked[k]), looked[k].sig, file.data)
             /\ looked[k].addr = Message!ToAddr(looked[k].sig.key)
  <2>1. PICK e, m, d : e = looked[k] /\ m = job.message /\ d = file.data
    OBVIOUS
  <2>2. k.type \in MsgTypes /\ AsMade(e, k, m, d.msghash_type) /\ d.message = m
    BY <1>1, <1>3, <1>5, <2>1 DEF Untouched
  <2>3. Message!do_verify(Message!VerifyAddr(e), e.sig, d) /\ e.addr = Message!ToAddr(e.sig.key)
    BY <2>2, UntouchedVerified
  <2> QED
    BY <2>1, <2>3
<1>6. CASE DOMAIN looked # {} /\ \A k \in DOMAIN looked : Message!do_verify(Message!VerifyAddr(looked[k]), looked[k].sig, file.data)
  <2>1. verified' = [sigs |-> looked, data |-> file.data] /\ step' \in {"exit 0", "exit 1"}
    BY <1>2, <1>6 DEF Message!verify, Message!Verify, Message!Ends
  <2>2. \A k \in all : looked[k].sig = Message!do_sign(Message!VerifyAddr(looked[k])[2], job.message, file.data.msghash_type)
    <3> SUFFICES ASSUME NEW k \in all
                 PROVE  looked[k].sig = Message!do_sign(Message!VerifyAddr(looked[k])[2], job.message, file.data.msghash_type)
      OBVIOUS
    <3>1. PICK e, m, d : e = looked[k] /\ m = job.message /\ d = file.data
      OBVIOUS
    <3>2. IsSig(e, m) /\ Message!do_verify(Message!VerifyAddr(e), e.sig, d)
      BY <1>3, <1>4, <1>6, <3>1
    <3>3. e.sig = Message!do_sign(Message!VerifyAddr(e)[2], m, d.msghash_type)
      BY <3>2, GoodSig
    <3> QED
      BY <3>1, <3>3
  <2>3. altered = 0 => \A k \in all : looked[k].addr = Message!ToAddr(looked[k].sig.key)
    BY <1>5
  <2>4. Message!Verified'
    BY <1>1, <1>3, <2>1, <2>2, <2>3 DEF Message!Verified
  <2> QED
    BY <2>1, <2>4 DEF MessageInv
<1>7. CASE ~(DOMAIN looked # {} /\ \A k \in DOMAIN looked : Message!do_verify(Message!VerifyAddr(looked[k]), looked[k].sig, file.data))
  <2>1. verified' = verified /\ step' = "failed"
    BY <1>2, <1>7 DEF Message!verify, Message!Verify, Message!Ends
  <2>2. altered = 0 => DOMAIN looked = {}
    BY <1>3, <1>7, <1>5
  <2>3. (DOMAIN Message!get_sigs(file.sigs))' = DOMAIN looked
    BY <1>1, <1>2 DEF Message!get_sigs
  <2>4. Message!Verified'
    BY <1>1, <2>1, <2>2, <2>3 DEF Message!Verified
  <2> QED
    BY <2>1, <2>4 DEF MessageInv
<1> QED
  BY <1>6, <1>7

LEMMA MessageExported == ASSUME MessageInv, Message!get_json_for_export PROVE MessageInv'
<1>1. /\ step = "signed" /\ UNCHANGED <<job, file, verified, altered>> /\ IsFile(file)
      /\ AllSigs(file.sigs, job.message) /\ (altered = 0 => Untouched(file, job.message)) /\ verified = <<>>
  BY DEF Message!get_json_for_export, MessageInv
<1>2. PICK looked, all : looked = Message!get_sigs(file.sigs) /\ all = Wanted(job.addrs, file.sigs)
  OBVIOUS
<1>3. DOMAIN looked = all /\ all \subseteq DOMAIN file.sigs /\ \A k \in all : looked[k] = file.sigs[k]
  BY <1>2, Looked DEF Wanted
<1>4. CASE all = {}
  <2>1. step' = "failed"
    BY <1>2, <1>3, <1>4 DEF Message!get_json_for_export, Message!Ends
  <2>2. (DOMAIN Message!get_sigs(file.sigs))' = DOMAIN looked
    BY <1>1, <1>2 DEF Message!get_sigs
  <2>3. Message!Verified'
    BY <1>1, <1>3, <1>4, <2>1, <2>2 DEF Message!Verified
  <2> QED
    BY <2>1, <2>3 DEF MessageInv
<1>5. CASE all # {}
  <2>1. PICK signatures : signatures = {Message!Prefixed(looked[k]) : k \in DOMAIN looked}
    OBVIOUS
  <2>2. step' = "exported"
        /\ export' = [message |-> file.data.message, msghash_type |-> file.data.msghash_type,
                      network |-> file.data.network, signatures |-> signatures]
    BY <1>2, <1>3, <1>5, <2>1 DEF Message!get_json_for_export, Message!Ends
  <2>3. Entries(export') = {file.sigs[k] : k \in all}
    <3>1. export'.signatures = signatures /\ \A e : Message!Prefixed(e)[2] = e
      BY <2>2 DEF Message!Prefixed
    <3>2. Entries(export') = {x[2] : x \in signatures}
      BY <3>1 DEF Entries
    <3>3. \A k \in all : looked[k] \in {x[2] : x \in signatures}
      <4> TAKE k \in all
      <4>1. PICK e : e = looked[k]
        OBVIOUS
      <4>2. Message!Prefixed(e) \in signatures /\ Message!Prefixed(e)[2] = e
        BY <1>3, <2>1, <3>1, <4>1
      <4> QED
        BY <4>1, <4>2
    <3>4. \A y \in {x[2] : x \in signatures} : \E k \in all : y = looked[k]
      <4> TAKE y \in {x[2] : x \in signatures}
      <4>1. PICK x \in signatures : y = x[2]
        OBVIOUS
      <4>2. PICK k \in all : x = Message!Prefixed(looked[k])
        BY <1>3, <2>1
      <4> QED
        BY <3>1, <4>1, <4>2
    <3> QED
      BY <1>3, <3>2, <3>3, <3>4
  <2>4. \A e \in Entries(export') : IsSig(e, job'.message)
    BY <1>1, <1>3, <2>3 DEF AllSigs
  <2>5. altered' = 0 => AsExported(export', file', job'.addrs, job'.message)
    BY <1>1, <1>2, <1>5, <2>2, <2>3 DEF AsExported, Untouched
  <2>6. export' = [message |-> export'.message, msghash_type |-> export'.msghash_type,
                   network |-> export'.network, signatures |-> export'.signatures]
    BY <2>2
  <2>7. Message!Verified'
    BY <1>1, <2>2 DEF Message!Verified
  <2> QED
    BY <1>1, <2>2, <2>4, <2>5, <2>6, <2>7 DEF MessageInv
<1> QED
  BY <1>4, <1>5

LEMMA ExportVerified == ASSUME MessageInv, Message!exported_sigs PROVE MessageInv'
<1>1. /\ step = "exported" /\ UNCHANGED <<job, file, export, altered>> /\ verified = <<>>
      /\ \A e \in Entries(export) : IsSig(e, job.message)
      /\ altered = 0 => Untouched(file, job.message) /\ AsExported(export, file, job.addrs, job.message)
  BY DEF Message!exported_sigs, MessageInv
<1>2. PICK entries, addrs : entries = Entries(export) /\ addrs = {e.addr : e \in entries}
  OBVIOUS
<1>3. PICK sigs : sigs = [a \in addrs |-> CHOOSE e \in entries : e.addr = a]
  OBVIOUS
<1>4. DOMAIN sigs = addrs /\ \A a \in addrs : sigs[a] \in entries /\ sigs[a].addr = a
  BY <1>2, <1>3
<1>5. PICK all : all = {a \in DOMAIN sigs : job.addrs = {} \/ \E key \in job.addrs : a = Message!ToAddr(key)}
  OBVIOUS
<1>6. PICK datum : datum = [message |-> export.message, msghash_type |-> export.msghash_type, failed_sids |-> {}]
  OBVIOUS
<1>7. IF all # {} /\ \A a \in all : Message!do_verify(Message!VerifyAddr(sigs[a]), sigs[a].sig, datum)
      THEN verified' = [sigs |-> [a \in all |-> sigs[a]], data |-> datum] /\ step' = "exit 0"
      ELSE verified' = verified /\ step' = "failed"
  <2> DEFINE entries0 == {x[2] : x \in export.signatures}
             sigs0 == [a \in {e.addr : e \in entries0} |-> CHOOSE e \in entries0 : e.addr = a]
             all0 == {a \in DOMAIN sigs0 : job.addrs = {} \/ \E key \in job.addrs : a = Message!ToAddr(key)}
             data0 == [message |-> export.message, msghash_type |-> export.msghash_type, failed_sids |-> {}]
  <2>1. IF all0 # {} /\ \A a \in all0 : Message!do_verify(Message!VerifyAddr(sigs0[a]), sigs0[a].sig, data0)
        THEN verified' = [sigs |-> [a \in all0 |-> sigs0[a]], data |-> data0] /\ step' = "exit 0"
        ELSE verified' = verified /\ step' = "failed"
    BY DEF Message!exported_sigs, Message!Ends
  <2>2. entries = entries0 /\ addrs = {e.addr : e \in entries0}
    BY <1>2 DEF Entries
  <2>3. sigs = sigs0
    BY <1>3, <2>2
  <2>4. all = all0 /\ datum = data0
    BY <1>5, <1>6, <2>3
  <2> HIDE DEF entries0, sigs0, all0, data0
  <2> QED
    BY <2>1, <2>3, <2>4
<1>8. all \subseteq addrs /\ \A a \in all : IsSig(sigs[a], job.message)
  BY <1>1, <1>2, <1>4, <1>5
<1>9. altered = 0 => /\ all # {}
                    /\ \A a \in all : /\ Message!do_verify(Message!VerifyAddr(sigs[a]), sigs[a].sig, datum)
                                      /\ sigs[a].addr = Message!ToAddr(sigs[a].sig.key)
  <2> SUFFICES ASSUME altered = 0
               PROVE  /\ all # {}
                      /\ \A a \in all : /\ Message!do_verify(Message!VerifyAddr(sigs[a]), sigs[a].sig, datum)
                                        /\ sigs[a].addr = Message!ToAddr(sigs[a].sig.key)
    OBVIOUS
  <2>1. /\ entries = {file.sigs[k] : k \in Wanted(job.addrs, file.sigs)} /\ Wanted(job.addrs, file.sigs) # {}
        /\ datum.message = job.message /\ datum.msghash_type = file.data.msghash_type
    BY <1>1, <1>2, <1>6 DEF AsExported
  <2>2. \A k \in Wanted(job.addrs, file.sigs) :
           k \in DOMAIN file.sigs /\ k.type \in MsgTypes /\ AsMade(file.sigs[k], k, job.message, file.data.msghash_type)
    BY <1>1 DEF Untouched, Wanted
  <2>3. \A a \in all : \E k \in Wanted(job.addrs, file.sigs) : sigs[a] = file.sigs[k]
    BY <1>4, <1>8, <2>1
  <2>4. all # {}
    <3>1. PICK k \in Wanted(job.addrs, file.sigs) : TRUE
      BY <2>1
    <3>2. file.sigs[k].addr = Message!ToAddr(k) /\ file.sigs[k] \in entries
      BY <2>1, <2>2 DEF AsMade
    <3>3. Message!ToAddr(k) \in addrs /\ (job.addrs = {} \/ k \in job.addrs)
      BY <1>2, <3>2 DEF Wanted
    <3> QED
      BY <1>4, <1>5, <3>3
  <2> QED
    <3> SUFFICES ASSUME NEW a \in all
                 PROVE  /\ Message!do_verify(Message!VerifyAddr(sigs[a]), sigs[a].sig, datum)
                        /\ sigs[a].addr = Message!ToAddr(sigs[a].sig.key)
      BY <2>4
    <3>1. PICK k \in Wanted(job.addrs, file.sigs) : sigs[a] = file.sigs[k]
      BY <2>3
    <3>2. PICK e, m, h : e = sigs[a] /\ m = job.message /\ h = file.data.msghash_type
      OBVIOUS
    <3>3. k.type \in MsgTypes /\ AsMade(e, k, m, h) /\ datum.message = m /\ datum.msghash_type = h
      BY <2>1, <2>2, <3>1, <3>2
    <3>4. PICK d : d = datum
      OBVIOUS
    <3>5. AsMade(e, k, m, d.msghash_type) /\ d.message = m
      BY <3>3, <3>4
    <3>6. Message!do_verify(Message!VerifyAddr(e), e.sig, d) /\ e.addr = Message!ToAddr(e.sig.key)
      BY <3>3, <3>5, UntouchedVerified
    <3> QED
      BY <3>2, <3>6, <3>4
<1>10. CASE all # {} /\ \A a \in all : Message!do_verify(Message!VerifyAddr(sigs[a]), sigs[a].sig, datum)
  <2>1. verified' = [sigs |-> [a \in all |-> sigs[a]], data |-> datum] /\ step' = "exit 0"
    BY <1>7, <1>10
  <2>2. \A a \in all : sigs[a].sig = Message!do_sign(Message!VerifyAddr(sigs[a])[2], job.message, datum.msghash_type)
    <3> SUFFICES ASSUME NEW a \in all
                 PROVE  sigs[a].sig = Message!do_sign(Message!VerifyAddr(sigs[a])[2], job.message, datum.msghash_type)
      OBVIOUS
    <3>1. PICK e, m : e = sigs[a] /\ m = job.message
      OBVIOUS
    <3>2. IsSig(e, m) /\ Message!do_verify(Message!VerifyAddr(e), e.sig, datum)
      BY <1>8, <1>10, <3>1
    <3>3. e.sig = Message!do_sign(Message!VerifyAddr(e)[2], m, datum.msghash_type)
      BY <3>2, GoodSig
    <3> QED
      BY <3>1, <3>3
  <2>3. Message!Verified'
    BY <1>1, <1>9, <2>1, <2>2 DEF Message!Verified
  <2> QED
    BY <2>1, <2>3 DEF MessageInv
<1>11. CASE ~(all # {} /\ \A a \in all : Message!do_verify(Message!VerifyAddr(sigs[a]), sigs[a].sig, datum))
  <2>1. verified' = <<>> /\ step' = "failed" /\ altered # 0
    BY <1>1, <1>7, <1>9, <1>11
  <2>2. Message!Verified'
    BY <1>1, <2>1 DEF Message!Verified
  <2> QED
    BY <2>1, <2>2 DEF MessageInv
<1> QED
  BY <1>10, <1>11

(* A signature with one field altered is still of the message it was of.   *)
LEMMA StillSig ==
    ASSUME NEW sigs, NEW m, AllSigs(sigs, m), NEW k \in DOMAIN sigs
    PROVE  /\ AllSigs([sigs EXCEPT ![k].sig.key.idx = 9], m)
           /\ AllSigs([sigs EXCEPT ![k].addr[2].idx = 9], m)
           /\ AllSigs([sigs EXCEPT ![k].addr_p2pkh = <<>>], m)
<1>1. PICK a, key, h, p, u : sigs[k] = [addr |-> a, sig |-> [key |-> key, message |-> m, hash |-> h], addr_p2pkh |-> p, pubhash |-> u]
  BY DEF AllSigs, IsSig
<1>2. ASSUME NEW e, IsSig(e, m) PROVE AllSigs([sigs EXCEPT ![k] = e], m)
  BY <1>2 DEF AllSigs
<1>3. /\ [sigs[k] EXCEPT !.sig.key.idx = 9] = [addr |-> a, sig |-> [key |-> [key EXCEPT !.idx = 9], message |-> m, hash |-> h], addr_p2pkh |-> p, pubhash |-> u]
      /\ [sigs[k] EXCEPT !.addr[2].idx = 9] = [addr |-> [a EXCEPT ![2].idx = 9], sig |-> [key |-> key, message |-> m, hash |-> h], addr_p2pkh |-> p, pubhash |-> u]
      /\ [sigs[k] EXCEPT !.addr_p2pkh = <<>>] = [addr |-> a, sig |-> [key |-> key, message |-> m, hash |-> h], addr_p2pkh |-> <<>>, pubhash |-> u]
  BY <1>1
<1>4. /\ IsSig([sigs[k] EXCEPT !.sig.key.idx = 9], m) /\ IsSig([sigs[k] EXCEPT !.addr[2].idx = 9], m)
      /\ IsSig([sigs[k] EXCEPT !.addr_p2pkh = <<>>], m)
  BY <1>3 DEF IsSig
<1>5. /\ [sigs EXCEPT ![k].sig.key.idx = 9] = [sigs EXCEPT ![k] = [sigs[k] EXCEPT !.sig.key.idx = 9]]
      /\ [sigs EXCEPT ![k].addr[2].idx = 9] = [sigs EXCEPT ![k] = [sigs[k] EXCEPT !.addr[2].idx = 9]]
      /\ [sigs EXCEPT ![k].addr_p2pkh = <<>>] = [sigs EXCEPT ![k] = [sigs[k] EXCEPT !.addr_p2pkh = <<>>]]
  OBVIOUS
<1> QED
  BY <1>2, <1>4, <1>5

LEMMA MessageAltered == ASSUME MessageInv, Message!Alter PROVE MessageInv'
<1>1. /\ step \in {"signed", "exported"} /\ altered' = 1 /\ UNCHANGED <<job, step, verified>> /\ verified = <<>>
      /\ IsFile(file) /\ AllSigs(file.sigs, job.message)
  BY DEF Message!Alter, MessageInv
<1>2. Message!Verified'
  BY <1>1 DEF Message!Verified
<1>3. CASE step = "exported"
  <2>1. file' = file /\ export' = [export EXCEPT !.message = "other"]
    BY <1>3 DEF Message!Alter
  <2>2. PICK g, h, n, ss : export = [message |-> g, msghash_type |-> h, network |-> n, signatures |-> ss]
    BY <1>3 DEF MessageInv
  <2>3. export' = [message |-> "other", msghash_type |-> h, network |-> n, signatures |-> ss]
    BY <2>1, <2>2
  <2>4. Entries(export') = Entries(export) /\ \A e \in Entries(export) : IsSig(e, job.message)
    BY <1>3, <2>2, <2>3 DEF Entries, MessageInv
  <2> QED
    BY <1>1, <1>2, <1>3, <2>1, <2>3, <2>4 DEF MessageInv
<1>4. CASE step = "signed"
  <2>1. IsFile(file') /\ AllSigs(file'.sigs, job.message)
    <3>1. PICK g, d, ss : file = [signed |-> g, data |-> d, sigs |-> ss]
      BY <1>1 DEF IsFile
    <3>2. CASE file' = [file EXCEPT !.data.message = "other"]
      <4>1. file' = [signed |-> g, data |-> [d EXCEPT !.message = "other"], sigs |-> ss]
        BY <3>1, <3>2
      <4> QED
        BY <1>1, <3>1, <4>1 DEF IsFile
    <3>3. CASE \E k \in DOMAIN file.sigs :
                 \/ file' = [file EXCEPT !.sigs[k].sig.key.idx = 9]
                 \/ file' = [file EXCEPT !.sigs[k].addr[2].idx = 9]
                 \/ file' = [file EXCEPT !.sigs[k].addr_p2pkh = <<>>]
      <4>1. PICK k \in DOMAIN ss :
                 \/ file' = [signed |-> g, data |-> d, sigs |-> [ss EXCEPT ![k].sig.key.idx = 9]]
                 \/ file' = [signed |-> g, data |-> d, sigs |-> [ss EXCEPT ![k].addr[2].idx = 9]]
                 \/ file' = [signed |-> g, data |-> d, sigs |-> [ss EXCEPT ![k].addr_p2pkh = <<>>]]
        BY <3>1, <3>3
      <4>2. AllSigs(ss, job.message)
        BY <1>1, <3>1
      <4> QED
        <5>1. PICK tt : tt = file'.sigs /\ file' = [signed |-> g, data |-> d, sigs |-> tt]
                        /\ tt \in {[ss EXCEPT ![k].sig.key.idx = 9], [ss EXCEPT ![k].addr[2].idx = 9], [ss EXCEPT ![k].addr_p2pkh = <<>>]}
          <6>1. CASE file' = [signed |-> g, data |-> d, sigs |-> [ss EXCEPT ![k].sig.key.idx = 9]]
            BY <6>1
          <6>2. CASE file' = [signed |-> g, data |-> d, sigs |-> [ss EXCEPT ![k].addr[2].idx = 9]]
            BY <6>2
          <6>3. CASE file' = [signed |-> g, data |-> d, sigs |-> [ss EXCEPT ![k].addr_p2pkh = <<>>]]
            BY <6>3
          <6> QED
            BY <4>1, <6>1, <6>2, <6>3
        <5>2. PICK m : m = job.message
          OBVIOUS
        <5>3. AllSigs(tt, m)
          <6>1. AllSigs(ss, m)
            BY <4>2, <5>2
          <6>2. /\ AllSigs([ss EXCEPT ![k].sig.key.idx = 9], m)
                /\ AllSigs([ss EXCEPT ![k].addr[2].idx = 9], m)
                /\ AllSigs([ss EXCEPT ![k].addr_p2pkh = <<>>], m)
            BY <6>1, StillSig
          <6>3. \/ tt = [ss EXCEPT ![k].sig.key.idx = 9]
                \/ tt = [ss EXCEPT ![k].addr[2].idx = 9]
                \/ tt = [ss EXCEPT ![k].addr_p2pkh = <<>>]
            BY <5>1
          <6> QED
            BY <6>2, <6>3
        <5> QED
          BY <5>1, <5>2, <5>3 DEF IsFile
    <3> QED
      BY <1>4, <3>2, <3>3 DEF Message!Alter
  <2> QED
    BY <1>1, <1>2, <1>4, <2>1 DEF MessageInv
<1> QED
  BY <1>1, <1>3, <1>4

LEMMA MessageStep == ASSUME MessageInv, [Message!Next]_Message!msgVars PROVE MessageInv'
<1>1. CASE UNCHANGED Message!msgVars
  <2>1. UNCHANGED <<job, step, file, export, verified, altered>>
    BY <1>1 DEF Message!msgVars
  <2>2. Message!Verified'
    BY <2>1 DEF MessageInv, Message!Verified, Message!get_sigs
  <2> QED
    BY <2>1, <2>2 DEF MessageInv
<1> QED
  BY <1>1, MessageMade, MessageSigned, MessageVerified, MessageExported, ExportVerified, MessageAltered DEF Message!Next

(* What is verified was signed, of the message that was to be signed, with *)
(* the key of the address it is verified against, and nothing that was not *)
(* altered fails (MsgSign's Verified): for any message, addresses and      *)
(* wallets, for a file and for what is exported of it, with any one field  *)
(* of theirs altered (MsgDict.verify and exported_sigs in mmgen/msg.py).   *)
THEOREM VerifiedWasSigned == Message!Spec => []Message!Verified
<1>1. Message!Init => MessageInv
  BY DEF Message!Init, MessageInv, Message!Verified
<1>2. MessageInv /\ [Message!Next]_Message!msgVars => MessageInv'
  BY MessageStep
<1> QED
  BY <1>1, <1>2, PTL DEF Message!Spec, MessageInv

LEMMA Lowest ==
    ASSUME NEW T, T \subseteq Nat, T # {}
    PROVE  \E m \in T : \A j \in T : m <= j
<1> DEFINE R == OpToRel(<, Nat)
<1>1. IsWellFoundedOn(R, Nat)
  BY NatLessThanWellFounded
<1>2. \A i \in Nat, j \in Nat : i < j => <<i, j>> \in R
  BY DEF OpToRel
<1> HIDE DEF R
<1>3. PICK m \in T : \A j \in T : <<j, m>> \notin R
  BY <1>1, WFMin
<1>4. \A j \in T : ~ (j < m)
  BY <1>2, <1>3
<1> QED
  BY <1>3, <1>4

(* Lists of addresses: there is one at least, and none is empty.           *)
InList(lists) ==
    /\ \E n \in Nat \ {0} : DOMAIN lists = 1 .. n
    /\ \A n \in DOMAIN lists : lists[n].idxs # {}

(* A Seed ID has one first place, and the first of all is looked at first. *)
LEMMA FirstPlace ==
    ASSUME NEW lists, InList(lists), NEW n \in DOMAIN lists
    PROVE  \E p \in Message!NoDups(lists) : lists[p].sid = lists[n].sid
<1> DEFINE T == {q \in DOMAIN lists : lists[q].sid = lists[n].sid}
<1>1. T \subseteq Nat /\ T # {}
  BY DEF InList
<1>2. PICK p \in T : \A j \in T : p <= j
  <2> HIDE DEF T
  <2> QED
    BY <1>1, Lowest
<1>3. \A q \in DOMAIN lists : q < p => lists[q].sid # lists[p].sid
  <2> SUFFICES ASSUME NEW q \in DOMAIN lists, q < p, lists[q].sid = lists[p].sid PROVE FALSE
    OBVIOUS
  <2>1. q \in T /\ p <= q /\ q \in Int /\ p \in Int
    BY <1>1, <1>2
  <2> QED
    BY <2>1
<1>4. p \in Message!NoDups(lists)
  BY <1>2, <1>3 DEF Message!NoDups
<1> QED
  BY <1>2, <1>4

LEMMA OnePlace ==
    ASSUME NEW lists, InList(lists), NEW p \in Message!NoDups(lists), NEW q \in Message!NoDups(lists), lists[p].sid = lists[q].sid
    PROVE  p = q
<1>1. p \in DOMAIN lists /\ q \in DOMAIN lists /\ p \in Int /\ q \in Int
  BY DEF Message!NoDups, InList
<1>2. ~(p < q) /\ ~(q < p)
  BY <1>1 DEF Message!NoDups
<1> QED
  BY <1>1, <1>2

LEMMA FirstLookedAt ==
    ASSUME NEW lists, InList(lists), NEW W, lists[1].sid \in W
    PROVE  1 \in Message!Removing(lists, Message!NoDups(lists), W)
<1> DEFINE need == Message!NoDups(lists)
           before == {k \in need : k <= 1 /\ \A i \in need : k <= i /\ i <= 1 => lists[i].sid \in W}
<1>1. need \subseteq DOMAIN lists /\ 1 \in DOMAIN lists /\ \A k \in DOMAIN lists : k \in Nat /\ k >= 1
  BY DEF Message!NoDups, InList
<1>2. 1 \in need
  BY <1>1 DEF Message!NoDups
<1> HIDE DEF need
<1>3. \A k \in need : k <= 1 => k = 1
  BY <1>1
<1>4. before = {1}
  BY <1>2, <1>3
<1>5. Message!Cardinality(before) = 1
  <2>1. Message!Cardinality(before) = Cardinality(before)
    BY DEF Message!Cardinality, Cardinality
  <2>2. Cardinality({1}) = 1
    BY FS_Singleton
  <2> QED
    BY <1>4, <2>1, <2>2
<1> HIDE DEF before
<1>6. Message!Cardinality(before) % 2 = 1
  BY <1>5
<1> QED
  BY <1>2, <1>6 DEF Message!Removing, before, need

(* Each list is signed for if its Seed ID was found, and told to have      *)
(* failed if it was not.                                                   *)
SignInv ==
    /\ job \in MsgJobs
    /\ step = "unsigned" => InList(file.data.addrlists)
    /\ Message!SignedOrFailed

LEMMA ListsMade == ASSUME Message!MsgAssumption, SignInv, Message!new PROVE SignInv'
<1>1. step = "create" /\ job' = job /\ step' \in {"unsigned", "refused"}
  BY DEF Message!new, Message!Ends
<1>2. ASSUME step' = "unsigned" PROVE InList(file'.data.addrlists)
  <2> DEFINE lists == [n \in DOMAIN job.specs |-> Message!MMGenIDRange(job.specs[n])]
  <2>1. file'.data.addrlists = lists
    <3>1. PICK hash, nw :
            file' = [signed |-> FALSE, sigs |-> <<>>,
                     data |-> [network |-> nw, addrlists |-> lists, message |-> job.message,
                               msghash_type |-> hash, failed_sids |-> {}]]
      BY <1>2 DEF Message!new, Message!Ends
    <3> HIDE DEF lists
    <3> QED
      BY <3>1
  <2>2. /\ Len(job.specs) \in Nat \ {0} /\ DOMAIN job.specs = 1 .. Len(job.specs)
        /\ \A n \in DOMAIN job.specs : DOMAIN job.specs[n] = {"sid", "type", "idxs"} /\ job.specs[n].idxs # {}
    BY DEF SignInv, Message!MsgAssumption
  <2>3. ASSUME NEW n \in DOMAIN job.specs PROVE lists[n].idxs # {}
    <3>1. lists[n].idxs = job.specs[n].idxs
      BY <2>2, <2>3 DEF Message!MMGenIDRange
    <3> QED
      BY <2>2, <3>1
  <2> QED
    BY <2>1, <2>2, <2>3 DEF InList
<1>3. Message!SignedOrFailed'
  BY <1>1 DEF Message!SignedOrFailed
<1> QED
  BY <1>1, <1>2, <1>3 DEF SignInv

LEMMA ListsSigned == ASSUME MessageInv, SignInv, Message!sign PROVE SignInv'
<1> DEFINE lists == file.data.addrlists
           need == Message!NoDups(lists)
           first == Message!Removing(lists, need, Message!WithWallet)
           second == Message!Removing(lists, need \ first, Message!WithSubseed)
           found == first \union second
           keysOf == UNION {Message!KeysOf(lists[n]) : n \in {p \in DOMAIN lists : lists[p].sid \in Message!Sids(lists, found)}}
           rest == Message!Sids(lists, need \ found)
<1>1. /\ step = "unsigned" /\ step' = "signed" /\ job' = job /\ InList(lists)
      /\ file' = [signed |-> TRUE, data |-> [file.data EXCEPT !.failed_sids = rest],
                  sigs |-> [key \in keysOf |-> Message!Entry(key, file.data)]]
  BY DEF Message!sign, Message!Ends, SignInv
<1>2. found \subseteq need
  BY DEF Message!Removing
<1>3. 1 \in DOMAIN lists /\ (lists[1].sid \in Message!WithWallet => 1 \in found)
  <2>1. 1 \in DOMAIN lists
    BY <1>1 DEF InList
  <2>2. lists[1].sid \in Message!WithWallet => 1 \in first
    BY <1>1, FirstLookedAt
  <2> QED
    BY <2>1, <2>2
<1> HIDE DEF first, second, found
<1>4. file'.data.addrlists = lists /\ file'.data.failed_sids = rest /\ DOMAIN file'.sigs = keysOf
  <2>1. PICK n, l, m, h, f : file.data = [network |-> n, addrlists |-> l, message |-> m, msghash_type |-> h, failed_sids |-> f]
    BY <1>1 DEF MessageInv, IsData
  <2>2. PICK r : r = rest
    OBVIOUS
  <2>3. [file.data EXCEPT !.failed_sids = r] = [network |-> n, addrlists |-> l, message |-> m, msghash_type |-> h, failed_sids |-> r]
    BY <2>1
  <2> HIDE DEF keysOf, rest
  <2>4. PICK datum : datum = [file.data EXCEPT !.failed_sids = r]
    OBVIOUS
  <2>5. file' = [signed |-> TRUE, data |-> datum, sigs |-> [key \in keysOf |-> Message!Entry(key, file.data)]]
    BY <1>1, <2>2, <2>4
  <2>6. file'.data = datum /\ DOMAIN file'.sigs = keysOf
    BY <2>5
  <2> QED
    BY <2>1, <2>2, <2>3, <2>4, <2>6 DEF lists
<1>5. ASSUME NEW n \in DOMAIN lists
      PROVE  IF lists[n].sid \in rest THEN Message!KeysOf(lists[n]) \intersect keysOf = {} ELSE Message!KeysOf(lists[n]) \subseteq keysOf
  <2>1. PICK p \in need : lists[p].sid = lists[n].sid
    BY <1>1, FirstPlace
  <2>2. CASE p \in found
    <3>1. lists[n].sid \in Message!Sids(lists, found)
      BY <2>1, <2>2 DEF Message!Sids
    <3>2. lists[n].sid \notin rest
      <4> SUFFICES ASSUME NEW q \in need \ found, lists[q].sid = lists[n].sid PROVE FALSE
        BY DEF Message!Sids
      <4> QED
        BY <1>1, <2>1, <2>2, OnePlace
    <3> QED
      BY <3>1, <3>2
  <2>3. CASE p \notin found
    <3>1. lists[n].sid \in rest
      BY <2>1, <2>3 DEF Message!Sids
    <3>2. lists[n].sid \notin Message!Sids(lists, found)
      <4> SUFFICES ASSUME NEW q \in found, lists[q].sid = lists[n].sid PROVE FALSE
        BY DEF Message!Sids
      <4> QED
        BY <1>1, <1>2, <2>1, <2>3, OnePlace
    <3>3. \A m \in DOMAIN lists : \A key \in Message!KeysOf(lists[m]) : key.sid = lists[m].sid
      BY DEF Message!KeysOf
    <3> QED
      BY <3>1, <3>2, <3>3
  <2> QED
    BY <2>2, <2>3
<1>6. keysOf = {} => lists[1].sid \notin Message!WithWallet
  <2> SUFFICES ASSUME lists[1].sid \in Message!WithWallet PROVE keysOf # {}
    OBVIOUS
  <2>1. lists[1].sid \in Message!Sids(lists, found)
    BY <1>3 DEF Message!Sids
  <2>2. PICK key : key \in Message!KeysOf(lists[1])
    BY <1>1, <1>3 DEF Message!KeysOf, InList
  <2> QED
    BY <1>3, <2>1, <2>2
<1>7. Message!WithWallet' = Message!WithWallet
  BY <1>1 DEF Message!WithWallet
<1> HIDE DEF lists, rest, keysOf
<1>8. Message!SignedOrFailed'
  BY <1>4, <1>5, <1>6, <1>7 DEF Message!SignedOrFailed
<1> QED
  BY <1>1, <1>8 DEF SignInv

LEMMA ListsKept ==
    ASSUME SignInv, job' = job,
           \/ step' \notin {"unsigned", "signed"}
           \/ altered' = 1 /\ step' # "unsigned"
           \/ UNCHANGED <<step, file, altered>>
    PROVE  SignInv'
<1>1. Message!SignedOrFailed'
  BY DEF SignInv, Message!SignedOrFailed, Message!WithWallet
<1> QED
  BY <1>1 DEF SignInv

LEMMA SignStep == ASSUME Message!MsgAssumption, MessageInv, SignInv, [Message!Next]_Message!msgVars PROVE SignInv'
<1>1. CASE UNCHANGED Message!msgVars
  BY <1>1, ListsKept DEF Message!msgVars
<1>2. CASE Message!verify
  BY <1>2, ListsKept DEF Message!verify, Message!Verify, Message!Ends
<1>3. CASE Message!get_json_for_export
  BY <1>3, ListsKept DEF Message!get_json_for_export, Message!Ends
<1>4. CASE Message!exported_sigs
  BY <1>4, ListsKept DEF Message!exported_sigs, Message!Ends
<1>5. CASE Message!Alter
  BY <1>5, ListsKept DEF Message!Alter
<1> QED
  BY <1>1, <1>2, <1>3, <1>4, <1>5, ListsMade, ListsSigned DEF Message!Next

(* Nor is an address left out in silence: those of every Seed ID are all   *)
(* signed for, or the Seed ID is told to have failed and none is; and the  *)
(* first Seed ID whose wallet is given is signed for (MsgSign's            *)
(* SignedOrFailed), for any lists of addresses and any wallets, and though *)
(* the loop over the Seed IDs skips some (coin_msg.unsigned.sign).         *)
THEOREM MessagesRight == ASSUME Message!MsgAssumption PROVE Message!Spec => []Message!MsgRight
<1>1. Message!Init => MessageInv /\ SignInv
  BY DEF Message!Init, MessageInv, Message!Verified, SignInv, Message!SignedOrFailed
<1>2. MessageInv /\ SignInv /\ [Message!Next]_Message!msgVars => (MessageInv /\ SignInv)'
  BY MessageStep, SignStep
<1>3. MessageInv /\ SignInv => Message!MsgRight
  BY DEF MessageInv, SignInv, Message!MsgRight
<1> QED
  BY <1>1, <1>2, <1>3, PTL DEF Message!Spec

LEMMA HostedKeys == MCSpec => [](subject = "sign" => Keys!SignedIsVerified /\ Keys!AutosignRefusesOnly)
<1> DEFINE Here == subject = "sign"
<1>1. MCInit /\ Here => Keys!Init
  BY DEF MCInit
<1>2. [MCNext \/ ProgramEnded]_allVars /\ Here => Here' /\ [Keys!Next]_(Keys!vars)
  BY DEF MCNext, ProgramEnded, allVars, keyVars
<1>3. [MCNext \/ ProgramEnded]_allVars /\ ~Here => ~Here'
  BY DEF MCNext, ProgramEnded, allVars
<1>4. Keys!Spec => []Keys!SignedIsVerified
  BY SignsTheVerified
<1>5. Keys!Spec => []Keys!AutosignRefusesOnly
  BY RefusedForAReason, SigningConstants
<1> QED
  BY <1>1, <1>2, <1>3, <1>4, <1>5, PTL DEF MCSpec, Keys!Spec

LEMMA HostedSetup == MCSpec => [](subject = "setup" => Setup!SetupRight)
<1> DEFINE Here == subject = "setup"
<1>1. MCInit /\ Here => Setup!Init
  BY DEF MCInit
<1>2. [MCNext \/ ProgramEnded]_allVars /\ Here => Here' /\ [Setup!Next]_(Setup!setupVars)
  BY DEF MCNext, ProgramEnded, allVars, setupVars
<1>3. [MCNext \/ ProgramEnded]_allVars /\ ~Here => ~Here'
  BY DEF MCNext, ProgramEnded, allVars
<1>4. PICK D : Devices = {D} /\ Setup!SetupAssumption
  BY SetupConstants
<1>5. /\ Setup!Spec => []Setup!SetupIsReady
      /\ Setup!Spec => []Setup!NeverSwapped
      /\ Setup!Spec => []Setup!SignedByOne
      /\ Setup!Spec => []Setup!WipedIsGone
  BY <1>4, ReadyIsReady, NothingSwapped, SignedWithOne, WipedForGood
<1>6. Setup!SetupIsReady /\ Setup!NeverSwapped /\ Setup!SignedByOne /\ Setup!WipedIsGone => Setup!SetupRight
  BY DEF Setup!SetupRight
<1> QED
  BY <1>1, <1>2, <1>3, <1>5, <1>6, PTL DEF MCSpec, Setup!Spec

LEMMA HostedMessages == MCSpec => [](subject = "message" => Message!MsgRight)
<1> DEFINE Here == subject = "message"
<1>1. MCInit /\ Here => Message!Init
  BY DEF MCInit
<1>2. [MCNext \/ ProgramEnded]_allVars /\ Here => Here' /\ [Message!Next]_(Message!msgVars)
  BY DEF MCNext, ProgramEnded, allVars, otherVars, Message!msgVars
<1>3. [MCNext \/ ProgramEnded]_allVars /\ ~Here => ~Here'
  BY DEF MCNext, ProgramEnded, allVars
<1>4. Message!Spec => []Message!MsgRight
  BY MessagesRight, MessageConstants
<1> QED
  BY <1>1, <1>2, <1>3, <1>4, PTL DEF MCSpec, Message!Spec

(* The same of signing as the run composes it, for any transactions,       *)
(* messages and wallets, and one device.                                   *)
THEOREM SigningAlwaysRight == MCSpec => []SignedRight
<1>1. /\ subject = "sign" => Keys!SignedIsVerified /\ Keys!AutosignRefusesOnly
      /\ subject = "setup" => Setup!SetupRight
      /\ subject = "message" => Message!MsgRight
      => SignedRight
  BY DEF SignedRight
<1> QED
  BY <1>1, HostedKeys, HostedSetup, HostedMessages, PTL
=============================================================================
