--------------------------- MODULE TwStore_proofs ---------------------------
(***************************************************************************)
(* Theorems of TwStore, for any number of processes, addresses, IDs and    *)
(* operations: what the check before each write achieves; of TwDump, what  *)
(* an import restores; of TwView, what the numbers of the list name and    *)
(* what pruning marks; and of CoinDaemons, what the commands that use the  *)
(* coin daemon at a time leave, and that one left alone never fails.       *)
(***************************************************************************)
EXTENDS MCTrackingWallet, FiniteSetTheorems, SequenceTheorems, TLAPS

USE DEF vars

SameId(e, f) == e # None /\ f # None /\ e.mmid \in Ids => f.mmid = e.mmid

(* How the copy of a running process relates to the text it was read from: *)
(* only its own entries differ, no ID is replaced, and a removal has been  *)
(* written by the time the next operation runs.                            *)
Derived(r) ==
  /\ r.orig \in Wallet =>
       /\ \A a \in Addrs \ r.mine : r.data.book[a] = r.orig.book[a]
       /\ \A a \in Addrs : SameId(r.orig.book[a], r.data.book[a])
  /\ r.pc = "ready" =>
       /\ r.orig \in Wallet /\ ~r.forced
       /\ \A a \in Addrs : r.orig.book[a] # None => r.data.book[a] # None
  /\ r.pc = "stat" => r.orig = Empty /\ r.data = InitEmpty /\ r.mine = {}
  /\ r.mode = "r" /\ (r.forced \/ r.pc \in {"check", "truncate", "put"}) => r.mine = {}
  /\ r.orig = Empty /\ r.mine = {} => r.data.book = NoBook

Fine(r) == r \in Object /\ (r.pc # "off" => Derived(r))

(* The file while no two writes overlap and none is cut short.             *)
OneWriter == \A p, q \in Procs : Writing(p) /\ Writing(q) => p = q
Complete == (\A p \in Procs : w[p].pc # "put") => file = (IF base = None THEN NoFile ELSE base)

StoreInv ==
  /\ TypeOK
  /\ \A p \in Procs : Fine(w[p])
  /\ Sound => OneWriter /\ Complete
  /\ CheckedBase

LEMMA OffFine ==
  ASSUME NEW o \in {"ok", "error", "killed"}
  PROVE Fine(Off(o)) /\ Off(o).pc = "off"
BY TwConstants DEF Fine, Off, Object, InitEmpty, NoBook, Current, Book

LEMMA FailFine ==
  ASSUME NEW r, Fine(r), r.pc # "off"
  PROVE Fine(Fail(r)) /\ Fail(r).pc \in {"off", "closing"}
<1>1. CASE r.next = "off" BY <1>1, OffFine DEF Fail
<1>2. CASE r.next # "off" BY <1>2 DEF Fail, Fine, Object, Derived
<1> QED BY <1>1, <1>2

(* A write starts from a copy that is fine but for the removals that it is *)
(* about to write.                                                         *)
LEMMA WriteFine ==
  ASSUME NEW r \in Object, NEW n \in {"ready", "off"}, r.pc # "off",
         Derived([r EXCEPT !.pc = "check"]),
         r.data = r.orig => n = "ready" /\ ~r.forced
  PROVE Fine(Write(r, n)) /\ Write(r, n).pc \in {"ready", "check"}
<1>1. CASE r.data # r.orig
  <2>1. Write(r, n) = [r EXCEPT !.pc = "check", !.next = n] BY <1>1 DEF Write
  <2>2. Write(r, n) \in Object BY <2>1 DEF Object
  <2>3. Derived(Write(r, n)) BY <2>1 DEF Object, Derived
  <2> QED BY <2>1, <2>2, <2>3 DEF Fine, Object
<1>2. CASE r.data = r.orig
  <2>1. Write(r, n) = [r EXCEPT !.pc = "ready"] BY <1>2 DEF Write
  <2>2. r.orig \in Wallet BY <1>2 DEF Object, Current, Wallet
  <2> QED BY <1>2, <2>1, <2>2 DEF Fine, Object, Derived
<1> QED BY <1>1, <1>2

(* A step of one process that neither enters nor leaves a write.           *)
LEMMA LocalStep ==
  ASSUME StoreInv, NEW p \in Procs, NEW r, Fine(r),
         w' = [w EXCEPT ![p] = r], ~Writing(p), r.pc \notin Window,
         runs' \in 0 .. MaxRuns, UNCHANGED <<file, base, raced, broke>>
  PROVE StoreInv'
<1> USE DEF StoreInv
<1>1. \A q \in Procs : Fine(w'[q]) BY DEF TypeOK
<1>2. TypeOK' BY <1>1 DEF TypeOK, Fine
<1>3. \A q \in Procs : (Writing(q)' <=> Writing(q)) /\ (Writing(q) => w'[q] = w[q])
                       /\ (w'[q].pc = "put" <=> w[q].pc = "put")
  BY DEF TypeOK, Writing, Window
<1>4. (Sound => OneWriter /\ Complete)' BY <1>3 DEF Sound, OneWriter, Complete
<1>5. CheckedBase' BY <1>3 DEF Sound, CheckedBase
<1> QED BY <1>1, <1>2, <1>4, <1>5

(* An operation on one entry keeps the copy fine, and if it removes the    *)
(* entry, ready to be written.                                             *)
LEMMA SetFine ==
  ASSUME NEW r, Fine(r), r.pc = "ready", r.ops < MaxOps,
         NEW a \in Addrs, NEW e \in Entry \cup {None}, SameId(r.data.book[a], e)
  PROVE /\ Set(r, a, e) \in Object /\ Set(r, a, e).pc = "ready"
        /\ r.mode = "w" => Derived([Set(r, a, e) EXCEPT !.pc = "check"])
        /\ e # None => Fine(Set(r, a, e))
        /\ ~Set(r, a, e).forced
<1> DEFINE s == Set(r, a, e)
<1>0. r \in Object /\ Derived(r) BY DEF Fine
<1>1. s \in Object
  <2>1. [r.data EXCEPT !.book[a] = e] \in Current BY <1>0 DEF Object, Current, Book
  <2>2. r.ops + 1 \in 0 .. MaxOps BY <1>0, TwConstants DEF Object
  <2> QED BY <1>0, <2>1, <2>2 DEF Set, Object
<1>2. s.pc = "ready" /\ s.mode = r.mode /\ s.orig = r.orig /\ s.mine = r.mine \cup {a} /\ ~s.forced
  BY <1>0 DEF Set, Object, Derived
<1>3. s.data.book = [r.data.book EXCEPT ![a] = e] BY <1>0 DEF Set, Object, Current
<1>4. r.data.book \in Book /\ r.orig \in Wallet /\ r.orig.book \in Book
  BY <1>0 DEF Object, Current, Derived, Wallet
<1>5. ASSUME NEW b \in Addrs
      PROVE /\ b \notin s.mine => s.data.book[b] = r.orig.book[b]
            /\ SameId(r.orig.book[b], s.data.book[b])
            /\ e # None /\ r.orig.book[b] # None => s.data.book[b] # None
  <2>1. /\ b \notin r.mine => r.data.book[b] = r.orig.book[b]
        /\ SameId(r.orig.book[b], r.data.book[b])
        /\ r.orig.book[b] # None => r.data.book[b] # None
    BY <1>0, <1>4 DEF Derived
  <2>2. CASE b = a BY <2>1, <2>2, <1>2, <1>3, <1>4 DEF Book, SameId
  <2>3. CASE b # a BY <2>1, <2>3, <1>2, <1>3, <1>4 DEF Book
  <2> QED BY <2>2, <2>3
<1>6. r.orig # Empty BY <1>4, TwConstants
<1>7. r.mode = "w" => Derived([s EXCEPT !.pc = "check"])
  BY <1>1, <1>2, <1>4, <1>5, <1>6 DEF Derived, Object
<1>8. e # None => Derived(s) BY <1>1, <1>2, <1>4, <1>5, <1>6 DEF Derived, Object
<1> QED BY <1>1, <1>2, <1>7, <1>8 DEF Fine

(* One operation after the other.                                          *)
LEMMA ImportKeeps ==
  ASSUME StoreInv, NEW p \in Procs, NEW a \in Addrs, NEW i \in Ids \cup {Plain},
         NEW c \in Comments, ImportAddress(p, a, i, c)
  PROVE StoreInv'
<1> DEFINE r == w[p]  e == w[p].data.book[a]
           s == [e EXCEPT !.mmid = i, !.comment = IF c = "" THEN @ ELSE c]
<1>1. /\ Fine(r) /\ r.pc = "ready" /\ r.ops < MaxOps /\ ~Writing(p)
      /\ runs' \in 0 .. MaxRuns /\ UNCHANGED <<file, base, raced, broke>>
      /\ e \in Entry \cup {None}
  BY DEF StoreInv, TypeOK, ImportAddress, WriteMode, Ready, Writing, Window, Step, Fine, Object,
         Current, Book
<1>2. CASE e = None
  <2> DEFINE n == [mmid |-> i, comment |-> c, bal |-> 0]
  <2>1. n \in Entry /\ SameId(e, n) /\ n # None BY <1>2, TwConstants DEF Entry, Balances, SameId
  <2>2. Fine(Set(r, a, n)) /\ Set(r, a, n).pc = "ready" BY <1>1, <2>1, SetFine
  <2>3. w' = [w EXCEPT ![p] = Set(r, a, n)] BY <1>2 DEF ImportAddress, Step
  <2> QED BY <1>1, <2>2, <2>3, LocalStep DEF Window
<1>3. CASE e # None /\ Conflict(e, i)
  <2>1. Fine(Fail(r)) /\ Fail(r).pc \notin Window BY <1>1, FailFine DEF Window
  <2>2. w' = [w EXCEPT ![p] = Fail(r)] BY <1>3 DEF ImportAddress, Step
  <2> QED BY <1>1, <2>1, <2>2, LocalStep
<1>4. CASE e # None /\ ~Conflict(e, i)
  <2>1. s \in Entry BY <1>1, <1>4 DEF Entry, Comments
  <2>2. SameId(e, s) /\ s # None
    BY <1>1, <1>4, <2>1, TwConstants DEF SameId, Conflict, Entry
  <2>3. Fine(Set(r, a, s)) /\ Set(r, a, s).pc = "ready" BY <1>1, <2>1, <2>2, SetFine
  <2>4. w' = [w EXCEPT ![p] = Set(r, a, s)] BY <1>4 DEF ImportAddress, Step
  <2> QED BY <1>1, <2>3, <2>4, LocalStep DEF Window
<1> QED BY <1>2, <1>3, <1>4

(* Operations that write at once.                                          *)
LEMMA WritingOpKeeps ==
  ASSUME StoreInv, NEW p \in Procs, NEW a \in Addrs, NEW e \in Entry \cup {None},
         WriteMode(p), SameId(w[p].data.book[a], e), Step(p, Write(Set(w[p], a, e), "ready"))
  PROVE StoreInv'
<1> DEFINE r == w[p]  s == Set(r, a, e)
<1>1. /\ Fine(r) /\ r.pc = "ready" /\ r.mode = "w" /\ r.ops < MaxOps /\ ~Writing(p)
      /\ runs' \in 0 .. MaxRuns /\ UNCHANGED <<file, base, raced, broke>>
  BY DEF StoreInv, TypeOK, WriteMode, Ready, Writing, Window, Step
<1>2. s \in Object /\ s.pc = "ready" /\ ~s.forced /\ Derived([s EXCEPT !.pc = "check"])
  BY <1>1, SetFine
<1>3. Fine(Write(s, "ready")) /\ Write(s, "ready").pc \notin Window
  BY <1>2, WriteFine DEF Window
<1>4. w' = [w EXCEPT ![p] = Write(s, "ready")] BY DEF Step
<1> QED BY <1>1, <1>3, <1>4, LocalStep

LEMMA RemoveKeeps ==
  ASSUME StoreInv, NEW p \in Procs, NEW a \in Addrs, RemoveAddress(p, a)
  PROVE StoreInv'
BY WritingOpKeeps DEF RemoveAddress, SameId

LEMMA LabelKeeps ==
  ASSUME StoreInv, NEW p \in Procs, NEW a \in Addrs, NEW c \in Comments, SetLabel(p, a, c)
  PROVE StoreInv'
<1> DEFINE e == w[p].data.book[a]  s == [e EXCEPT !.comment = c]
<1>1. e \in Entry
  BY DEF StoreInv, Fine, Object, Current, Book, SetLabel
<1>2. s \in Entry /\ SameId(e, s) BY <1>1 DEF Entry, SameId
<1> QED BY <1>2, WritingOpKeeps DEF SetLabel

LEMMA DumpKeeps ==
  ASSUME StoreInv, NEW p \in Procs, NEW a \in Addrs, NEW i \in Ids, LoadDump(p, a, i)
  PROVE StoreInv'
<1> DEFINE s == [mmid |-> i, comment |-> "", bal |-> 1]
<1>1. s \in Entry BY DEF Entry, Comments, Balances
<1>2. w[p].data.book[a] = None BY DEF LoadDump, NoBook
<1> QED BY <1>1, <1>2, WritingOpKeeps DEF LoadDump, SameId

LEMMA CacheFine ==
  ASSUME NEW r, Fine(r), r.pc = "ready", r.ops < MaxOps,
         NEW a \in Addrs, r.data.book[a] # None, NEW b \in Balances
  PROVE /\ Fine(CacheBalance(r, a, b)) /\ CacheBalance(r, a, b).pc = "ready"
<1> DEFINE e == [r.data.book[a] EXCEPT !.bal = b]  s == Set(r, a, e)
<1>1. e \in Entry /\ SameId(r.data.book[a], e) /\ e # None
  BY TwConstants DEF Fine, Object, Current, Book, Entry, SameId
<1>2. Fine(s) /\ s.pc = "ready" BY <1>1, SetFine
<1>3. CASE a \in r.sess BY <1>3 DEF CacheBalance
<1>4. CASE a \notin r.sess
  <2>1. CacheBalance(r, a, b) = [s EXCEPT !.sess = @ \cup {a}] BY <1>4 DEF CacheBalance
  <2>2. [s EXCEPT !.sess = @ \cup {a}] \in Object BY <1>2 DEF Fine, Object
  <2>3. Derived([s EXCEPT !.sess = @ \cup {a}]) BY <1>2 DEF Fine, Object, Derived
  <2> QED BY <1>2, <2>1, <2>2, <2>3 DEF Fine, Object
<1> QED BY <1>3, <1>4

LEMMA BalanceKeeps ==
  ASSUME StoreInv, NEW p \in Procs, NEW a \in Addrs, NEW b \in Balances,
         GetBalance(p, a, b) \/ Refresh(p, a, b)
  PROVE StoreInv'
<1> DEFINE r == w[p]  s == CacheBalance(r, a, b)
           t == [s EXCEPT !.ops = r.ops + 1, !.shown = <<a, b>>]
<1>1. /\ Fine(r) /\ r.pc = "ready" /\ r.ops < MaxOps /\ ~Writing(p) /\ r.data.book[a] # None
      /\ runs' \in 0 .. MaxRuns /\ UNCHANGED <<file, base, raced, broke>>
  BY DEF StoreInv, TypeOK, WriteMode, Ready, Writing, Window, Step, GetBalance, Refresh
<1>2. Fine(s) /\ s.pc = "ready" BY <1>1, CacheFine
<1>3. CASE GetBalance(p, a, b)
  BY <1>1, <1>2, <1>3, LocalStep DEF GetBalance, Step, Window
<1>4. CASE Refresh(p, a, b)
  <2>1. r.ops + 1 \in 0 .. MaxOps BY <1>1, TwConstants DEF Fine, Object
  <2>2. t \in Object BY <1>2, <2>1 DEF Fine, Object
  <2>3. t.pc = "ready" /\ Derived(t) BY <1>2 DEF Fine, Object, Derived
  <2> QED BY <1>1, <1>4, <2>2, <2>3, LocalStep DEF Refresh, Step, Window, Fine
<1> QED BY <1>3, <1>4

LEMMA OperateKeeps ==
  ASSUME StoreInv, NEW p \in Procs, Operate(p) PROVE StoreInv'
BY ImportKeeps, RemoveKeeps, LabelKeeps, DumpKeeps, BalanceKeeps DEF Operate

(* Opening and closing.                                                    *)
LEMMA OpenedFine ==
  ASSUME NEW m \in {"r", "w"}, NEW f \in Wallet
  PROVE Fine(Loaded(Opened(m), f)) /\ Loaded(Opened(m), f).pc \in {"ready", "check"}
<1> DEFINE s == [Opened(m) EXCEPT !.orig = f, !.data = [f EXCEPT !.version = "new"]]
           t == [s EXCEPT !.forced = (f.version = "old")]
<1>1. f.version \in {"old", "new"} /\ f.book \in Book BY DEF Wallet
<1>2. t \in Object
  <2>1. Off("ok") \in Object BY OffFine DEF Fine
  <2>2. [f EXCEPT !.version = "new"] \in Current BY <1>1 DEF Wallet, Current
  <2>3. Opened(m) \in Object BY <2>1 DEF Opened, Object
  <2> QED BY <2>2, <2>3 DEF Object
<1>3. /\ t.pc = "ready" /\ t.orig = f /\ t.data.book = f.book /\ t.mine = {}
      /\ t.data.version = "new" /\ t.forced = (f.version = "old")
  BY <1>1 DEF Opened, Off, Wallet
<1>4. Derived([t EXCEPT !.pc = "check"])
  BY <1>2, <1>3, TwConstants DEF Derived, Object, SameId
<1>5. t.data = t.orig => ~t.forced BY <1>3
<1>6. Fine(Write(t, "ready")) /\ Write(t, "ready").pc \in {"ready", "check"}
  BY <1>2, <1>3, <1>4, <1>5, WriteFine
<1> QED BY <1>6 DEF Loaded

LEMMA OpenKeeps ==
  ASSUME StoreInv, NEW p \in Procs, NEW m \in {"r", "w"}, Open(p, m) PROVE StoreInv'
<1>1. /\ w[p].pc = "off" /\ ~Writing(p) /\ runs' \in 0 .. MaxRuns
      /\ UNCHANGED <<file, base, raced, broke>>
  BY TwConstants DEF StoreInv, TypeOK, Open, Writing, Window
<1>2. CASE file = NoFile
  <2> DEFINE s == [Opened(m) EXCEPT !.pc = "stat"]
  <2>1. s \in Object
    <3>1. Off("ok") \in Object BY OffFine DEF Fine
    <3> QED BY <3>1 DEF Opened, Object
  <2>2. Derived(s) /\ s.pc = "stat"
    BY TwConstants DEF Opened, Off, Derived, InitEmpty
  <2>3. w' = [w EXCEPT ![p] = s] BY <1>2, TwConstants DEF Open
  <2> QED BY <1>1, <2>1, <2>2, <2>3, LocalStep DEF Fine, Window
<1>3. CASE file \in {Empty, Garbage}
  <2>1. w' = [w EXCEPT ![p] = Off("error")] BY <1>3, TwConstants DEF Open
  <2> QED BY <1>1, <2>1, OffFine, LocalStep DEF Window
<1>4. CASE file \in Wallet
  <2>1. w' = [w EXCEPT ![p] = Loaded(Opened(m), file)] BY <1>4, TwConstants DEF Open
  <2> QED BY <1>1, <1>4, <2>1, OpenedFine, LocalStep DEF Window
<1> QED BY <1>2, <1>3, <1>4 DEF StoreInv, TypeOK

LEMMA StatKeeps ==
  ASSUME StoreInv, NEW p \in Procs, Stat(p) PROVE StoreInv'
<1> DEFINE r == w[p]  s == [r EXCEPT !.forced = TRUE]
<1>1. /\ Fine(r) /\ r.pc = "stat" /\ ~Writing(p) /\ runs' \in 0 .. MaxRuns
      /\ UNCHANGED <<file, base, raced, broke>>
  BY DEF StoreInv, TypeOK, Stat, Writing, Window
<1>2. CASE file = NoFile
  <2>1. s \in Object /\ s.pc = "stat" BY <1>1 DEF Fine, Object
  <2>2. /\ r.orig = Empty /\ r.data = InitEmpty /\ r.mine = {}
        /\ s.orig = Empty /\ s.data = InitEmpty /\ s.mine = {}
    BY <1>1 DEF Fine, Object, Derived
  <2>3. s.data # s.orig
    <3>1. InitEmpty \in Wallet BY DEF InitEmpty, Wallet, NoBook, Book
    <3> QED BY <2>2, <3>1, TwConstants
  <2>4. Derived([s EXCEPT !.pc = "check"])
    BY <2>1, <2>2, TwConstants DEF Derived, Object, InitEmpty
  <2>5. Fine(Write(s, "ready")) /\ Write(s, "ready").pc \notin Window
    BY <2>1, <2>3, <2>4, WriteFine DEF Window
  <2> QED BY <1>1, <1>2, <2>5, LocalStep DEF Stat
<1>3. CASE file # NoFile
  BY <1>1, <1>3, OffFine, LocalStep DEF Stat, Window
<1> QED BY <1>2, <1>3

LEMMA ExitKeeps ==
  ASSUME StoreInv, NEW p \in Procs, Exit(p) PROVE StoreInv'
<1> DEFINE s == [w[p] EXCEPT !.pc = "closing", !.shown = None]
<1>1. /\ Fine(w[p]) /\ w[p].pc = "ready" /\ ~Writing(p) /\ runs' \in 0 .. MaxRuns
      /\ UNCHANGED <<file, base, raced, broke>>
  BY DEF StoreInv, TypeOK, Exit, Writing, Window
<1>2. s \in Object /\ s.pc = "closing" BY <1>1 DEF Fine, Object
<1>3. Derived(s) BY <1>1 DEF Fine, Object, Derived
<1> QED BY <1>1, <1>2, <1>3, LocalStep DEF Exit, Fine, Window

LEMMA CloseKeeps ==
  ASSUME StoreInv, NEW p \in Procs, Close(p) PROVE StoreInv'
<1> DEFINE r == w[p]
<1>1. /\ Fine(r) /\ r.pc = "closing" /\ ~Writing(p) /\ runs' \in 0 .. MaxRuns
      /\ w' = [w EXCEPT ![p] = End(r)] /\ UNCHANGED <<file, base, raced, broke>>
  BY DEF StoreInv, TypeOK, Close, Writing, Window
<1>2. CASE WritesAtEnd(r) /\ r.data # r.orig
  <2>1. r.mode = "r" => r.mine = {}
    BY <1>1, <1>2 DEF WritesAtEnd, Fine, Object, Derived
  <2>2. Derived([r EXCEPT !.pc = "check"]) BY <1>1, <2>1 DEF Fine, Object, Derived
  <2>3. Fine(Write(r, "off")) /\ Write(r, "off").pc \notin Window
    BY <1>1, <1>2, <2>2, WriteFine DEF Window, Fine
  <2> QED BY <1>1, <1>2, <2>3, LocalStep DEF End
<1>3. CASE ~(WritesAtEnd(r) /\ r.data # r.orig)
  BY <1>1, <1>3, OffFine, LocalStep DEF End, Window
<1> QED BY <1>2, <1>3

(* A step that does not enter a write and moves no other process, when the *)
(* write it may leave is lost.                                             *)
LEMMA KillKeeps ==
  ASSUME StoreInv, NEW p \in Procs, Kill(p) PROVE StoreInv'
<1> USE DEF StoreInv
<1>1. w' = [w EXCEPT ![p] = Off("killed")] /\ Fine(Off("killed")) /\ Off("killed").pc = "off"
  BY OffFine DEF Kill
<1>2. \A q \in Procs : Fine(w'[q]) BY <1>1 DEF TypeOK
<1>3. TypeOK' BY <1>2 DEF TypeOK, Fine, Kill
<1>4. \A q \in Procs : Writing(q)' => Writing(q) /\ w'[q] = w[q]
  BY <1>1 DEF TypeOK, Writing, Window
<1>5. (Sound => OneWriter /\ Complete)'
  <2> SUFFICES ASSUME Sound' PROVE OneWriter' /\ Complete' OBVIOUS
  <2>1. Sound /\ w[p].pc # "put" BY DEF Sound, Kill
  <2>2. \A q \in Procs : w'[q].pc = "put" <=> w[q].pc = "put" BY <1>1, <2>1 DEF TypeOK
  <2> QED BY <1>4, <2>1, <2>2 DEF OneWriter, Complete, Kill
<1>6. CheckedBase' BY <1>4 DEF CheckedBase, Sound, Kill
<1> QED BY <1>2, <1>3, <1>5, <1>6

LEMMA PutFailsKeeps ==
  ASSUME StoreInv, NEW p \in Procs, PutFails(p) PROVE StoreInv'
<1> USE DEF StoreInv
<1>1. Fine(Fail(w[p])) BY FailFine DEF PutFails
<1>2. \A q \in Procs : Fine(w'[q]) BY <1>1 DEF TypeOK, PutFails
<1>3. TypeOK' BY <1>2 DEF TypeOK, Fine, PutFails
<1>4. ~Sound' BY DEF Sound, PutFails
<1> QED BY <1>2, <1>3, <1>4 DEF CheckedBase

LEMMA CheckKeeps ==
  ASSUME StoreInv, NEW p \in Procs, Check(p) PROVE StoreInv'
<1> DEFINE r == w[p]  s == [r EXCEPT !.pc = "truncate"]
<1>1. Fine(r) /\ r.pc = "check" /\ ~Writing(p) /\ UNCHANGED <<file, runs, base, broke>>
  BY DEF StoreInv, Check, Writing, Window
<1>2. CASE ~Unaltered(p)
  <2>1. Fine(Fail(r)) /\ Fail(r).pc \notin Window BY <1>1, FailFine DEF Window
  <2>2. w' = [w EXCEPT ![p] = Fail(r)] /\ UNCHANGED raced /\ runs' \in 0 .. MaxRuns
    BY <1>2 DEF Check, StoreInv, TypeOK
  <2> QED BY <1>1, <2>1, <2>2, LocalStep
<1>3. CASE Unaltered(p)
  <2> USE DEF StoreInv
  <2>1. /\ w' = [w EXCEPT ![p] = s]
        /\ raced' = (raced \/ \E q \in Procs \ {p} : Writing(q))
    BY <1>3 DEF Check
  <2>2. s \in Object /\ s.pc = "truncate" /\ s.orig = r.orig BY <1>1 DEF Fine, Object
  <2>3. Derived(s) BY <1>1 DEF Fine, Object, Derived
  <2>4. \A q \in Procs : Fine(w'[q]) BY <2>1, <2>2, <2>3 DEF TypeOK, Fine
  <2>5. TypeOK' BY <1>1, <2>1, <2>4 DEF TypeOK, Fine
  <2>6. ASSUME Sound' PROVE OneWriter' /\ Complete' /\ CheckedBase'
    <3>1. Sound /\ \A q \in Procs \ {p} : ~Writing(q) BY <2>1, <2>6 DEF Sound, Check
    <3>2. \A q \in Procs : Writing(q)' => q = p BY <2>1, <3>1 DEF Writing, TypeOK
    <3>3. \A q \in Procs : w[q].pc # "put" BY <1>1, <3>1 DEF Writing, Window
    <3>4. \A q \in Procs : w'[q].pc # "put" BY <2>1, <2>2, <3>3 DEF TypeOK
    <3>5. file = (IF base = None THEN NoFile ELSE base) BY <3>1, <3>3 DEF Complete
    <3>6. r.orig = (IF base = None THEN Empty ELSE base)
      <4>1. Text(file) = r.orig BY <1>3 DEF Unaltered
      <4>2. base # None => base # NoFile BY TwConstants DEF TypeOK
      <4> QED BY <3>5, <4>1, <4>2 DEF Text
    <3>7. w'[p].orig = r.orig BY <2>1, <2>2 DEF TypeOK
    <3> QED BY <1>1, <3>2, <3>4, <3>5, <3>6, <3>7 DEF OneWriter, Complete, CheckedBase
  <2> QED BY <2>4, <2>5, <2>6 DEF CheckedBase
<1> QED BY <1>2, <1>3

(* The mark of a write on the other processes changes nothing else.        *)
LEMMA TouchFine ==
  ASSUME StoreInv, NEW p \in Procs, NEW q \in Procs
  PROVE /\ Touch(p)[q].pc = w[q].pc /\ Touch(p)[q].orig = w[q].orig
        /\ Fine(Touch(p)[q]) /\ Touch(p)[p] = w[p]
<1> DEFINE s == [w[q] EXCEPT !.touched = TRUE]
<1>1. Fine(w[q]) /\ Touch(p)[q] \in {w[q], s} /\ Touch(p)[p] = w[p] BY DEF StoreInv, Touch
<1>2. s \in Object /\ s.pc = w[q].pc /\ s.orig = w[q].orig BY <1>1 DEF Fine, Object
<1>3. w[q].pc # "off" => Derived(s) BY <1>1 DEF Fine, Object, Derived
<1> QED BY <1>1, <1>2, <1>3 DEF Fine

LEMMA TruncateKeeps ==
  ASSUME StoreInv, NEW p \in Procs, Truncate(p) PROVE StoreInv'
<1> USE DEF StoreInv
<1> DEFINE s == [w[p] EXCEPT !.pc = "put"]
<1>1. w' = [Touch(p) EXCEPT ![p] = s] /\ file' = Empty /\ UNCHANGED <<runs, base, raced, broke>>
  BY TouchFine DEF Truncate
<1>2. s \in Object /\ s.pc = "put" /\ s.orig = w[p].orig BY DEF Fine, Object
<1>3. Derived(s) BY DEF Fine, Object, Derived, Truncate
<1>4. \A q \in Procs : w'[q] = IF q = p THEN s ELSE Touch(p)[q] BY <1>1 DEF Touch
<1>5. \A q \in Procs : Fine(w'[q]) BY <1>2, <1>3, <1>4, TouchFine DEF Fine
<1>6. TypeOK'
  <2>1. w' \in [Procs -> Object] BY <1>1, <1>5 DEF Fine, Touch
  <2> QED BY <1>1, <2>1 DEF TypeOK
<1>7. \A q \in Procs : (Writing(q)' <=> Writing(q)) /\ w'[q].orig = w[q].orig
  BY <1>2, <1>4, TouchFine DEF Writing, Window, Truncate
<1>8. w'[p].pc = "put" BY <1>2, <1>4
<1>9. (Sound => OneWriter /\ Complete)' BY <1>1, <1>7, <1>8 DEF Sound, OneWriter, Complete
<1>10. CheckedBase' BY <1>1, <1>7 DEF CheckedBase, Sound
<1> QED BY <1>5, <1>6, <1>9, <1>10

LEMMA WrittenFine ==
  ASSUME NEW r, Fine(r), r.pc = "put"
  PROVE Fine(Written(r)) /\ Written(r).pc \in {"off", "ready"}
<1>1. CASE r.next = "off" BY <1>1, OffFine DEF Written, Fine, Object
<1>2. CASE r.next # "off"
  <2> DEFINE s == [r EXCEPT !.pc = "ready", !.orig = r.data, !.forced = FALSE]
  <2>1. Written(r) = s BY <1>2 DEF Written, Fine, Object
  <2>2. r.data \in Wallet BY DEF Fine, Object, Current, Wallet
  <2>3. s \in Object /\ s.pc = "ready" BY <2>2 DEF Fine, Object
  <2>4. Derived(s) BY <2>2, TwConstants DEF Fine, Object, Derived, SameId
  <2> QED BY <2>1, <2>3, <2>4 DEF Fine
<1> QED BY <1>1, <1>2

LEMMA PutKeeps ==
  ASSUME StoreInv, NEW p \in Procs, Put(p) PROVE StoreInv'
<1> USE DEF StoreInv
<1> DEFINE s == Written(w[p])
<1>1. /\ w' = [Touch(p) EXCEPT ![p] = s] /\ base' = w[p].data /\ w[p].pc = "put"
      /\ file' \in {w[p].data, Garbage} /\ UNCHANGED <<runs, raced, broke>>
      /\ ~raced => file' = base'
  BY TouchFine DEF Put
<1>2. Fine(s) /\ s.pc \in {"off", "ready"} BY <1>1, WrittenFine
<1>3. \A q \in Procs : w'[q] = IF q = p THEN s ELSE Touch(p)[q] BY <1>1 DEF Touch
<1>4. \A q \in Procs : Fine(w'[q]) BY <1>2, <1>3, TouchFine
<1>5. w[p].data \in Wallet BY DEF Fine, Object, Current, Wallet
<1>6. TypeOK'
  <2>1. w' \in [Procs -> Object] BY <1>1, <1>4 DEF Fine, Touch
  <2> QED BY <1>1, <1>5, <2>1 DEF TypeOK
<1>7. ASSUME Sound' PROVE OneWriter' /\ Complete' /\ CheckedBase'
  <2>1. Sound /\ Writing(p) BY <1>1, <1>7 DEF Sound, Writing, Window
  <2>2. \A q \in Procs : ~Writing(q)'
    BY <1>2, <1>3, <2>1, TouchFine DEF OneWriter, Writing, Window
  <2>3. file' = base' /\ base' # None BY <1>1, <1>5, <2>1, TwConstants DEF Sound
  <2> QED BY <2>2, <2>3 DEF OneWriter, Complete, CheckedBase
<1> QED BY <1>4, <1>6, <1>7 DEF CheckedBase

LEMMA InitStore == Init => StoreInv
<1> SUFFICES ASSUME Init PROVE StoreInv OBVIOUS
<1>1. \A p \in Procs : Fine(w[p]) /\ w[p].pc = "off" BY OffFine DEF Init
<1>2. file = (IF base = None THEN NoFile ELSE base) /\ base \in Wallet \cup {None}
  <2>1. Imported \in Entry BY DEF Imported, Entry, Comments, Balances
  <2>2. [Addrs -> {Imported, None}] \subseteq Book BY <2>1 DEF Book
  <2>3. [version : {"old", "new"}, book : [Addrs -> {Imported, None}]] \subseteq Wallet
    BY <2>2 DEF Wallet
  <2> QED BY <2>3, TwConstants DEF Init
<1>3. TypeOK
  <2>1. w \in [Procs -> Object] BY <1>1 DEF Init, Fine
  <2>2. runs = 0 /\ raced \in BOOLEAN /\ broke \in BOOLEAN BY DEF Init
  <2>3. runs \in 0 .. MaxRuns BY <2>2, TwConstants
  <2> QED BY <1>2, <2>1, <2>2, <2>3 DEF TypeOK
<1>4. OneWriter /\ CheckedBase BY <1>1 DEF OneWriter, CheckedBase, Writing, Window
<1> QED BY <1>1, <1>2, <1>3, <1>4 DEF StoreInv, Complete

LEMMA NextStore == StoreInv /\ [Next]_vars => StoreInv'
<1> SUFFICES ASSUME StoreInv, [Next]_vars PROVE StoreInv' OBVIOUS
<1>1. CASE UNCHANGED vars
  BY <1>1 DEF StoreInv, TypeOK, Sound, OneWriter, Complete, CheckedBase, Writing
<1>2. ASSUME NEW p \in Procs, Process(p) PROVE StoreInv'
  BY <1>2, OpenKeeps, StatKeeps, ExitKeeps, CloseKeeps, KillKeeps, CheckKeeps, TruncateKeeps,
     PutKeeps, PutFailsKeeps, OperateKeeps DEF Process
<1> QED BY <1>1, <1>2 DEF Next

(* The type of the state, for every number of processes and operations.    *)
THEOREM StoreTyped == Spec => []TypeOK
<1>1. StoreInv => TypeOK BY DEF StoreInv
<1> QED BY InitStore, NextStore, <1>1, PTL DEF Spec

(* The check before a write does what it is there for: a process that is   *)
(* about to replace the file started from what the file last held.         *)
THEOREM WritersHaveRead == Spec => []CheckedBase
<1>1. StoreInv => CheckedBase BY DEF StoreInv
<1> QED BY InitStore, NextStore, <1>1, PTL DEF Spec

(* A write that changes the wallet is a Put, by the only process writing,  *)
(* on top of the wallet it was read from.                                  *)
LEMMA PutBase ==
  ASSUME StoreInv, Sound', NEW p \in Procs, Process(p), base' # base, base # None
  PROVE w[p].pc = "put" /\ base' = w[p].data /\ w[p].orig = base /\ base \in Wallet
        /\ Derived(w[p]) /\ w[p] \in Object /\ OneWriter
<1>1. Put(p)
  BY DEF Process, Open, Stat, Exit, Close, Kill, Check, Truncate, PutFails, Operate, Step,
         ImportAddress, RemoveAddress, SetLabel, LoadDump, GetBalance, Refresh
<1>2. Sound BY <1>1 DEF Sound, Put
<1>3. w[p].orig = base BY <1>1, <1>2 DEF StoreInv, CheckedBase, Writing, Window, Put
<1> QED BY <1>1, <1>2, <1>3 DEF StoreInv, TypeOK, Fine, Put

(* No write undoes what another process has written.                       *)
THEOREM NoUpdateLost == Spec => NoLostUpdate
<1>1. StoreInv /\ [Next]_vars =>
        [Sound' /\ base # None =>
           \A p \in Procs : w[p].pc = "put" /\ base' # base =>
             \A a \in Addrs \ w[p].mine : base'.book[a] = base.book[a]]_vars
  <2> SUFFICES ASSUME StoreInv, Next, Sound', base # None,
                      NEW p \in Procs, w[p].pc = "put", base' # base,
                      NEW a \in Addrs \ w[p].mine
               PROVE base'.book[a] = base.book[a]
    OBVIOUS
  <2>1. PICK q \in Procs : Process(q) BY DEF Next
  <2>2. /\ w[q].pc = "put" /\ base' = w[q].data /\ w[q].orig = base /\ base \in Wallet
        /\ Derived(w[q]) /\ OneWriter
    BY <2>1, PutBase
  <2>3. q = p BY <2>2 DEF OneWriter, Writing, Window
  <2> QED BY <2>2, <2>3 DEF Derived
<1> QED BY InitStore, NextStore, <1>1, PTL DEF Spec, NoLostUpdate

(* The MMGen ID of an address is never replaced.                           *)
THEOREM IdsNeverReplaced == Spec => IdsKept
<1>1. StoreInv /\ [Next]_vars =>
        [Sound' /\ base # None =>
           \A a \in Addrs :
             LET e == base.book[a]  f == base'.book[a]
             IN  (e # None /\ f # None) => (e.mmid \in Ids => f.mmid = e.mmid)]_vars
  <2> SUFFICES ASSUME StoreInv, Next, Sound', base # None, NEW a \in Addrs
               PROVE SameId(base.book[a], base'.book[a])
    BY DEF SameId
  <2>1. CASE base' = base BY <2>1 DEF SameId
  <2>2. CASE base' # base
    <3>1. PICK q \in Procs : Process(q) BY DEF Next
    <3>2. base' = w[q].data /\ w[q].orig = base /\ base \in Wallet /\ Derived(w[q])
      BY <2>2, <3>1, PutBase
    <3> QED BY <3>2 DEF Derived
  <2> QED BY <2>1, <2>2
<1> QED BY InitStore, NextStore, <1>1, PTL DEF Spec, IdsKept

(* Nobody is left with a file that cannot be read.                         *)
THEOREM FileReadable == Spec => []Readable
<1>1. StoreInv => Readable
  BY TwConstants DEF StoreInv, TypeOK, Complete, Readable
<1> QED BY InitStore, NextStore, <1>1, PTL DEF Spec

(* What a process that nobody has written past knows of the file: it is    *)
(* still what the process read, and nobody is in the middle of replacing   *)
(* it.  Then the check cannot be a false alarm.                            *)
Base == IF base = None THEN Empty ELSE base
Undisturbed ==
  \A p \in Procs : w[p].pc # "off" /\ ~w[p].touched =>
    w[p].orig = Base /\ \A q \in Procs \ {p} : w[q].pc # "put"
Emptied == \A p \in Procs : w[p].pc = "put" => file = Empty
Homing == \A p \in Procs : w[p].pc \in {"ready", "stat"} => w[p].next = "ready"
OwnInv == Homing /\ (Sound => Undisturbed /\ Emptied)

(* What a step of its own leaves of an object that does not write.         *)
Keeps(r, s) ==
  /\ s.pc \notin {"put", "stat"} /\ (s.pc = "ready" => s.next = "ready")
  /\ s.pc # "off" => s.orig = r.orig /\ s.touched = r.touched

LEMMA OwnLocal ==
  ASSUME StoreInv, OwnInv, NEW p \in Procs, NEW s, Keeps(w[p], s), w[p].pc \notin {"off", "put"},
         w' = [w EXCEPT ![p] = s], UNCHANGED <<file, base, broke>>, raced => raced'
  PROVE OwnInv'
<1>1. \A q \in Procs : w'[q] = IF q = p THEN s ELSE w[q] BY DEF StoreInv, TypeOK
<1>2. Homing' BY <1>1 DEF Homing, OwnInv, Keeps
<1>3. ASSUME Sound' PROVE Undisturbed' /\ Emptied'
  <2>1. Sound BY <1>3 DEF Sound, StoreInv, TypeOK
  <2>2. Emptied' BY <1>1, <2>1 DEF Emptied, OwnInv, Keeps
  <2>3. Undisturbed' BY <1>1, <2>1 DEF Undisturbed, OwnInv, Keeps, Base
  <2> QED BY <2>2, <2>3
<1> QED BY <1>2, <1>3 DEF OwnInv

LEMMA FailKeeps ==
  ASSUME NEW r \in Object, r.pc # "off" PROVE Keeps(r, Fail(r))
BY DEF Keeps, Fail, Off, Object

LEMMA WriteKeeps ==
  ASSUME NEW r \in Object, NEW s \in Object, NEW n \in {"ready", "off"},
         s.orig = r.orig, s.touched = r.touched, n = "ready" => s.next = "ready"
  PROVE Keeps(r, Write(s, n))
BY DEF Keeps, Write, Object

(* An operation changes the copy and keeps what it was read from.          *)
LEMMA SetKeeps ==
  ASSUME NEW r, Fine(r), r.pc = "ready", r.next = "ready", r.ops < MaxOps,
         NEW a \in Addrs, NEW e \in Entry \cup {None}
  PROVE /\ Set(r, a, e) \in Object /\ Set(r, a, e).pc = "ready"
        /\ Keeps(r, Set(r, a, e)) /\ Keeps(r, Write(Set(r, a, e), "ready"))
<1> DEFINE s == Set(r, a, e)
<1>1. s \in Object
  <2>1. r \in Object BY DEF Fine
  <2>2. [r.data EXCEPT !.book[a] = e] \in Current BY <2>1 DEF Object, Current, Book
  <2>3. r.ops + 1 \in 0 .. MaxOps BY <2>1, TwConstants DEF Object
  <2> QED BY <2>1, <2>2, <2>3 DEF Set, Object
<1>2. s.pc = "ready" /\ s.next = "ready" /\ s.orig = r.orig /\ s.touched = r.touched
  BY DEF Set, Fine, Object
<1> QED BY <1>1, <1>2, WriteKeeps DEF Fine, Keeps

(* A step of p alone, which keeps its program running.                     *)
Moves(p, s) == w' = [w EXCEPT ![p] = s] /\ Keeps(w[p], s) /\ s.pc # "off"

LEMMA OwnOperate ==
  ASSUME StoreInv, OwnInv, NEW p \in Procs, Operate(p)
  PROVE /\ UNCHANGED <<file, base, broke, raced>> /\ w[p].pc = "ready"
        /\ \E s : Moves(p, s)
<1> DEFINE r == w[p]
<1>1. Ready(p) /\ UNCHANGED <<file, base, broke, raced>>
  BY DEF Operate, ImportAddress, RemoveAddress, SetLabel, LoadDump, GetBalance, Refresh, WriteMode,
         Step
<1>2. Fine(r) /\ r \in Object /\ r.pc = "ready" /\ r.next = "ready" /\ r.ops < MaxOps
  BY <1>1 DEF StoreInv, Fine, Ready, OwnInv, Homing
<1>3. \A a \in Addrs : r.data.book[a] \in Entry \cup {None} BY <1>2 DEF Object, Current, Book
<1>4. ASSUME NEW a \in Addrs, NEW e \in Entry \cup {None}
      PROVE /\ Keeps(r, Set(r, a, e)) /\ Set(r, a, e).pc # "off" /\ Set(r, a, e) \in Object
            /\ Keeps(r, Write(Set(r, a, e), "ready")) /\ Write(Set(r, a, e), "ready").pc # "off"
  <2>1. /\ Set(r, a, e) \in Object /\ Set(r, a, e).pc = "ready"
        /\ Keeps(r, Set(r, a, e)) /\ Keeps(r, Write(Set(r, a, e), "ready"))
    BY <1>2, SetKeeps
  <2>2. Write(Set(r, a, e), "ready").pc # "off" BY <2>1 DEF Write, Object
  <2> QED BY <2>1, <2>2
<1>5. ASSUME NEW a \in Addrs, NEW i \in Ids \cup {Plain}, NEW c \in Comments,
             ImportAddress(p, a, i, c)
      PROVE \E s : Moves(p, s)
  <2> DEFINE e == r.data.book[a]  n == [mmid |-> i, comment |-> c, bal |-> 0]
             m == [e EXCEPT !.mmid = i, !.comment = IF c = "" THEN @ ELSE c]
  <2>1. CASE e = None
    <3>1. n \in Entry /\ w' = [w EXCEPT ![p] = Set(r, a, n)]
      BY <1>5, <2>1 DEF ImportAddress, Step, Entry, Balances
    <3>2. Moves(p, Set(r, a, n)) BY <1>4, <3>1 DEF Moves
    <3> QED BY <3>2
  <2>2. CASE e # None /\ Conflict(e, i)
    <3>1. w' = [w EXCEPT ![p] = Fail(r)] BY <1>5, <2>2 DEF ImportAddress, Step
    <3>2. Keeps(r, Fail(r)) /\ Fail(r).pc # "off" BY <1>2, FailKeeps DEF Fail, Object
    <3>3. Moves(p, Fail(r)) BY <3>1, <3>2 DEF Moves
    <3> QED BY <3>3
  <2>3. CASE e # None /\ ~Conflict(e, i)
    <3>1. m \in Entry BY <1>3, <2>3 DEF Entry, Comments
    <3>2. w' = [w EXCEPT ![p] = Set(r, a, m)] BY <1>5, <2>3 DEF ImportAddress, Step
    <3>3. Moves(p, Set(r, a, m)) BY <1>4, <3>1, <3>2 DEF Moves
    <3> QED BY <3>3
  <2> QED BY <2>1, <2>2, <2>3
<1>6. ASSUME NEW a \in Addrs, RemoveAddress(p, a)
      PROVE \E s : Moves(p, s)
  <2>1. w' = [w EXCEPT ![p] = Write(Set(r, a, None), "ready")] BY <1>6 DEF RemoveAddress, Step
  <2>2. Moves(p, Write(Set(r, a, None), "ready")) BY <1>4, <2>1 DEF Moves
  <2> QED BY <2>2
<1>7. ASSUME NEW a \in Addrs, NEW c \in Comments, SetLabel(p, a, c)
      PROVE \E s : Moves(p, s)
  <2> DEFINE m == [r.data.book[a] EXCEPT !.comment = c]
  <2>1. m \in Entry BY <1>3, <1>7 DEF SetLabel, Entry
  <2>2. w' = [w EXCEPT ![p] = Write(Set(r, a, m), "ready")] BY <1>7 DEF SetLabel, Step
  <2>3. Moves(p, Write(Set(r, a, m), "ready")) BY <1>4, <2>1, <2>2 DEF Moves
  <2> QED BY <2>3
<1>8. ASSUME NEW a \in Addrs, NEW i \in Ids, LoadDump(p, a, i)
      PROVE \E s : Moves(p, s)
  <2> DEFINE n == [mmid |-> i, comment |-> "", bal |-> 1]
  <2>1. n \in Entry BY DEF Entry, Comments, Balances
  <2>2. w' = [w EXCEPT ![p] = Write(Set(r, a, n), "ready")] BY <1>8 DEF LoadDump, Step
  <2>3. Moves(p, Write(Set(r, a, n), "ready")) BY <1>4, <2>1, <2>2 DEF Moves
  <2> QED BY <2>3
<1>9. ASSUME NEW a \in Addrs, NEW b \in Balances, GetBalance(p, a, b) \/ Refresh(p, a, b)
      PROVE \E s : Moves(p, s)
  <2> DEFINE m == [r.data.book[a] EXCEPT !.bal = b]  s == CacheBalance(r, a, b)
             t == [s EXCEPT !.ops = r.ops + 1, !.shown = <<a, b>>]
  <2>1. m \in Entry BY <1>3, <1>9 DEF GetBalance, Refresh, Entry
  <2>2. Fine(s) /\ s.pc = "ready" BY <1>2, <1>9, CacheFine DEF GetBalance, Refresh
  <2>3. Keeps(r, s)
    <3>1. CASE a \in r.sess BY <1>2, <3>1 DEF CacheBalance, Keeps
    <3>2. CASE a \notin r.sess
      BY <1>4, <2>1, <3>2 DEF CacheBalance, Keeps, Object
    <3> QED BY <3>1, <3>2
  <2>4. Keeps(r, t) /\ t.pc # "off" BY <2>2, <2>3 DEF Keeps, Fine, Object
  <2>5. w' = [w EXCEPT ![p] = s] \/ w' = [w EXCEPT ![p] = t]
    BY <1>9 DEF GetBalance, Refresh, Step
  <2>6. Moves(p, s) \/ Moves(p, t) BY <2>2, <2>3, <2>4, <2>5 DEF Moves
  <2> QED BY <2>6
<1> QED BY <1>1, <1>2, <1>5, <1>6, <1>7, <1>8, <1>9 DEF Operate

LEMMA OwnOpen ==
  ASSUME StoreInv, OwnInv, NEW p \in Procs, NEW m \in {"r", "w"}, Open(p, m) PROVE OwnInv'
<1> DEFINE s == w'[p]
<1>1. /\ w[p].pc = "off" /\ UNCHANGED <<file, base, broke, raced>>
      /\ \A q \in Procs \ {p} : w'[q] = w[q]
  BY DEF Open, StoreInv, TypeOK
<1>2. /\ s.pc \in {"stat", "off", "ready", "check"} /\ (s.pc \in {"ready", "stat"} => s.next = "ready")
      /\ (s.pc # "off" => s.orig = Text(file) /\ ~s.touched /\ file \in Wallet \cup {NoFile})
  <2>1. CASE file = NoFile
    <3>1. s = [Opened(m) EXCEPT !.pc = "stat"] BY <2>1, TwConstants DEF Open, StoreInv, TypeOK
    <3> QED BY <2>1, <3>1 DEF Opened, Off, Text
  <2>2. CASE file \in {Empty, Garbage}
    <3>1. s = Off("error") BY <2>2, TwConstants DEF Open, StoreInv, TypeOK
    <3> QED BY <3>1 DEF Off
  <2>3. CASE file \in Wallet
    <3>1. s = Loaded(Opened(m), file) BY <2>3, TwConstants DEF Open, StoreInv, TypeOK
    <3>2. Text(file) = file BY <2>3, TwConstants DEF Text
    <3> QED BY <2>3, <3>1, <3>2 DEF Loaded, Write, Opened, Off
  <2> QED BY <2>1, <2>2, <2>3 DEF StoreInv, TypeOK
<1>3. Homing' BY <1>1, <1>2 DEF Homing, OwnInv
<1>4. ASSUME Sound PROVE Undisturbed' /\ Emptied'
  <2>1. Emptied' BY <1>1, <1>2, <1>4 DEF Emptied, OwnInv
  <2>2. ASSUME s.pc # "off"
        PROVE s.orig = Base /\ \A q \in Procs \ {p} : w'[q].pc # "put"
    <3>1. \A q \in Procs : w[q].pc # "put"
      BY <1>2, <1>4, <2>2, TwConstants DEF Emptied, OwnInv
    <3>2. file = (IF base = None THEN NoFile ELSE base) BY <1>4, <3>1 DEF StoreInv, Complete
    <3>3. base # None => base # NoFile BY TwConstants DEF StoreInv, TypeOK
    <3>4. Text(file) = Base BY <3>2, <3>3 DEF Text, Base
    <3> QED BY <1>1, <1>2, <2>2, <3>1, <3>4
  <2>3. Undisturbed' BY <1>1, <1>2, <1>4, <2>2 DEF Undisturbed, OwnInv, Base
  <2> QED BY <2>1, <2>3
<1> QED BY <1>1, <1>3, <1>4 DEF OwnInv, Sound

(* The steps that end or fail, and the check.                              *)
LEMMA OwnAlone ==
  ASSUME StoreInv, OwnInv, NEW p \in Procs, Stat(p) \/ Exit(p) \/ Close(p) \/ Kill(p) \/ Check(p)
  PROVE OwnInv'
<1> DEFINE r == w[p]
<1>1. Fine(r) /\ r \in Object /\ (r.pc = "stat" => r.next = "ready") BY DEF StoreInv, Fine, OwnInv, Homing
<1>2. CASE Stat(p)
  <2> DEFINE t == [r EXCEPT !.forced = TRUE]
             s == IF file = NoFile THEN Write(t, "ready") ELSE Off("error")
  <2>1. t \in Object /\ t.orig = r.orig /\ t.touched = r.touched /\ t.next = "ready"
    BY <1>1, <1>2 DEF Object, Stat
  <2>2. Keeps(r, s)
    <3>1. CASE file = NoFile BY <1>1, <2>1, <3>1, WriteKeeps
    <3>2. CASE file # NoFile BY <3>2 DEF Keeps, Off
    <3> QED BY <3>1, <3>2
  <2>3. w' = [w EXCEPT ![p] = s] BY <1>2 DEF Stat
  <2> QED BY <1>2, <2>2, <2>3, OwnLocal DEF Stat
<1>3. CASE Exit(p)
  <2>1. Keeps(r, [r EXCEPT !.pc = "closing", !.shown = None]) BY <1>1 DEF Keeps, Object
  <2> QED BY <1>3, <2>1, OwnLocal DEF Exit
<1>4. CASE Close(p)
  <2>1. CASE WritesAtEnd(r) /\ r.data # r.orig
    <3>1. Keeps(r, Write(r, "off")) BY <1>1, <2>1, WriteKeeps
    <3> QED BY <1>4, <2>1, <3>1, OwnLocal DEF Close, End
  <2>2. CASE ~(WritesAtEnd(r) /\ r.data # r.orig)
    <3>1. Keeps(r, End(r)) BY <2>2 DEF End, Keeps, Off
    <3> QED BY <1>4, <3>1, OwnLocal DEF Close
  <2> QED BY <2>1, <2>2
<1>5. CASE Kill(p)
  <2>1. Keeps(r, Off("killed")) BY DEF Keeps, Off
  <2>2. CASE r.pc # "put" BY <1>5, <2>1, <2>2, OwnLocal DEF Kill, StoreInv, TypeOK
  <2>3. CASE r.pc = "put"
    <3>1. ~Sound' BY <1>5, <2>3 DEF Kill, Sound
    <3>2. Homing' BY <1>5 DEF Kill, Homing, OwnInv, Off, StoreInv, TypeOK
    <3> QED BY <3>1, <3>2 DEF OwnInv
  <2> QED BY <2>2, <2>3
<1>6. CASE Check(p)
  <2> DEFINE s == [r EXCEPT !.pc = "truncate"]
  <2>1. Keeps(r, s) BY <1>1 DEF Keeps, Object
  <2>2. Keeps(r, Fail(r)) BY <1>1, <1>6, FailKeeps DEF Check
  <2>3. /\ w' = [w EXCEPT ![p] = s] \/ w' = [w EXCEPT ![p] = Fail(r)]
        /\ raced => raced'
    BY <1>6 DEF Check
  <2>4. UNCHANGED <<file, base, broke>> /\ r.pc \notin {"off", "put"} BY <1>6 DEF Check
  <2> QED BY <2>1, <2>2, <2>3, <2>4, OwnLocal
<1> QED BY <1>2, <1>3, <1>4, <1>5, <1>6

(* The mark of a write: nobody else can think the file is as it was.       *)
LEMMA TouchMarks ==
  ASSUME StoreInv, NEW p \in Procs, NEW q \in Procs, q # p
  PROVE /\ w[q].pc # "off" => Touch(p)[q].touched
        /\ Touch(p)[q].pc = w[q].pc /\ Touch(p)[q].next = w[q].next
<1>1. w[q] \in Object BY DEF StoreInv, Fine
<1> QED BY <1>1 DEF Touch, Object

LEMMA OwnTruncate ==
  ASSUME StoreInv, OwnInv, NEW p \in Procs, Truncate(p) PROVE OwnInv'
<1> DEFINE r == w[p]  s == [r EXCEPT !.pc = "put"]
<1>1. r \in Object /\ r.pc = "truncate" BY DEF StoreInv, Fine, Truncate
<1>2. s.pc = "put" /\ s.orig = r.orig /\ s.touched = r.touched BY <1>1 DEF Object
<1>3. \A q \in Procs : w'[q] = IF q = p THEN s ELSE Touch(p)[q]
  BY TouchFine DEF Truncate, Touch
<1>4. Homing'
  <2> HIDE DEF s
  <2> SUFFICES ASSUME NEW q \in Procs, w'[q].pc \in {"ready", "stat"} PROVE w'[q].next = "ready"
    BY DEF Homing
  <2>1. q # p BY <1>2, <1>3
  <2> QED BY <1>3, <2>1, TouchMarks DEF Homing, OwnInv
<1>5. ASSUME Sound PROVE Undisturbed' /\ Emptied'
  <2>1. Emptied' BY DEF Emptied, Truncate
  <2>2. r.orig = Base BY <1>1, <1>5 DEF StoreInv, CheckedBase, Writing, Window, Base
  <2>3. \A q \in Procs \ {p} : w'[q].pc # "put"
    BY <1>1, <1>3, <1>5, TouchMarks DEF StoreInv, OneWriter, Writing, Window
  <2>4. \A q \in Procs \ {p} : w'[q].pc # "off" => w'[q].touched BY <1>3, TouchMarks
  <2>5. Base' = Base BY DEF Base, Truncate
  <2> QED BY <1>2, <1>3, <2>1, <2>2, <2>3, <2>4, <2>5 DEF Undisturbed
<1> QED BY <1>4, <1>5 DEF OwnInv, Sound, Truncate

LEMMA OwnPut ==
  ASSUME StoreInv, OwnInv, NEW p \in Procs, Put(p) PROVE OwnInv'
<1> DEFINE r == w[p]  s == Written(r)
<1>1. r \in Object /\ r.pc = "put" /\ base' = r.data BY DEF StoreInv, Fine, Put
<1>2. /\ s.pc \in {"off", "ready"} /\ (s.pc = "ready" => s.next = "ready")
      /\ (s.pc # "off" => s.orig = r.data)
  BY <1>1 DEF Written, Off, Object
<1>3. \A q \in Procs : w'[q] = IF q = p THEN s ELSE Touch(p)[q]
  BY TouchFine DEF Put, Touch
<1>4. Homing'
  <2> HIDE DEF s
  <2> SUFFICES ASSUME NEW q \in Procs, w'[q].pc \in {"ready", "stat"} PROVE w'[q].next = "ready"
    BY DEF Homing
  <2>1. CASE q = p BY <1>2, <1>3, <2>1
  <2>2. CASE q # p BY <1>3, <2>2, TouchMarks DEF Homing, OwnInv
  <2> QED BY <2>1, <2>2
<1>5. ASSUME Sound PROVE Undisturbed' /\ Emptied'
  <2>1. \A q \in Procs : w'[q].pc # "put"
    BY <1>1, <1>2, <1>3, <1>5, TouchMarks DEF StoreInv, OneWriter, Writing, Window
  <2>2. \A q \in Procs \ {p} : w'[q].pc # "off" => w'[q].touched BY <1>3, TouchMarks
  <2>3. base' # None BY <1>1, TwConstants DEF Object, Current, Wallet
  <2>4. Base' = r.data BY <1>1, <2>3 DEF Base
  <2> QED BY <1>2, <1>3, <2>1, <2>2, <2>4 DEF Undisturbed, Emptied
<1> QED BY <1>4, <1>5 DEF OwnInv, Sound, Put

LEMMA OwnInit == Init => OwnInv
BY DEF Init, OwnInv, Homing, Undisturbed, Emptied, Off

LEMMA OwnNext == StoreInv /\ OwnInv /\ [Next]_vars => OwnInv'
<1> SUFFICES ASSUME StoreInv, OwnInv, [Next]_vars PROVE OwnInv' OBVIOUS
<1>1. CASE UNCHANGED vars
  BY <1>1 DEF OwnInv, Homing, Sound, Undisturbed, Emptied, Base
<1>2. ASSUME NEW p \in Procs, Process(p) PROVE OwnInv'
  <2>1. CASE Operate(p)
    <3>1. PICK s : Moves(p, s) BY <2>1, OwnOperate
    <3>2. UNCHANGED <<file, base, broke, raced>> /\ w[p].pc = "ready" BY <2>1, OwnOperate
    <3> QED BY <3>1, <3>2, OwnLocal DEF Moves
  <2>2. CASE PutFails(p)
    <3>1. ~Sound' BY <2>2 DEF PutFails, Sound
    <3>2. w[p] \in Object BY DEF StoreInv, Fine
    <3>3. Keeps(w[p], Fail(w[p])) BY <2>2, <3>2, FailKeeps DEF PutFails
    <3>4. Homing' BY <2>2, <3>3 DEF PutFails, Homing, OwnInv, Keeps, StoreInv, TypeOK
    <3> QED BY <3>1, <3>4 DEF OwnInv
  <2> QED BY <1>2, <2>1, <2>2, OwnOpen, OwnAlone, OwnTruncate, OwnPut DEF Process
<1> QED BY <1>1, <1>2 DEF Next

(* A program of the user ends when its write is complete, when it had      *)
(* nothing to save, or when its check fails, which it cannot unless        *)
(* somebody else has written.                                              *)
LEMMA EndSaves ==
  ASSUME StoreInv, OwnInv, Sound', NEW p \in Procs, Process(p) PROVE SavesItsOwn(p)
<1> SUFFICES ASSUME w[p].pc \notin {"off", "stat"}, w'[p].pc = "off", w'[p].out # "killed",
                    ~w[p].touched, w[p].mode = "w"
             PROVE base'.book = w[p].data.book
  BY DEF SavesItsOwn
<1> DEFINE r == w[p]
<1>1. r \in Object /\ w \in [Procs -> Object] BY DEF StoreInv, Fine, TypeOK
<1>2. CASE Put(p) BY <1>2 DEF Put
<1>3. CASE Check(p)
  <2>1. ~Unaltered(p) BY <1>1, <1>3 DEF Check, Object
  <2>2. Sound BY <1>3, <2>1 DEF Check, Sound
  <2>3. r.orig = Base /\ \A q \in Procs : w[q].pc # "put"
    BY <1>3, <2>2 DEF OwnInv, Undisturbed, Check
  <2>4. file = (IF base = None THEN NoFile ELSE base) BY <2>2, <2>3 DEF StoreInv, Complete
  <2>5. base # None => base # NoFile BY TwConstants DEF StoreInv, TypeOK
  <2> QED BY <2>1, <2>3, <2>4, <2>5 DEF Unaltered, Text, Base
<1>4. CASE Close(p)
  <2>1. w'[p] = End(r) BY <1>1, <1>4 DEF Close
  <2>2. r.data = r.orig BY <2>1, <1>1 DEF End, WritesAtEnd, Write, Object
  <2>3. Sound BY <1>4 DEF Close, Sound
  <2>4. r.orig = Base BY <2>3 DEF OwnInv, Undisturbed
  <2>5. r.data # Empty BY <1>1, TwConstants DEF Object, Current, Wallet
  <2>6. base = r.data BY <2>2, <2>4, <2>5 DEF Base
  <2> QED BY <1>4, <2>6 DEF Close
<1>5. CASE Operate(p)
  <2>1. PICK s : Moves(p, s) BY <1>5, OwnOperate
  <2> QED BY <1>1, <2>1 DEF Moves
<1>6. ~Open(p, "r") /\ ~Open(p, "w") /\ ~Stat(p) BY DEF Open, Stat
<1>7. ~Exit(p) /\ ~Truncate(p)
  <2>1. Exit(p) => w'[p].pc = "closing" BY <1>1 DEF Exit, Object
  <2>2. Truncate(p) => w'[p] = [r EXCEPT !.pc = "put"] BY TouchFine DEF Truncate, Touch
  <2> QED BY <1>1, <2>1, <2>2 DEF Object
<1>8. ~Kill(p) /\ ~PutFails(p) BY <1>1 DEF Kill, Off, PutFails, Sound
<1> QED BY <1>2, <1>3, <1>4, <1>5, <1>6, <1>7, <1>8 DEF Process

(* A step of another process does not end this one.                        *)
LEMMA OthersStay ==
  ASSUME StoreInv, OwnInv, NEW p \in Procs, NEW q \in Procs, q # p, Process(q)
  PROVE w'[p].pc = w[p].pc
<1>1. w \in [Procs -> Object] BY DEF StoreInv, TypeOK
<1>2. CASE Operate(q)
  <2>1. PICK s : Moves(q, s) BY <1>2, OwnOperate
  <2> QED BY <1>1, <2>1 DEF Moves
<1>3. CASE Truncate(q) \/ Put(q)
  <2>1. w'[p] = Touch(q)[p] BY <1>3 DEF Truncate, Put, Touch
  <2> QED BY <2>1, TouchMarks
<1>4. CASE \E m \in {"r", "w"} : Open(q, m) BY <1>1, <1>4 DEF Open
<1>5. CASE Stat(q) \/ Exit(q) \/ Close(q) \/ Kill(q) \/ Check(q) \/ PutFails(q)
  BY <1>1, <1>5 DEF Stat, Exit, Close, Kill, Check, PutFails
<1> QED BY <1>2, <1>3, <1>4, <1>5 DEF Process

(* One that opened the wallet to read it creates or upgrades the file.     *)
LEMMA ReadersKeep ==
  ASSUME StoreInv, Sound', NEW p \in Procs, NEW q \in Procs, Process(q) PROVE ReaderKeeps(p)
<1> SUFFICES ASSUME w[p].pc = "put", w[p].mode = "r", base' # base
             PROVE base'.book = (IF base = None THEN NoBook ELSE base.book)
  BY DEF ReaderKeeps
<1>1. Put(q)
  BY DEF Process, Open, Stat, Exit, Close, Kill, Check, Truncate, PutFails, Operate, Step,
         ImportAddress, RemoveAddress, SetLabel, LoadDump, GetBalance, Refresh
<1>2. Sound BY <1>1 DEF Sound, Put
<1>3. q = p BY <1>1, <1>2 DEF StoreInv, OneWriter, Writing, Window, Put
<1> DEFINE r == w[p]
<1>4. base' = r.data /\ r.orig = Base /\ Derived(r) /\ r \in Object /\ r.mine = {}
  BY <1>1, <1>2, <1>3 DEF StoreInv, CheckedBase, Writing, Window, Put, Fine, Derived, Base
<1>5. CASE base = None BY <1>4, <1>5 DEF Derived, Base
<1>6. CASE base # None
  <2>1. r.orig = base /\ base \in Wallet BY <1>4, <1>6 DEF Base, StoreInv, TypeOK
  <2>2. r.data.book \in Book /\ base.book \in Book BY <1>4, <2>1 DEF Object, Current, Wallet
  <2>3. \A a \in Addrs : r.data.book[a] = base.book[a] BY <1>4, <2>1 DEF Derived
  <2>4. r.data.book = base.book BY <2>2, <2>3 DEF Book
  <2> QED BY <1>4, <1>6, <2>4
<1> QED BY <1>5, <1>6

(* A program that ends without an error saved all it did, and one that     *)
(* only reads changes nothing.                                             *)
THEOREM OwnWorkSaved == Spec => EachSavesItsOwn
<1>1. StoreInv /\ OwnInv /\ [Next]_vars =>
        [Sound' => \A p \in Procs : SavesItsOwn(p) /\ ReaderKeeps(p)]_vars
  <2> SUFFICES ASSUME StoreInv, OwnInv, Next, Sound', NEW p \in Procs
               PROVE SavesItsOwn(p) /\ ReaderKeeps(p)
    OBVIOUS
  <2>1. PICK q \in Procs : Process(q) BY DEF Next
  <2>2. ReaderKeeps(p) BY <2>1, ReadersKeep
  <2>3. CASE q = p BY <2>1, <2>2, <2>3, EndSaves
  <2>4. CASE q # p
    <3>1. w'[p].pc = w[p].pc BY <2>1, <2>4, OthersStay
    <3> QED BY <2>2, <3>1 DEF SavesItsOwn
  <2> QED BY <2>3, <2>4
<1> QED BY InitStore, NextStore, OwnInit, OwnNext, <1>1, PTL DEF Spec, EachSavesItsOwn

-----------------------------------------------------------------------------
(* The wallet's export and import (TwDump).                                *)
(* Records as they come, with their fields; a file as it is written.       *)
Plainly(e) == e = [id |-> e.id, addr |-> e.addr, comment |-> e.comment, amt |-> e.amt]

AllPlain(es) == \A e \in es : Plainly(e)

Data(n, maps, es) == [net |-> n, maps |-> maps, entries |-> es]

(* Two sets of entries that name the same addresses, with the same labels. *)
SameNames(es, fs) == Dump!Mappings(es) = Dump!Mappings(fs)

SameLabels(es, fs) == Dump!Labels(es) = Dump!Labels(fs)

(* What a file holds of the wallet that was to be exported: the mappings,  *)
(* whatever became of its entries; and entries of which that is the        *)
(* checksum.                                                               *)
Holds(file0, os) ==
    \E n, es, m, fs :
        /\ file0 = [data |-> Data(n, Dump!Mappings(os), es), sum |-> Data(m, Dump!Mappings(os), fs)]
        /\ AllPlain(es) /\ AllPlain(fs) /\ SameNames(fs, os) /\ SameLabels(fs, os)

(* The invariant: what has been imported and what is still to be are       *)
(* together what was exported.                                             *)
ImportInv ==
    /\ AllPlain(wallet) /\ AllPlain(orig)
    /\ pc = "start" => copy = NoWallet /\ dump = Dump!Damaged
    /\ pc # "start" => Holds(dump, orig)
    /\ copy # NoWallet => Dump!Mappings(copy) \subseteq Dump!Mappings(orig)
    /\ pc = "read" => copy = {}
    /\ pc \in {"import", "imported"} =>
          /\ AllPlain(todo) /\ SameNames(copy \union todo, orig)
          /\ ~ignore => SameLabels(copy \union todo, orig)
    /\ pc = "imported" => todo = {}

LEMMA Named ==
    ASSUME NEW es, NEW x
    PROVE  /\ x \in Dump!Mappings(es) <=> \E e \in es : x = <<e.id, e.addr>>
           /\ x \in Dump!Labels(es) <=> \E e \in es : x = <<e.id, e.comment>>
BY DEF Dump!Mappings, Dump!Labels

LEMMA Together ==
    ASSUME NEW es, NEW fs
    PROVE  /\ Dump!Mappings(es \union fs) = Dump!Mappings(es) \union Dump!Mappings(fs)
           /\ Dump!Labels(es \union fs) = Dump!Labels(es) \union Dump!Labels(fs)
BY DEF Dump!Mappings, Dump!Labels

Renewed(e, amt) == [e EXCEPT !.amt = amt]

LEMMA AmountOnly ==
    ASSUME NEW e, Plainly(e), NEW amt
    PROVE  /\ Plainly(Renewed(e, amt))
           /\ Renewed(e, amt).id = e.id /\ Renewed(e, amt).addr = e.addr /\ Renewed(e, amt).comment = e.comment
<1>1. PICK i, a, c, m : e = [id |-> i, addr |-> a, comment |-> c, amt |-> m]
  BY DEF Plainly
<1>2. Renewed(e, amt) = [id |-> i, addr |-> a, comment |-> c, amt |-> amt]
  BY <1>1 DEF Renewed
<1> QED
  BY <1>1, <1>2 DEF Plainly

(* Entries of which the amounts are set anew name the same addresses.      *)
Revalued(es, fs) ==
    /\ \A f \in fs : \E e \in es : \E amt : f = Renewed(e, amt)
    /\ \A e \in es : \E amt : Renewed(e, amt) \in fs

LEMMA AmountsOnly ==
    ASSUME NEW es, AllPlain(es), NEW fs, Revalued(es, fs)
    PROVE  AllPlain(fs) /\ SameNames(fs, es) /\ SameLabels(fs, es)
<1>1. AllPlain(fs)
  BY AmountOnly DEF AllPlain, Revalued
<1>2. ASSUME NEW x, x \in Dump!Mappings(fs) PROVE x \in Dump!Mappings(es)
  <2>1. PICK f \in fs : x = <<f.id, f.addr>>
    BY <1>2, Named
  <2>2. PICK e \in es : \E amt : f = Renewed(e, amt)
    BY DEF Revalued
  <2> QED
    BY <2>1, <2>2, AmountOnly, Named DEF AllPlain
<1>3. ASSUME NEW x, x \in Dump!Mappings(es) PROVE x \in Dump!Mappings(fs)
  <2>1. PICK e \in es : x = <<e.id, e.addr>>
    BY <1>3, Named
  <2>2. PICK amt : Renewed(e, amt) \in fs
    BY DEF Revalued
  <2> QED
    BY <2>1, <2>2, AmountOnly, Named DEF AllPlain
<1>4. ASSUME NEW x, x \in Dump!Labels(fs) PROVE x \in Dump!Labels(es)
  <2>1. PICK f \in fs : x = <<f.id, f.comment>>
    BY <1>4, Named
  <2>2. PICK e \in es : \E amt : f = Renewed(e, amt)
    BY DEF Revalued
  <2> QED
    BY <2>1, <2>2, AmountOnly, Named DEF AllPlain
<1>5. ASSUME NEW x, x \in Dump!Labels(es) PROVE x \in Dump!Labels(fs)
  <2>1. PICK e \in es : x = <<e.id, e.comment>>
    BY <1>5, Named
  <2>2. PICK amt : Renewed(e, amt) \in fs
    BY DEF Revalued
  <2> QED
    BY <2>1, <2>2, AmountOnly, Named DEF AllPlain
<1> QED
  BY <1>1, <1>2, <1>3, <1>4, <1>5 DEF SameNames, SameLabels

LEMMA Exported ==
    ASSUME ImportInv, NEW n, NEW pruned, NEW amts \in BOOLEAN, Dump!Export(n, pruned, amts)
    PROVE  ImportInv'
<1>1. AllPlain(orig')
  BY DEF ImportInv, AllPlain, Dump!Export
<1>2. PICK out : out = {[e EXCEPT !.amt = IF amts THEN @ ELSE 0] : e \in orig'}
  OBVIOUS
<1>3. Revalued(orig', out)
  BY <1>2 DEF Revalued, Renewed
<1>4. AllPlain(out) /\ SameNames(out, orig') /\ SameLabels(out, orig')
  BY <1>1, <1>3, AmountsOnly
<1>5. dump' = [data |-> Data(n, Dump!Mappings(out), out), sum |-> Data(n, Dump!Mappings(out), out)]
  BY <1>2 DEF Dump!Export, Data
<1>6. Dump!Mappings(out) = Dump!Mappings(orig')
  BY <1>4 DEF SameNames
<1>7. Holds(dump', orig')
  BY <1>4, <1>5, <1>6 DEF Holds
<1> QED
  BY <1>1, <1>7 DEF ImportInv, Dump!Export

LEMMA Changed ==
    ASSUME ImportInv, Dump!DumpAssumption, NEW old, NEW new \in Entries, Dump!Change(old, new)
    PROVE  ImportInv'
<1>1. pc = "dumped" /\ Plainly(new)
  BY DEF Dump!Change, Dump!DumpAssumption, Plainly
<1>2. PICK n, es, m, fs :
        /\ dump = [data |-> Data(n, Dump!Mappings(orig), es), sum |-> Data(m, Dump!Mappings(orig), fs)]
        /\ AllPlain(es) /\ AllPlain(fs) /\ SameNames(fs, orig) /\ SameLabels(fs, orig)
  BY <1>1 DEF ImportInv, Holds
<1>3. PICK es2 : es2 = (es \ {old}) \union {new}
  OBVIOUS
<1>4. dump' = [dump EXCEPT !.data.entries = es2]
  BY <1>2, <1>3 DEF Dump!Change, Data
<1>5. dump' = [data |-> Data(n, Dump!Mappings(orig), es2), sum |-> Data(m, Dump!Mappings(orig), fs)]
  BY <1>2, <1>4 DEF Data
<1>6. AllPlain(es2)
  BY <1>1, <1>2, <1>3 DEF AllPlain
<1>7. Holds(dump', orig)
  BY <1>2, <1>5, <1>6 DEF Holds
<1> QED
  BY <1>1, <1>7 DEF ImportInv, Dump!Change

LEMMA Begun ==
    ASSUME ImportInv, NEW ign, Dump!StartImport(ign)
    PROVE  ImportInv'
<1>1. /\ pc = "dumped" /\ UNCHANGED <<wallet, orig, dump>>
      /\ \/ pc' = "died" /\ copy' = copy
         \/ pc' = "read" /\ copy' = {}
  BY DEF Dump!StartImport
<1>2. Dump!Mappings({}) = {}
  BY DEF Dump!Mappings
<1>3. Holds(dump', orig')
  BY <1>1 DEF ImportInv
<1> QED
  BY <1>1, <1>2, <1>3 DEF ImportInv

LEMMA FileRead ==
    ASSUME ImportInv, Dump!ReadDump
    PROVE  ImportInv'
<1>1. pc = "read" /\ copy = {} /\ UNCHANGED <<wallet, orig, dump, copy, ignore>>
  BY DEF ImportInv, Dump!ReadDump
<1>2. Holds(dump, orig) /\ Holds(dump', orig')
  BY <1>1 DEF ImportInv
<1>3. CASE ~Dump!VerifyData
  BY <1>1, <1>2, <1>3 DEF ImportInv, Dump!ReadDump
<1>4. CASE Dump!VerifyData
  <2>1. PICK n, es, m, fs :
          /\ dump = [data |-> Data(n, Dump!Mappings(orig), es), sum |-> Data(m, Dump!Mappings(orig), fs)]
          /\ AllPlain(es) /\ AllPlain(fs) /\ SameNames(fs, orig) /\ SameLabels(fs, orig)
    BY <1>2 DEF Holds
  <2>2. pc' = "import" /\ todo' = es /\ copy' \union todo' = es
    BY <1>1, <1>4, <2>1 DEF Dump!ReadDump, Data
  <2>3. SameNames(es, orig)
    BY <1>4, <2>1 DEF Dump!VerifyData, SameNames, Data
  <2>4. ~ignore => es = fs
    BY <1>4, <2>1 DEF Dump!VerifyData, Data
  <2> QED
    BY <1>1, <1>2, <2>1, <2>2, <2>3, <2>4 DEF ImportInv
<1> QED
  BY <1>3, <1>4

LEMMA Imports ==
    ASSUME ImportInv, NEW es, Dump!DoImport(es)
    PROVE  ImportInv'
<1>1. /\ pc = "import" /\ es \subseteq todo /\ UNCHANGED <<wallet, orig, dump, ignore>>
      /\ todo' = todo \ es /\ pc' = IF todo' = {} THEN "imported" ELSE "import"
  BY DEF Dump!DoImport
<1>2. PICK fetched : /\ fetched = IF coin = "btc" THEN {[e EXCEPT !.amt = 0] : e \in es} ELSE es
                 /\ copy' = copy \union fetched
  BY DEF Dump!DoImport
<1>3. AllPlain(es) /\ AllPlain(todo')
  BY <1>1 DEF ImportInv, AllPlain
<1>4. AllPlain(fetched) /\ SameNames(fetched, es) /\ SameLabels(fetched, es)
  <2>1. CASE coin = "btc"
    <3>1. Revalued(es, fetched)
      BY <1>2, <2>1 DEF Revalued, Renewed
    <3> QED
      BY <1>3, <3>1, AmountsOnly
  <2>2. CASE coin # "btc"
    BY <1>2, <1>3, <2>2 DEF SameNames, SameLabels
  <2> QED
    BY <2>1, <2>2
<1>5. todo = es \union todo'
  BY <1>1
<1>6. SameNames(copy' \union todo', copy \union todo) /\ SameLabels(copy' \union todo', copy \union todo)
  <2>1. copy' \union todo' = (copy \union fetched) \union todo' /\ copy \union todo = (copy \union es) \union todo'
    BY <1>2, <1>5
  <2>2. /\ Dump!Mappings(copy \union fetched) = Dump!Mappings(copy \union es)
        /\ Dump!Labels(copy \union fetched) = Dump!Labels(copy \union es)
    <3>1. /\ Dump!Mappings(copy \union fetched) = Dump!Mappings(copy) \union Dump!Mappings(fetched)
          /\ Dump!Mappings(copy \union es) = Dump!Mappings(copy) \union Dump!Mappings(es)
          /\ Dump!Labels(copy \union fetched) = Dump!Labels(copy) \union Dump!Labels(fetched)
          /\ Dump!Labels(copy \union es) = Dump!Labels(copy) \union Dump!Labels(es)
      BY Together
    <3> QED
      BY <1>4, <3>1 DEF SameNames, SameLabels
  <2>3. PICK before, now, rest : before = copy \union es /\ now = copy \union fetched /\ rest = todo'
    OBVIOUS
  <2>4. /\ Dump!Mappings(now \union rest) = Dump!Mappings(before \union rest)
        /\ Dump!Labels(now \union rest) = Dump!Labels(before \union rest)
    <3>1. /\ Dump!Mappings(now) = Dump!Mappings(before) /\ Dump!Labels(now) = Dump!Labels(before)
      BY <2>2, <2>3
    <3>2. /\ Dump!Mappings(now \union rest) = Dump!Mappings(now) \union Dump!Mappings(rest)
          /\ Dump!Mappings(before \union rest) = Dump!Mappings(before) \union Dump!Mappings(rest)
          /\ Dump!Labels(now \union rest) = Dump!Labels(now) \union Dump!Labels(rest)
          /\ Dump!Labels(before \union rest) = Dump!Labels(before) \union Dump!Labels(rest)
      BY Together
    <3> QED
      BY <3>1, <3>2
  <2> QED
    BY <2>1, <2>3, <2>4 DEF SameNames, SameLabels
<1>7. SameNames(copy' \union todo', orig) /\ (~ignore => SameLabels(copy' \union todo', orig))
  BY <1>1, <1>6 DEF ImportInv, SameNames, SameLabels
<1>8. Dump!Mappings(copy') \subseteq Dump!Mappings(orig)
  BY <1>7, Together DEF SameNames
<1>9. Holds(dump', orig')
  BY <1>1 DEF ImportInv
<1> QED
  BY <1>1, <1>3, <1>7, <1>8, <1>9 DEF ImportInv

LEMMA ImportStarts == ASSUME Dump!DumpAssumption, Dump!Init PROVE ImportInv
BY DEF Dump!Init, ImportInv, AllPlain, Dump!DumpAssumption, Plainly

LEMMA ImportStep == ASSUME Dump!DumpAssumption PROVE ImportInv /\ [Dump!Next]_Dump!vars => ImportInv'
<1>2. ImportInv /\ [Dump!Next]_Dump!vars => ImportInv'
  <2> SUFFICES ASSUME ImportInv, [Dump!Next]_Dump!vars PROVE ImportInv'
    OBVIOUS
  <2>1. CASE \E n \in Networks, pruned \in SUBSET wallet, amts \in BOOLEAN : Dump!Export(n, pruned, amts)
    BY <2>1, Exported
  <2>2. CASE dump # Dump!Damaged /\ \E old \in dump.data.entries, new \in Entries : Dump!Change(old, new)
    BY <2>2, Changed
  <2>3. CASE \E ign \in BOOLEAN : Dump!StartImport(ign)
    BY <2>3, Begun
  <2>4. CASE Dump!ReadDump
    BY <2>4, FileRead
  <2>5. CASE \E es \in SUBSET todo : Dump!DoImport(es)
    BY <2>5, Imports
  <2>6. CASE UNCHANGED Dump!vars
    <3>1. UNCHANGED <<coin, net, wallet, orig, dump, bad, copy, todo, ignore, pc>>
      BY <2>6 DEF Dump!vars
    <3> QED
      BY <3>1 DEF ImportInv
  <2>7. CASE Dump!Interrupted \/ Dump!Again
    <3>1. UNCHANGED <<wallet, orig, dump, copy>> /\ pc' \in {"died", "dumped"} /\ pc # "start"
      BY <2>7 DEF Dump!Interrupted, Dump!Again
    <3>2. Holds(dump', orig')
      BY <3>1 DEF ImportInv
    <3> QED
      BY <3>1, <3>2 DEF ImportInv
  <2> QED
    BY <2>1, <2>2, <2>3, <2>4, <2>5, <2>6, <2>7 DEF Dump!Next
<1> QED
  BY <1>2

LEMMA ImportRestores == ImportInv => Dump!DumpRestores
<1>3. ImportInv => Dump!DumpRestores
  <2> SUFFICES ASSUME ImportInv PROVE Dump!DumpRestores
    OBVIOUS
  <2>1. pc = "imported" => copy \union todo = copy
    BY DEF ImportInv
  <2> QED
    BY <2>1 DEF ImportInv, Dump!DumpRestores, SameNames, SameLabels
<1> QED
  BY <1>3

(* An import that ends well gives the wallet that was dumped (TwDump's     *)
(* DumpRestores): for any wallet, pruned or not, any file it may have been *)
(* turned into, and wherever an import was broken off and begun again, the *)
(* new wallet has the addresses under the IDs they had, with their labels  *)
(* unless the checksum was ignored (TwCtlDumpImport and its parts in       *)
(* mmgen/tw/json.py).                                                      *)
THEOREM DumpsRestore == ASSUME Dump!DumpAssumption PROVE Dump!Spec => []Dump!DumpRestores
BY ImportStarts, ImportStep, ImportRestores, PTL DEF Dump!Spec

-----------------------------------------------------------------------------
(* The pruning of the list (TwView).                                       *)
Flags == [amt : BOOLEAN, used : BOOLEAN]

(* The entries that were numbered, and the answers about them.             *)
At(d, s, i) == d[s[i]]

Warn(p, e) == p = "warn" /\ e.used /\ e.amt = 0

Replies(d, s) == [addr : {At(d, s, i).addr : i \in DOMAIN s}, q : {"amt", "used"}, all : BOOLEAN, yes : BOOLEAN]

Said(s) == {s[i] : i \in DOMAIN s}

(* What the answers T about all entries come to, in the flags a_prune()    *)
(* keeps: asking no more, and the answer to assume.  Skipping all used     *)
(* addresses settles the other question.                                   *)
For(T, q) == {t \in T : t.q = q /\ t.all}

Skip(a, d) == a.used /\ ~d.used

Known(T, a, d) ==
    /\ a.used <=> For(T, "used") # {}
    /\ \A t \in For(T, "used") : t.yes <=> d.used
    /\ d.used => a.used
    /\ a.amt <=> (For(T, "amt") # {} \/ Skip(a, d))
    /\ \A t \in For(T, "amt") : d.amt <=> (t.yes /\ ~Skip(a, d))
    /\ d.amt => a.amt
    /\ Skip(a, d) => ~d.amt

(* The mark of an entry, from these flags; warned tells whether it is one  *)
(* to warn of.                                                             *)
Own(T, e) == \E t \in T : t.addr = e.addr /\ t.yes

Marked(T, a, d, e, warned) ==
    IF e.amt > 0 THEN IF Skip(a, d) THEN FALSE ELSE IF a.amt THEN d.amt ELSE Own(T, e)
    ELSE IF warned THEN IF a.used THEN d.used ELSE Own(T, e)
    ELSE TRUE

(* The invariant: the flags are what has been answered, no entry ahead has *)
(* been asked about, and those dealt with are marked as they should be.    *)
PruneInv ==
    /\ tag \in [ListAddrs -> BOOLEAN]
    /\ pc = "prune" =>
        /\ nth \in Nat /\ auto \in Flags /\ dfl \in Flags /\ told \in Seq(Replies(disp, sel))
        /\ Known(Said(told), auto, dfl)
        /\ \A t \in Said(told) : \E j \in 1 .. nth : j \in DOMAIN sel /\ t.addr = At(disp, sel, j).addr
        /\ \A i \in 1 .. nth : i \in DOMAIN sel =>
              (tag[At(disp, sel, i).addr] <=> Marked(Said(told), auto, dfl, At(disp, sel, i), Warn(prune, At(disp, sel, i))))

LEMMA MarkedAsTold ==
    ASSUME Known(Said(told), auto, dfl), auto \in Flags, dfl \in Flags, NEW e, e.amt \in Nat, e.used \in BOOLEAN
    PROVE  View!ToldFor(e) <=> Marked(Said(told), auto, dfl, e, Warn(prune, e))
<1>1. View!Answer("used") = For(Said(told), "used") /\ View!Answer("amt") = For(Said(told), "amt")
  BY DEF View!Answer, For, Said, View!ToSet
<1>2. (\E t \in View!Answer("used") : ~t.yes) <=> Skip(auto, dfl)
  BY <1>1 DEF Known, Skip
<1>3. (\E t \in View!ToSet(told) : t.addr = e.addr /\ t.yes) <=> Own(Said(told), e)
  BY DEF Own, Said, View!ToSet
<1>4. CASE e.amt > 0
  <2>1. View!ToldFor(e) <=> IF Skip(auto, dfl) THEN FALSE
                            ELSE IF For(Said(told), "amt") # {} THEN \A t \in For(Said(told), "amt") : t.yes
                            ELSE Own(Said(told), e)
    BY <1>1, <1>2, <1>3, <1>4 DEF View!ToldFor, View!Warned
  <2> QED
    BY <1>4, <2>1 DEF Marked, Known
<1>5. CASE ~(e.amt > 0)
  <2>1. e.amt = 0
    BY <1>5
  <2>2. CASE ~Warn(prune, e)
    BY <1>5, <2>1, <2>2 DEF View!ToldFor, View!Warned, Warn, Marked
  <2>3. CASE Warn(prune, e)
    <3>1. View!ToldFor(e) <=> IF Skip(auto, dfl) THEN FALSE
                              ELSE IF For(Said(told), "used") # {} THEN \A t \in For(Said(told), "used") : t.yes
                              ELSE Own(Said(told), e)
      BY <1>1, <1>2, <1>3, <1>5, <2>1, <2>3 DEF View!ToldFor, View!Warned, Warn
    <3> QED
      BY <1>5, <2>3, <3>1 DEF Marked, Known, Skip
  <2> QED
    BY <2>2, <2>3
<1> QED
  BY <1>4, <1>5

LEMMA ToldMore ==
    ASSUME NEW S, NEW s \in Seq(S), NEW x \in S
    PROVE  /\ Append(s, x) \in Seq(S)
           /\ Said(Append(s, x)) = Said(s) \union {x}
<1>1. /\ Append(s, x) \in Seq(S) /\ DOMAIN s = 1 .. Len(s) /\ Len(s) \in Nat
      /\ DOMAIN Append(s, x) = 1 .. Len(s) + 1
      /\ \A i \in 1 .. Len(s) : Append(s, x)[i] = s[i]
      /\ Append(s, x)[Len(s) + 1] = x
  OBVIOUS
<1> HIDE DEF Said
<1>2. ASSUME NEW y, y \in Said(Append(s, x)) PROVE y \in Said(s) \union {x}
  <2>1. PICK i \in 1 .. Len(s) + 1 : y = Append(s, x)[i]
    BY <1>1, <1>2 DEF Said
  <2>2. i \in 1 .. Len(s) \/ i = Len(s) + 1
    BY <1>1
  <2> QED
    BY <1>1, <2>1, <2>2 DEF Said
<1>3. ASSUME NEW y, y \in Said(s) \union {x} PROVE y \in Said(Append(s, x))
  <2>1. CASE y = x
    <3>1. Len(s) + 1 \in DOMAIN Append(s, x)
      BY <1>1
    <3> QED
      BY <1>1, <2>1, <3>1 DEF Said
  <2>2. CASE y # x
    <3>1. PICK i \in 1 .. Len(s) : y = s[i]
      BY <1>1, <1>3, <2>2 DEF Said
    <3>2. i \in DOMAIN Append(s, x)
      BY <1>1
    <3> QED
      BY <1>1, <3>1, <3>2 DEF Said
  <2> QED
    BY <2>1, <2>2
<1> QED
  BY <1>1, <1>2, <1>3
(* The entry to be dealt with, and those before it.                        *)
LEMMA NextEntry ==
    ASSUME PruneInv, View!NumbersRight, pc = "prune", nth < Len(sel)
    PROVE  /\ nth + 1 \in DOMAIN sel /\ nth \in Nat
           /\ \A i \in 1 .. nth : i \in DOMAIN sel /\ At(disp, sel, i).addr # At(disp, sel, nth + 1).addr
           /\ \A i \in 1 .. nth + 1 : i \in 1 .. nth \/ i = nth + 1
           /\ \A t \in Said(told) : t.addr # At(disp, sel, nth + 1).addr
<1>1. sel \in Seq(DOMAIN disp) /\ nth \in Nat
  BY DEF PruneInv, View!NumbersRight
<1>2. Len(sel) \in Nat /\ DOMAIN sel = 1 .. Len(sel)
  BY <1>1
<1>3. nth + 1 \in DOMAIN sel /\ \A i \in 1 .. nth : i \in DOMAIN sel /\ i # nth + 1
  BY <1>1, <1>2
<1>4. \A i \in 1 .. nth : At(disp, sel, i).addr # At(disp, sel, nth + 1).addr
  BY <1>3 DEF View!NumbersRight, View!Chosen, At
<1>5. \A t \in Said(told) : t.addr # At(disp, sel, nth + 1).addr
  BY <1>4 DEF PruneInv
<1> QED
  BY <1>1, <1>3, <1>4, <1>5

LEMMA EntryTyped ==
    ASSUME View!NumbersRight, pc = "prune", NEW i \in DOMAIN sel
    PROVE  /\ At(disp, sel, i).addr \in ListAddrs /\ At(disp, sel, i).amt \in Nat
           /\ At(disp, sel, i).used \in BOOLEAN /\ (At(disp, sel, i).amt > 0 => At(disp, sel, i).used)
           /\ Warn(prune, At(disp, sel, i)) => At(disp, sel, i).amt = 0
           /\ View!QuestionAlways(At(disp, sel, i)) \in {"amt", "used", "none"}
BY DEF View!NumbersRight, View!Chosen, Warn, At, View!QuestionAlways

LEMMA SettledUnasked ==
    ASSUME PruneInv, View!NumbersRight, View!Unasked PROVE PruneInv'
<1>1. /\ pc = "prune" /\ nth < Len(sel) /\ nth' = nth + 1
      /\ UNCHANGED <<prune, disp, pc, sel, auto, dfl, told>>
  BY DEF View!Unasked, View!shownVars
<1>2. PICK e, q : e = At(disp, sel, nth + 1) /\ q = View!Question(e)
  OBVIOUS
<1>3. /\ IF q = "none" THEN TRUE ELSE auto[q]
      /\ tag' = [tag EXCEPT ![e.addr] = q = "none"]
  BY <1>2 DEF View!Unasked, View!Chosen, At
<1>4. /\ nth + 1 \in DOMAIN sel /\ nth \in Nat
      /\ \A i \in 1 .. nth : i \in DOMAIN sel /\ At(disp, sel, i).addr # e.addr
      /\ \A i \in 1 .. nth + 1 : i \in 1 .. nth \/ i = nth + 1
  BY <1>1, <1>2, NextEntry
<1>5. e.addr \in ListAddrs /\ e.amt \in Nat /\ (Warn(prune, e) => e.amt = 0)
  BY <1>1, <1>2, <1>4, EntryTyped
<1>7. /\ tag' \in [ListAddrs -> BOOLEAN]
      /\ tag'[e.addr] <=> q = "none"
      /\ \A a \in ListAddrs : a # e.addr => tag'[a] = tag[a]
  BY <1>3, <1>5 DEF PruneInv
<1>8. Known(Said(told), auto, dfl) /\ auto \in Flags /\ dfl \in Flags /\ told \in Seq(Replies(disp, sel))
  BY <1>1 DEF PruneInv
<1>9. (q = "none") <=> Marked(Said(told), auto, dfl, e, Warn(prune, e))
  <2>1. CASE e.amt > 0
    <3>1. ~Warn(prune, e)
      BY <1>5, <2>1
    <3>2. q = IF ~dfl.amt THEN "amt" ELSE "none"
      BY <1>2, <2>1, <3>1 DEF View!Question, View!Warned, Warn
    <3> QED
      BY <1>3, <1>8, <2>1, <3>2 DEF Marked, Known
  <2>2. CASE ~(e.amt > 0)
    <3>1. q = IF Warn(prune, e) /\ ~dfl.used THEN "used" ELSE "none"
      BY <1>2, <2>2 DEF View!Question, View!Warned, Warn
    <3> QED
      BY <1>3, <1>8, <2>2, <3>1 DEF Marked, Known
  <2> QED
    BY <2>1, <2>2
<1>10. ASSUME NEW i \in 1 .. nth + 1
       PROVE  tag'[At(disp, sel, i).addr] <=> Marked(Said(told), auto, dfl, At(disp, sel, i), Warn(prune, At(disp, sel, i)))
  <2>1. CASE i = nth + 1
    BY <1>2, <1>7, <1>9, <2>1
  <2>2. CASE i \in 1 .. nth
    <3>1. i \in DOMAIN sel /\ At(disp, sel, i).addr # e.addr /\ At(disp, sel, i).addr \in ListAddrs
      BY <1>1, <1>4, <2>2, EntryTyped
    <3>2. tag'[At(disp, sel, i).addr] = tag[At(disp, sel, i).addr]
      BY <1>7, <3>1
    <3> QED
      BY <1>1, <2>2, <3>1, <3>2 DEF PruneInv
  <2> QED
    BY <1>4, <2>1, <2>2
<1>11. \A t \in Said(told) : \E j \in 1 .. nth + 1 : j \in DOMAIN sel /\ t.addr = At(disp, sel, j).addr
  <2>1. \A t \in Said(told) : \E j \in 1 .. nth : j \in DOMAIN sel /\ t.addr = At(disp, sel, j).addr
    BY <1>1 DEF PruneInv
  <2>2. \A j \in 1 .. nth : j \in 1 .. nth + 1
    BY <1>4
  <2> QED
    BY <2>1, <2>2
<1> QED
  BY <1>1, <1>4, <1>7, <1>8, <1>10, <1>11 DEF PruneInv
(* An answer, and what do_entry() makes of the flags and of an entry that  *)
(* has been dealt with.                                                    *)
Redone(f, q, skip, yes, mark) ==
    CASE skip /\ f.used -> FALSE
      [] q = "amt" /\ f.amt > 0 -> yes
      [] q = "used" /\ f.used /\ f.amt = 0 -> yes
      [] OTHER -> mark

Skips(q, all, yes, a, d) == IF q = "used" THEN all /\ ~yes ELSE Skip(a, d)

LEMMA KnownMore ==
    ASSUME NEW T, NEW a \in Flags, NEW d \in Flags, Known(T, a, d), NEW x, NEW a2 \in Flags, NEW d2 \in Flags,
           x.all \in BOOLEAN, x.yes \in BOOLEAN,
           \/ /\ x.q = "amt" /\ ~a.amt
              /\ (a2.amt <=> x.all) /\ (a2.used <=> a.used) /\ (d2.amt <=> x.all /\ x.yes) /\ (d2.used <=> d.used)
           \/ /\ x.q = "used" /\ ~a.used
              /\ (a2.used <=> x.all) /\ (a2.amt <=> a.amt \/ (x.all /\ ~x.yes))
              /\ (d2.used <=> x.all /\ x.yes) /\ (d2.amt <=> d.amt /\ ~(x.all /\ ~x.yes))
    PROVE  Known(T \union {x}, a2, d2)
<1>1. CASE x.q = "amt"
  <2>1. For(T \union {x}, "used") = For(T, "used")
    BY <1>1 DEF For
  <2>2. For(T \union {x}, "amt") = IF x.all THEN For(T, "amt") \union {x} ELSE For(T, "amt")
    BY <1>1 DEF For
  <2>3. For(T, "amt") = {} /\ ~Skip(a, d) /\ ~Skip(a2, d2)
    BY <1>1 DEF Known, Skip
  <2> QED
    BY <1>1, <2>1, <2>2, <2>3 DEF Known, Flags
<1>2. CASE x.q = "used"
  <2>1. For(T \union {x}, "amt") = For(T, "amt")
    BY <1>2 DEF For
  <2>2. For(T \union {x}, "used") = IF x.all THEN For(T, "used") \union {x} ELSE For(T, "used")
    BY <1>2 DEF For
  <2>3. For(T, "used") = {} /\ ~Skip(a, d) /\ (Skip(a2, d2) <=> x.all /\ ~x.yes)
    BY <1>2 DEF Known, Skip
  <2> QED
    BY <1>2, <2>1, <2>2, <2>3 DEF Known, Flags
<1> QED
  BY <1>1, <1>2

LEMMA SettledByAnswer ==
    ASSUME PruneInv, View!NumbersRight, NEW all \in BOOLEAN, NEW yes \in BOOLEAN, View!Ask(all, yes)
    PROVE  PruneInv'
<1>1. pc = "prune" /\ nth < Len(sel) /\ nth' = nth + 1 /\ UNCHANGED <<prune, disp, pc, sel>>
  BY DEF View!Ask, View!shownVars
<1>2. PICK e, q, x :
        /\ e = At(disp, sel, nth + 1) /\ q = View!Question(e)
        /\ x = [addr |-> e.addr, q |-> q, all |-> all, yes |-> yes]
  OBVIOUS
<1> DEFINE skip == Skips(q, all, yes, auto, dfl)
<1>3. /\ q # "none" /\ ~auto[q] /\ told' = Append(told, x)
      /\ auto' = [auto EXCEPT ![q] = all, !.amt = IF q = "amt" THEN all ELSE @ \/ skip]
      /\ dfl' = [dfl EXCEPT ![q] = all /\ yes, !.amt = IF q = "amt" THEN all /\ yes ELSE @ /\ ~skip]
  BY <1>2 DEF View!Ask, View!Chosen, At, Skips, Skip
<1>4. /\ nth + 1 \in DOMAIN sel /\ nth \in Nat
      /\ \A i \in 1 .. nth : i \in DOMAIN sel /\ At(disp, sel, i).addr # e.addr
      /\ \A i \in 1 .. nth + 1 : i \in 1 .. nth \/ i = nth + 1
      /\ \A t \in Said(told) : t.addr # e.addr
  BY <1>1, <1>2, NextEntry
<1>5. e.addr \in ListAddrs /\ e.amt \in Nat /\ (Warn(prune, e) => e.amt = 0)
  BY <1>1, <1>2, <1>4, EntryTyped
<1>6. Known(Said(told), auto, dfl) /\ auto \in Flags /\ dfl \in Flags /\ told \in Seq(Replies(disp, sel))
  BY <1>1 DEF PruneInv
<1>7. /\ auto = [amt |-> auto.amt, used |-> auto.used] /\ auto.amt \in BOOLEAN /\ auto.used \in BOOLEAN
      /\ dfl = [amt |-> dfl.amt, used |-> dfl.used] /\ dfl.amt \in BOOLEAN /\ dfl.used \in BOOLEAN
  BY <1>6 DEF Flags
<1>8. /\ q \in {"amt", "used"}
      /\ q = "amt" => e.amt > 0 /\ ~auto.amt /\ ~skip
      /\ q = "used" => Warn(prune, e) /\ e.amt = 0 /\ ~auto.used /\ (skip <=> all /\ ~yes)
  <2>1. q \in {"amt", "used"} /\ (q = "amt" => e.amt > 0) /\ (q = "used" => Warn(prune, e))
    BY <1>2, <1>3 DEF View!Question, View!Warned, Warn
  <2>2. q = "amt" => ~skip
    BY <1>3, <1>6 DEF Known, Skips, Skip
  <2>3. q = "used" => (skip <=> all /\ ~yes)
    BY DEF Skips
  <2> QED
    BY <1>3, <1>5, <2>1, <2>2, <2>3
<1>9. /\ q = "amt" => /\ auto' = [amt |-> all, used |-> auto.used]
                      /\ dfl' = [amt |-> all /\ yes, used |-> dfl.used]
      /\ q = "used" => /\ auto' = [amt |-> auto.amt \/ skip, used |-> all]
                       /\ dfl' = [amt |-> dfl.amt /\ ~skip, used |-> all /\ yes]
  <2>1. CASE q = "amt"
    BY <1>3, <1>7, <2>1
  <2>2. CASE q = "used"
    BY <1>3, <1>7, <2>2
  <2> QED
    BY <1>8, <2>1, <2>2
<1>10. auto' \in Flags /\ dfl' \in Flags
  BY <1>7, <1>8, <1>9 DEF Flags
<1>11. told' \in Seq(Replies(disp, sel)) /\ Said(told') = Said(told) \union {x}
  <2>1. PICK S : S = Replies(disp, sel)
    OBVIOUS
  <2>2. x \in S
    BY <1>2, <1>4, <1>8, <2>1 DEF Replies
  <2>3. Append(told, x) \in Seq(S) /\ Said(Append(told, x)) = Said(told) \union {x}
    BY <1>6, <2>1, <2>2, ToldMore
  <2> QED
    BY <1>3, <2>1, <2>3
<1>12. Known(Said(told'), auto', dfl')
  <2>1. x.q = q /\ x.all = all /\ x.yes = yes
    BY <1>2
  <2>2. CASE q = "amt"
    BY <1>6, <1>8, <1>9, <1>10, <1>11, <2>1, <2>2, KnownMore
  <2>3. CASE q = "used"
    <3>1. /\ x.q = "used" /\ ~auto.used /\ x.all \in BOOLEAN /\ x.yes \in BOOLEAN
          /\ (auto'.used <=> x.all) /\ (auto'.amt <=> auto.amt \/ (x.all /\ ~x.yes))
          /\ (dfl'.used <=> x.all /\ x.yes) /\ (dfl'.amt <=> dfl.amt /\ ~(x.all /\ ~x.yes))
      <4>1. ~auto.used /\ (skip <=> all /\ ~yes)
        BY <1>8, <2>3
      <4>2. /\ auto'.used = all /\ auto'.amt = (auto.amt \/ skip)
            /\ dfl'.used = (all /\ yes) /\ dfl'.amt = (dfl.amt /\ ~skip)
        BY <1>9, <2>3
      <4> HIDE DEF skip
      <4> QED
        BY <2>1, <2>3, <4>1, <4>2, Zenon
    <3>2. Known(Said(told) \union {x}, auto', dfl')
      BY <1>6, <1>10, <3>1, KnownMore
    <3> QED
      BY <1>11, <3>2
  <2> QED
    BY <1>8, <2>2, <2>3
<1>13. /\ tag' \in [ListAddrs -> BOOLEAN] /\ tag'[e.addr] = yes
       /\ \A i \in 1 .. nth : tag'[At(disp, sel, i).addr] =
                                 IF all THEN Redone(At(disp, sel, i), q, skip, yes, tag[At(disp, sel, i).addr])
                                 ELSE tag[At(disp, sel, i).addr]
  <2> DEFINE before == IF all THEN {At(disp, sel, i) : i \in 1 .. nth} ELSE {}
             the(a) == CHOOSE f \in before : f.addr = a
  <2>1. tag' = [a \in ListAddrs |-> IF a = e.addr THEN yes
                                ELSE IF \E f \in before : f.addr = a THEN Redone(the(a), q, skip, yes, tag[the(a).addr])
                                ELSE tag[a]]
    <3> DEFINE e0 == At(disp, sel, nth + 1)
               q0 == View!Question(e0)
    <3>1. tag' = [a \in ListAddrs |->
            IF a = e0.addr THEN yes
            ELSE IF \E f \in before : f.addr = a
            THEN Redone(the(a), q0, Skips(q0, all, yes, auto, dfl), yes, tag[the(a).addr])
            ELSE tag[a]]
      BY DEF View!Ask, View!Chosen, At, Redone, Skips, Skip
    <3> QED
      BY <1>2, <3>1
  <2>2. ASSUME NEW i \in 1 .. nth, all PROVE the(At(disp, sel, i).addr) = At(disp, sel, i)
    <3>1. At(disp, sel, i) \in before
      BY <2>2
    <3>2. \A f \in before : f.addr = At(disp, sel, i).addr => f = At(disp, sel, i)
      <4>1. \A j \in 1 .. nth : At(disp, sel, j).addr = At(disp, sel, i).addr => j = i
        BY <1>1, <1>4 DEF View!NumbersRight, View!Chosen, At
      <4> QED
        BY <2>2, <4>1
    <3> QED
      BY <3>1, <3>2
  <2>3. ASSUME NEW i \in 1 .. nth
        PROVE  /\ At(disp, sel, i).addr \in ListAddrs /\ At(disp, sel, i).addr # e.addr
               /\ (\E f \in before : f.addr = At(disp, sel, i).addr) <=> all
    <3>1. i \in DOMAIN sel
      BY <1>4
    <3> QED
      BY <1>1, <1>4, <3>1, EntryTyped
  <2>4. tag' \in [ListAddrs -> BOOLEAN] /\ tag'[e.addr] = yes
    <3>1. \A a \in ListAddrs : (\E f \in before : f.addr = a) => the(a).addr = a
      OBVIOUS
    <3> HIDE DEF before, the
    <3>2. \A a \in ListAddrs : tag[a] \in BOOLEAN
      BY DEF PruneInv
    <3>3. \A f : \A mark \in BOOLEAN : Redone(f, q, Skips(q, all, yes, auto, dfl), yes, mark) \in BOOLEAN
      BY DEF Redone
    <3>4. \A a \in ListAddrs : (\E f \in before : f.addr = a) =>
                              Redone(the(a), q, Skips(q, all, yes, auto, dfl), yes, tag[the(a).addr]) \in BOOLEAN
      BY <3>1, <3>2, <3>3
    <3> QED
      BY <1>5, <2>1, <3>2, <3>4
  <2> HIDE DEF before, the
  <2>5. ASSUME NEW i \in 1 .. nth
        PROVE  tag'[At(disp, sel, i).addr] =
                  IF all THEN Redone(At(disp, sel, i), q, skip, yes, tag[At(disp, sel, i).addr])
                  ELSE tag[At(disp, sel, i).addr]
    BY <2>1, <2>2, <2>3
  <2> QED
    BY <2>4, <2>5
<1>14. ASSUME NEW i \in 1 .. nth + 1
       PROVE  tag'[At(disp, sel, i).addr] <=>
                 Marked(Said(told'), auto', dfl', At(disp, sel, i), Warn(prune, At(disp, sel, i)))
  <2>1. CASE i = nth + 1
    <3>1. Own(Said(told'), e) <=> yes
      BY <1>2, <1>4, <1>11 DEF Own
    <3>2. CASE q = "amt"
      <4>1. ~Skip(auto', dfl') /\ auto'.amt = all /\ (all => dfl'.amt = yes) /\ e.amt > 0
        BY <1>8, <1>9, <3>2 DEF Skips, Skip
      <4> QED
        BY <1>2, <1>13, <2>1, <3>1, <4>1 DEF Marked
    <3>3. CASE q = "used"
      <4>1. auto'.used = all /\ (all => dfl'.used = yes) /\ e.amt = 0 /\ Warn(prune, e) /\ ~(0 > 0)
        BY <1>8, <1>9, <3>3
      <4> QED
        BY <1>2, <1>13, <2>1, <3>1, <4>1 DEF Marked
    <3> QED
      BY <1>8, <3>2, <3>3
  <2>2. CASE i \in 1 .. nth
    <3>1. PICK f : f = At(disp, sel, i)
      OBVIOUS
    <3>2. /\ f.addr # e.addr /\ f.amt \in Nat /\ (f.amt > 0 => f.used) /\ f.used \in BOOLEAN
          /\ i \in DOMAIN sel
      BY <1>1, <1>4, <2>2, <3>1, EntryTyped
    <3>3. Own(Said(told'), f) <=> Own(Said(told), f)
      BY <1>2, <1>11, <3>2 DEF Own
    <3>4. tag[f.addr] <=> Marked(Said(told), auto, dfl, f, Warn(prune, f))
      BY <1>1, <2>2, <3>1, <3>2 DEF PruneInv
    <3>5. tag'[f.addr] = IF all THEN Redone(f, q, skip, yes, tag[f.addr]) ELSE tag[f.addr]
      BY <1>13, <2>2, <3>1
    <3>6. Warn(prune, f) => f.used /\ f.amt = 0 /\ ~(f.amt > 0)
      BY <3>2 DEF Warn
    <3>7. CASE q = "amt"
      <4>1. /\ ~Skip(auto', dfl') /\ ~Skip(auto, dfl) /\ auto'.amt = all /\ (all => dfl'.amt = yes)
            /\ auto'.used = auto.used /\ dfl'.used = dfl.used /\ ~auto.amt /\ ~skip
        BY <1>8, <1>9, <3>7 DEF Skips, Skip
      <4>2. tag'[f.addr] = IF all /\ f.amt > 0 THEN yes ELSE tag[f.addr]
        BY <3>5, <3>7, <4>1 DEF Redone
      <4> HIDE DEF skip
      <4> QED
        BY <3>1, <3>3, <3>4, <3>6, <4>1, <4>2 DEF Marked
    <3>8. CASE q = "used"
      <4>1. /\ auto'.used = all /\ (all => dfl'.used = yes) /\ ~auto.used /\ ~Skip(auto, dfl)
            /\ (Skip(auto', dfl') <=> all /\ ~yes) /\ (skip <=> all /\ ~yes)
            /\ (auto'.amt <=> auto.amt \/ (all /\ ~yes)) /\ (dfl'.amt <=> dfl.amt /\ ~(all /\ ~yes))
            /\ Warn(prune, e)
        <5> HIDE DEF skip
        <5>1. (skip <=> all /\ ~yes) /\ ~auto.used /\ Warn(prune, e)
          BY <1>8, <3>8
        <5>2. /\ auto'.used = all /\ auto'.amt = (auto.amt \/ skip)
              /\ dfl'.used = (all /\ yes) /\ dfl'.amt = (dfl.amt /\ ~skip)
          BY <1>9, <3>8
        <5> QED
          BY <5>1, <5>2, Zenon DEF Skip
      <4>2. CASE ~all
        <5>1. tag'[f.addr] = tag[f.addr]
          BY <3>5, <4>2
        <5> HIDE DEF skip
        <5> QED
          BY <3>1, <3>3, <3>4, <4>1, <4>2, <5>1, Zenon DEF Marked
      <4>3. CASE all
        <5>1. f.amt = 0 /\ f.used => Warn(prune, f)
          BY <4>1 DEF Warn
        <5>2. f.amt = 0 \/ f.amt > 0
          BY <3>2
        <5>3. tag'[f.addr] = Redone(f, q, skip, yes, tag[f.addr])
          BY <3>5, <4>3
        <5> HIDE DEF skip
        <5>4. CASE yes
          <6>1. tag'[f.addr] = IF f.used /\ f.amt = 0 THEN yes ELSE tag[f.addr]
            BY <3>8, <4>1, <5>3, <5>4 DEF Redone
          <6> QED
            BY <3>1, <3>2, <3>3, <3>4, <3>6, <4>1, <4>3, <5>1, <5>2, <5>4, <6>1 DEF Marked
        <5>5. CASE ~yes
          <6>1. tag'[f.addr] = IF f.used THEN FALSE ELSE tag[f.addr]
            BY <3>2, <3>8, <4>1, <4>3, <5>3, <5>5 DEF Redone
          <6> QED
            BY <3>1, <3>2, <3>3, <3>4, <3>6, <4>1, <4>3, <5>1, <5>2, <5>5, <6>1 DEF Marked
        <5> QED
          BY <5>4, <5>5
      <4> QED
        BY <4>2, <4>3
    <3> QED
      BY <1>8, <3>7, <3>8
  <2> QED
    BY <1>4, <2>1, <2>2
<1>15. \A t \in Said(told') : \E j \in 1 .. nth + 1 : j \in DOMAIN sel /\ t.addr = At(disp, sel, j).addr
  <2>1. \A t \in Said(told) : \E j \in 1 .. nth : j \in DOMAIN sel /\ t.addr = At(disp, sel, j).addr
    BY <1>1 DEF PruneInv
  <2>2. nth + 1 \in 1 .. nth + 1 /\ \A j \in 1 .. nth : j \in 1 .. nth + 1
    BY <1>4
  <2>3. x.addr = At(disp, sel, nth + 1).addr
    BY <1>2
  <2> QED
    BY <1>4, <1>11, <2>1, <2>2, <2>3
<1>16. \A i \in 1 .. nth' : i \in DOMAIN sel' =>
          (tag'[At(disp', sel', i).addr] <=>
              Marked(Said(told'), auto', dfl', At(disp', sel', i), Warn(prune', At(disp', sel', i))))
  BY <1>1, <1>14
<1>17. \A t \in Said(told') : \E j \in 1 .. nth' : j \in DOMAIN sel' /\ t.addr = At(disp', sel', j).addr
  BY <1>1, <1>15
<1>18. nth' \in Nat /\ told' \in Seq(Replies(disp', sel'))
  BY <1>1, <1>4, <1>11
<1> QED
  BY <1>10, <1>12, <1>13, <1>16, <1>17, <1>18 DEF PruneInv

(* The entries marked are those the user's answers, taken together, say    *)
(* (TwView's PrunedAsTold): for any list and any numbers, however the      *)
(* answers for one and for all are mixed, and though an answer for all     *)
(* goes back over the entries already dealt with (a_prune and do_entry in  *)
(* mmgen/tw/prune.py).  That the numbers name entries of the screen, none  *)
(* of them twice, is the hypothesis: it rests on what sorting and          *)
(* filtering a list give, and is checked with the model.                   *)
THEOREM MarksAreTheAnswers == View!Spec /\ []View!NumbersRight => []View!PrunedAsTold
<1>1. View!Init => PruneInv
  BY DEF View!Init, PruneInv
<1>2. PruneInv /\ View!NumbersRight /\ [View!Next]_View!vars => PruneInv'
  <2> SUFFICES ASSUME PruneInv, View!NumbersRight, [View!Next]_View!vars PROVE PruneInv'
    OBVIOUS
  <2>1. CASE View!Unasked
    BY <2>1, SettledUnasked
  <2>2. CASE \E all, yes \in BOOLEAN : View!Ask(all, yes)
    BY <2>2, SettledByAnswer
  <2>3. CASE \E numbers \in SUBSET DOMAIN disp : View!Prune(numbers)
    <3>1. /\ nth' = 0 /\ told' = <<>> /\ auto' = [amt |-> FALSE, used |-> FALSE]
          /\ dfl' = [amt |-> FALSE, used |-> FALSE] /\ tag' = tag
      BY <2>3 DEF View!Prune, View!Nobody
    <3>2. Said(told') = {} /\ \A q : For({}, q) = {}
      BY <3>1 DEF Said, For
    <3>3. Known(Said(told'), auto', dfl')
      BY <3>1, <3>2 DEF Known, Skip
    <3>4. told' \in Seq(Replies(disp', sel'))
      BY <3>1
    <3>5. auto' \in Flags /\ dfl' \in Flags /\ nth' \in Nat /\ 1 .. nth' = {}
      BY <3>1 DEF Flags
    <3> QED
      BY <3>1, <3>2, <3>3, <3>4, <3>5 DEF PruneInv
  <2>4. CASE \E numbers \in SUBSET DOMAIN disp : View!Unprune(numbers)
    <3>1. pc' = "format" /\ tag' \in [ListAddrs -> BOOLEAN]
      BY <2>4 DEF View!Unprune
    <3> QED
      BY <3>1 DEF PruneInv
  <2>5. CASE \/ View!Format \/ View!ReverseAction \/ View!DisplayAction \/ View!ScrollAction \/ View!PruneDone
             \/ \E key \in {"amt", "twmmid"} : View!SortAction(key)
             \/ \E i \in DOMAIN disp : View!ItemAction(i)
    <3>1. tag' = tag /\ pc' # "prune"
      BY <2>5 DEF View!Format, View!ReverseAction, View!DisplayAction, View!ScrollAction, View!PruneDone,
         View!SortAction, View!ItemAction, View!Key, View!pruning
    <3> QED
      BY <3>1 DEF PruneInv
  <2>6. CASE (\E a \in ListAddrs : View!Outside(a)) \/ UNCHANGED View!vars
    <3>1. UNCHANGED <<prune, disp, pc, tag, sel, nth, auto, dfl, told>>
      BY <2>6 DEF View!Outside, View!shownVars, View!pruning, View!vars
    <3> QED
      BY <3>1 DEF PruneInv
  <2> QED
    BY <2>1, <2>2, <2>3, <2>4, <2>5, <2>6 DEF View!Next
<1>3. PruneInv /\ View!NumbersRight => View!PrunedAsTold
  <2> SUFFICES ASSUME PruneInv, View!NumbersRight, pc = "prune", nth = Len(sel), NEW i \in DOMAIN sel
               PROVE  tag[View!Chosen(i).addr] = View!ToldFor(View!Chosen(i))
    BY DEF View!PrunedAsTold
  <2>1. i \in 1 .. nth
    BY DEF View!NumbersRight
  <2>2. View!Chosen(i) = At(disp, sel, i)
    BY DEF View!Chosen, At
  <2>3. PICK e : e = At(disp, sel, i)
    OBVIOUS
  <2>4. e.addr \in ListAddrs /\ e.amt \in Nat /\ e.used \in BOOLEAN
    BY <2>3, EntryTyped
  <2>5. View!ToldFor(e) <=> Marked(Said(told), auto, dfl, e, Warn(prune, e))
    BY <2>4, MarkedAsTold DEF PruneInv
  <2>6. tag[e.addr] <=> Marked(Said(told), auto, dfl, e, Warn(prune, e))
    BY <2>1, <2>3 DEF PruneInv
  <2>7. tag[e.addr] \in BOOLEAN /\ View!ToldFor(e) \in BOOLEAN
    BY <2>4 DEF PruneInv, View!ToldFor
  <2> QED
    BY <2>2, <2>3, <2>5, <2>6, <2>7
<1> QED
  BY <1>1, <1>2, <1>3, PTL DEF View!Spec
-----------------------------------------------------------------------------
(* The numbers of the list, and its order (TwView).                        *)
(* A relation by which the elements of a finite set can be put in order.   *)
Orders(R, S) ==
    /\ \A x \in S : <<x, x>> \notin R
    /\ \A x, y \in S : x # y => <<x, y>> \in R \/ <<y, x>> \in R
    /\ \A x, y, z \in S : <<x, y>> \in R /\ <<y, z>> \in R => <<x, z>> \in R

LEMMA Leasts ==
    ASSUME NEW T, T \subseteq Nat, T # {}
    PROVE  \E m \in T : \A j \in T : m <= j
<1> DEFINE R == OpToRel(<, Nat)
<1>1. IsWellFoundedOn(R, Nat)
  BY NatLessThanWellFounded
<1>2. \A i \in Nat, j \in Nat : i < j => <<i, j>> \in R
  BY DEF OpToRel
<1> HIDE DEF R
<1>3. PICK m \in T : \A j \in T : <<j, m>> \notin R
  BY <1>1, WFMin
<1>4. \A j \in T : ~ (j < m)
  BY <1>2, <1>3
<1> QED
  BY <1>3, <1>4

LEMMA Fewer ==
    ASSUME NEW S, IsFiniteSet(S), NEW x \in S
    PROVE  /\ IsFiniteSet(S \ {x}) /\ Cardinality(S) \in Nat /\ Cardinality(S \ {x}) \in Nat
           /\ Cardinality(S \ {x}) = Cardinality(S) - 1
BY FS_RemoveElement, FS_CardinalityType

(* A finite set that is not empty has a last element.                      *)
Lasting(k) ==
    \A S : IsFiniteSet(S) /\ Cardinality(S) = k /\ S # {} =>
        \A R : Orders(R, S) => \E m \in S : \A x \in S \ {m} : <<x, m>> \in R

LEMMA LastOfAll == \A k \in Nat : Lasting(k)
<1> SUFFICES ASSUME \E k \in Nat : ~Lasting(k) PROVE FALSE
  OBVIOUS
<1>1. PICK k \in Nat : ~Lasting(k) /\ \A j \in Nat : j < k => Lasting(j)
  <2> DEFINE T == {j \in Nat : ~Lasting(j)}
  <2>1. PICK m \in T : \A j \in T : m <= j
    BY Leasts
  <2> QED
    BY <2>1
<1>2. PICK S : /\ IsFiniteSet(S) /\ Cardinality(S) = k /\ S # {}
               /\ \E R : Orders(R, S) /\ ~ \E m \in S : \A x \in S \ {m} : <<x, m>> \in R
  BY <1>1 DEF Lasting
<1>3. PICK R : Orders(R, S) /\ ~ \E m \in S : \A x \in S \ {m} : <<x, m>> \in R
  BY <1>2
<1>4. PICK e \in S : TRUE
  BY <1>2
<1>5. IsFiniteSet(S \ {e}) /\ Cardinality(S \ {e}) = k - 1 /\ k - 1 \in Nat
  BY <1>2, <1>4, Fewer
<1>6. S \ {e} # {}
  BY <1>3, <1>4
<1>7. Orders(R, S \ {e})
  BY <1>3 DEF Orders
<1>8. PICK m \in S \ {e} : \A x \in (S \ {e}) \ {m} : <<x, m>> \in R
  BY <1>1, <1>5, <1>6, <1>7 DEF Lasting
<1>9. CASE <<e, m>> \in R
  BY <1>3, <1>8, <1>9
<1>10. CASE <<m, e>> \in R
  BY <1>3, <1>4, <1>8, <1>10 DEF Orders
<1> QED
  BY <1>3, <1>4, <1>8, <1>9, <1>10 DEF Orders

(* Its elements can be put in order.                                       *)
Sortable(k) ==
    \A S : IsFiniteSet(S) /\ Cardinality(S) = k =>
        \A R : Orders(R, S) => \E f \in [1 .. k -> S] : \A i, j \in 1 .. k : i < j => <<f[i], f[j]>> \in R

LEMMA AllSortable == \A k \in Nat : Sortable(k)
<1> SUFFICES ASSUME \E k \in Nat : ~Sortable(k) PROVE FALSE
  OBVIOUS
<1>1. PICK k \in Nat : ~Sortable(k) /\ \A j \in Nat : j < k => Sortable(j)
  <2> DEFINE T == {j \in Nat : ~Sortable(j)}
  <2>1. PICK m \in T : \A j \in T : m <= j
    BY Leasts
  <2> QED
    BY <2>1
<1>2. PICK S : /\ IsFiniteSet(S) /\ Cardinality(S) = k
               /\ \E R : Orders(R, S) /\ ~ \E f \in [1 .. k -> S] : \A i, j \in 1 .. k : i < j => <<f[i], f[j]>> \in R
  BY <1>1 DEF Sortable
<1>3. PICK R : Orders(R, S) /\ ~ \E f \in [1 .. k -> S] : \A i, j \in 1 .. k : i < j => <<f[i], f[j]>> \in R
  BY <1>2
<1>4. S # {}
  <2> SUFFICES ASSUME S = {} PROVE FALSE
    OBVIOUS
  <2>1. k = 0
    BY <1>2, FS_EmptySet
  <2>2. [i \in 1 .. k |-> 0] \in [1 .. k -> S]
    BY <2>1
  <2> QED
    BY <1>3, <2>1, <2>2
<1>5. PICK m \in S : \A x \in S \ {m} : <<x, m>> \in R
  BY <1>2, <1>3, <1>4, LastOfAll DEF Lasting
<1>6. IsFiniteSet(S \ {m}) /\ Cardinality(S \ {m}) = k - 1 /\ k - 1 \in Nat
  BY <1>2, Fewer
<1>7. Orders(R, S \ {m})
  BY <1>3 DEF Orders
<1>8. PICK f \in [1 .. (k - 1) -> S \ {m}] : \A i, j \in 1 .. (k - 1) : i < j => <<f[i], f[j]>> \in R
  BY <1>1, <1>6, <1>7 DEF Sortable
<1> DEFINE g == [i \in 1 .. k |-> IF i = k THEN m ELSE f[i]]
<1>9. g \in [1 .. k -> S]
  <2> SUFFICES ASSUME NEW i \in 1 .. k PROVE (IF i = k THEN m ELSE f[i]) \in S
    OBVIOUS
  <2>1. i = k \/ i \in 1 .. (k - 1)
    OBVIOUS
  <2> QED
    BY <1>8, <2>1
<1>10. ASSUME NEW i \in 1 .. k, NEW j \in 1 .. k, i < j PROVE <<g[i], g[j]>> \in R
  <2>1. i \in 1 .. (k - 1) /\ (j = k \/ j \in 1 .. (k - 1))
    BY <1>10
  <2>2. g[i] = f[i] /\ f[i] \in S \ {m} /\ g[j] = IF j = k THEN m ELSE f[j]
    BY <1>8, <2>1
  <2> HIDE DEF g
  <2>3. CASE j = k
    BY <1>5, <2>2, <2>3
  <2>4. CASE j # k
    BY <1>8, <1>10, <2>1, <2>2, <2>4
  <2> QED
    BY <2>3, <2>4
<1> HIDE DEF g
<1> QED
  BY <1>3, <1>9, <1>10

LEMMA Members == ASSUME NEW T PROVE View!Cardinality(T) = Cardinality(T)
BY DEF View!Cardinality, Cardinality

LEMMA Finite == ASSUME NEW T PROVE View!IsFiniteSet(T) <=> IsFiniteSet(T)
BY DEF View!IsFiniteSet, IsFiniteSet

(* Put in order, each is there once.                                       *)
LEMMA Placed ==
    ASSUME NEW S, IsFiniteSet(S), NEW R, Orders(R, S)
    PROVE  /\ Cardinality(S) \in Nat
           /\ \E f \in [1 .. Cardinality(S) -> S] : \A i, j \in DOMAIN f : i < j => <<f[i], f[j]>> \in R
<1>1. Cardinality(S) \in Nat
  BY FS_CardinalityType
<1> QED
  BY <1>1, AllSortable DEF Sortable

(* The elements of S, each once.                                           *)
Once(f, S) == \E k \in Nat : f \in [1 .. k -> S] /\ \A i, j \in 1 .. k : f[i] = f[j] => i = j

LEMMA Ascends == ASSUME NEW S, IsFiniteSet(S), S \subseteq Int PROVE Once(View!Ascending(S), S)
<1> DEFINE R == {z \in S \X S : z[1] < z[2]}
           k == Cardinality(S)
           Good(f) == f \in [1 .. k -> S] /\ \A i, j \in DOMAIN f : i < j => f[i] < f[j]
<1>1. Orders(R, S)
  BY DEF Orders
<1>2. k \in Nat /\ \E f : Good(f)
  <2>1. PICK f \in [1 .. k -> S] : \A i, j \in DOMAIN f : i < j => <<f[i], f[j]>> \in R
    BY <1>1, Placed
  <2> QED
    BY <1>1, <2>1, Placed
<1>3. View!Ascending(S) = CHOOSE f : Good(f)
  BY Members DEF View!Ascending
<1>4. Good(View!Ascending(S))
  BY <1>2, <1>3
<1>5. \A i, j \in 1 .. k : View!Ascending(S)[i] = View!Ascending(S)[j] => i = j
  <2>1. \A i, j \in 1 .. k : i < j => View!Ascending(S)[i] < View!Ascending(S)[j] /\ View!Ascending(S)[i] \in Int
    BY <1>4
  <2> QED
    BY <1>2, <2>1
<1> QED
  BY <1>2, <1>4, <1>5 DEF Once

-----------------------------------------------------------------------------
Rows == [addr : ListAddrs, amt : Nat, used : BOOLEAN, label : BOOLEAN]

Held(fetched) == fetched \in [ListAddrs -> View!Holding] /\ \A a \in ListAddrs : fetched[a].amt > 0 => fetched[a].used

(* What is read of the wallet.                                             *)
RowsTrue(d) ==
    /\ d \in Seq(Rows)
    /\ \A i, j \in DOMAIN d : d[i].addr = d[j].addr => i = j
    /\ \A i \in DOMAIN d : d[i].amt > 0 => d[i].used

ViewTyped == view \in [key : {"amt", "twmmid"}, reverse : BOOLEAN, empty : BOOLEAN, showused : 0 .. 2, labels : BOOLEAN]

(* Rows taken from a list, each once at most, are a list.                  *)
LEMMA Picked ==
    ASSUME NEW d, RowsTrue(d), NEW S, S \subseteq DOMAIN d, NEW f, Once(f, S)
    PROVE  RowsTrue([i \in DOMAIN f |-> d[f[i]]])
<1>1. PICK k \in Nat : f \in [1 .. k -> S] /\ \A i, j \in 1 .. k : f[i] = f[j] => i = j
  BY DEF Once
<1> DEFINE g == [i \in DOMAIN f |-> d[f[i]]]
<1>2. g = [i \in 1 .. k |-> d[f[i]]]
  BY <1>1
<1>3. \A i \in 1 .. k : f[i] \in DOMAIN d /\ d[f[i]] \in Rows /\ (d[f[i]].amt > 0 => d[f[i]].used)
  BY <1>1 DEF RowsTrue
<1>4. g \in Seq(Rows) /\ DOMAIN g = 1 .. k
  BY <1>1, <1>2, <1>3
<1> QED
  BY <1>1, <1>2, <1>3, <1>4 DEF RowsTrue

LEMMA SortedTrue ==
    ASSUME NEW d, RowsTrue(d), NEW key \in {"amt", "twmmid"}, ViewTyped, ListAddrs \subseteq Int
    PROVE  RowsTrue(View!SortData(key, d))
<1> DEFINE v(i) == View!SortFunc(key, d[i])
           B(i, j) == (IF view.reverse THEN v(i) > v(j) ELSE v(i) < v(j)) \/ (v(i) = v(j) /\ i < j)
           R == {z \in (DOMAIN d) \X (DOMAIN d) : B(z[1], z[2])}
           Good(f) == f \in [DOMAIN d -> DOMAIN d] /\ \A i, j \in DOMAIN d : i < j => B(f[i], f[j])
<1>1. DOMAIN d = 1 .. Len(d) /\ Len(d) \in Nat /\ \A i \in DOMAIN d : d[i] \in Rows
  BY DEF RowsTrue
<1>2. \A i \in DOMAIN d : v(i) \in Int
  <2> SUFFICES ASSUME NEW i \in DOMAIN d PROVE v(i) \in Int
    OBVIOUS
  <2>1. d[i].amt \in Int /\ d[i].addr \in Int
    <3>1. PICK e \in Rows : e = d[i]
      BY <1>1
    <3>2. e.amt \in Nat /\ e.addr \in ListAddrs
      BY DEF Rows
    <3>3. e.amt \in Int
      BY <3>2
    <3>4. e.addr \in Int
      BY <3>2
    <3> QED
      BY <3>1, <3>3, <3>4
  <2> QED
    BY <2>1 DEF View!SortFunc
<1>3. view.reverse \in BOOLEAN
  BY DEF ViewTyped
<1> HIDE DEF v
<1>4. Orders(R, DOMAIN d)
  BY <1>1, <1>2, <1>3 DEF Orders
<1>5. IsFiniteSet(DOMAIN d) /\ Cardinality(DOMAIN d) = Len(d)
  BY <1>1, FS_Interval
<1>6. \E f : Good(f)
  <2>1. PICK f \in [1 .. Len(d) -> DOMAIN d] : \A i, j \in DOMAIN f : i < j => <<f[i], f[j]>> \in R
    BY <1>4, <1>5, Placed
  <2> QED
    BY <1>1, <2>1
<1>7. PICK f : Good(f) /\ View!SortData(key, d) = [i \in DOMAIN d |-> d[f[i]]]
  <2> DEFINE order == CHOOSE f : Good(f)
  <2>1. Good(order)
    BY <1>6
  <2>2. View!SortData(key, d) = [i \in DOMAIN d |-> d[order[i]]]
    BY DEF View!SortData, v
  <2> HIDE DEF order
  <2> QED
    BY <2>1, <2>2
<1>8. \A i, j \in DOMAIN d : f[i] = f[j] => i = j
  <2>1. \A i, j \in DOMAIN d : i < j => f[i] # f[j]
    BY <1>1, <1>2, <1>3, <1>7
  <2> QED
    BY <1>1, <2>1
<1>9. Once(f, DOMAIN d)
  BY <1>1, <1>7, <1>8 DEF Once
<1>10. [i \in DOMAIN f |-> d[f[i]]] = [i \in DOMAIN d |-> d[f[i]]]
  BY <1>7
<1> QED
  BY <1>7, <1>9, <1>10, Picked

(* Rows of addresses taken from the wallet.                                *)
LEMMA Entered ==
    ASSUME NEW fetched, Held(fetched), NEW S, S \subseteq ListAddrs, NEW f, Once(f, S), NEW d,
           d = [i \in DOMAIN f |-> [addr |-> f[i], amt |-> fetched[f[i]].amt, used |-> fetched[f[i]].used, label |-> fetched[f[i]].label]]
    PROVE  RowsTrue(d)
<1>1. PICK k \in Nat : f \in [1 .. k -> S] /\ \A i, j \in 1 .. k : f[i] = f[j] => i = j
  BY DEF Once
<1>2. DOMAIN d = 1 .. k /\ DOMAIN f = 1 .. k
  BY <1>1
<1>3. ASSUME NEW i \in 1 .. k
      PROVE  d[i] \in Rows /\ d[i].addr = f[i] /\ (d[i].amt > 0 => d[i].used)
  <2>1. PICK a \in ListAddrs : a = f[i]
    BY <1>1
  <2>2. PICK h \in View!Holding : h = fetched[a] /\ (h.amt > 0 => h.used)
    BY DEF Held
  <2>3. h.amt \in Nat /\ h.used \in BOOLEAN /\ h.label \in BOOLEAN
    BY DEF View!Holding
  <2>4. d[i] = [addr |-> a, amt |-> h.amt, used |-> h.used, label |-> h.label]
    BY <1>2, <2>1, <2>2
  <2> QED
    BY <2>1, <2>2, <2>3, <2>4 DEF Rows
<1>4. d = [i \in 1 .. k |-> d[i]]
  BY <1>2
<1>5. d \in Seq(Rows)
  BY <1>3, <1>4
<1> QED
  BY <1>1, <1>2, <1>3, <1>5 DEF RowsTrue

LEMMA ReadTrue ==
    ASSUME View!ViewAssumption, ViewTyped, Held(wallet') PROVE RowsTrue(View!GetData)
<1> DEFINE there == {a \in ListAddrs : wallet'[a].there}
           f == View!Ascending(there)
           d == [i \in DOMAIN f |-> [addr |-> f[i], amt |-> wallet'[f[i]].amt, used |-> wallet'[f[i]].used,
                                     label |-> wallet'[f[i]].label]]
<1>1. ListAddrs \subseteq Int /\ IsFiniteSet(there)
  <2>1. ListAddrs \subseteq Int /\ IsFiniteSet(ListAddrs)
    BY Finite DEF View!ViewAssumption
  <2>2. there \subseteq ListAddrs
    OBVIOUS
  <2> QED
    BY <2>1, <2>2, FS_Subset
<1>2. Once(f, there)
  BY <1>1, Ascends
<1>3. View!GetData = View!SortData(view.key, d)
  BY DEF View!GetData
<1>4. there \subseteq ListAddrs /\ view.key \in {"amt", "twmmid"}
  BY DEF ViewTyped
<1> HIDE DEF f, there
<1>5. RowsTrue(d)
  BY <1>2, <1>4, Entered
<1> HIDE DEF d
<1> QED
  BY <1>1, <1>3, <1>4, <1>5, SortedTrue

LEMMA ShownTrue ==
    ASSUME NEW d, RowsTrue(d), NEW v PROVE RowsTrue(View!GetDispData(d, v))
<1>1. PICK S : S \subseteq DOMAIN d /\ View!GetDispData(d, v) = [i \in DOMAIN View!Ascending(S) |-> d[View!Ascending(S)[i]]]
  BY DEF View!GetDispData
<1>2. DOMAIN d = 1 .. Len(d) /\ Len(d) \in Nat
  BY DEF RowsTrue
<1>3. IsFiniteSet(S) /\ S \subseteq Int
  <2>1. IsFiniteSet(1 .. Len(d))
    BY <1>2, FS_Interval
  <2>2. S \subseteq 1 .. Len(d)
    BY <1>1, <1>2
  <2>3. S \subseteq Int
    BY <1>2, <2>2
  <2> QED
    BY <2>1, <2>2, <2>3, FS_Subset
<1> QED
  BY <1>1, <1>3, Ascends, Picked

-----------------------------------------------------------------------------
(* The invariant: lists are true, and the numbers are of the screen shown. *)
ListInv ==
    /\ Held(wallet) /\ RowsTrue(data) /\ RowsTrue(disp) /\ ViewTyped
    /\ pos \in Int /\ top \in Int /\ pc \in {"format", "key", "prune"}
    /\ pc = "prune" => Once(sel, DOMAIN disp)
    /\ View!OnList

LEMMA ListStarts == View!ViewAssumption /\ View!Init => ListInv
<1> SUFFICES ASSUME View!ViewAssumption, View!Init PROVE ListInv
  OBVIOUS
<1>1. Held(wallet)
  BY DEF View!ViewAssumption, View!Init, Held
<1>2. IsFiniteSet(ListAddrs) /\ ListAddrs \subseteq Int
  BY Finite DEF View!ViewAssumption
<1>3. Once(View!Ascending(ListAddrs), ListAddrs)
  BY <1>2, Ascends
<1>4. data = [i \in DOMAIN View!Ascending(ListAddrs) |-> View!Entry(View!Ascending(ListAddrs)[i])]
  BY DEF View!Init
<1>5. RowsTrue(data)
  BY <1>1, <1>3, <1>4, Entered DEF View!Entry
<1> QED
  BY <1>1, <1>5 DEF View!Init, ListInv, ViewTyped, View!OnList

LEMMA FormatTrue == ASSUME View!ViewAssumption, ListInv, View!Format PROVE ListInv'
<1>1. RowsTrue(disp')
  BY ShownTrue DEF View!Format, ListInv
<1>2. /\ UNCHANGED <<wallet, data, view>> /\ pc' = "key"
      /\ top' = IF Len(disp') > Height THEN Len(disp') - Height ELSE 0
      /\ \E p \in {0, pos} : pos' = IF p < top' THEN p ELSE top'
  BY DEF View!Format
<1>3. Len(disp') \in Nat /\ Height \in Nat \ {0} /\ pos \in Int
  BY <1>1 DEF RowsTrue, View!ViewAssumption, ListInv
<1>4. top' \in Int /\ pos' \in Int /\ pos' <= top' /\ (Len(disp') > 0 => pos' < Len(disp'))
  BY <1>2, <1>3
<1>5. disp' # <<>> => Len(disp') > 0
  BY <1>1, <1>3 DEF RowsTrue
<1>6. View!OnList'
  BY <1>3, <1>4, <1>5 DEF View!OnList
<1>7. ViewTyped' /\ Held(wallet') /\ RowsTrue(data')
  BY <1>2 DEF ListInv, ViewTyped
<1> QED
  BY <1>1, <1>2, <1>4, <1>6, <1>7 DEF ListInv

LEMMA ReversedTrue == ASSUME NEW d, RowsTrue(d) PROVE RowsTrue(View!Reverse(d))
<1> DEFINE f == [i \in 1 .. Len(d) |-> Len(d) - i + 1]
<1>1. Len(d) \in Nat /\ DOMAIN d = 1 .. Len(d)
  BY DEF RowsTrue
<1>2. Once(f, DOMAIN d)
  <2>1. f \in [1 .. Len(d) -> DOMAIN d] /\ \A i, j \in 1 .. Len(d) : f[i] = f[j] => i = j
    BY <1>1
  <2> QED
    BY <1>1, <2>1 DEF Once
<1>3. View!Reverse(d) = [i \in DOMAIN f |-> d[f[i]]]
  BY <1>1 DEF View!Reverse
<1> HIDE DEF f
<1> QED
  BY <1>2, <1>3, Picked

LEMMA LabelledTrue ==
    ASSUME NEW d, RowsTrue(d), NEW a,
           NEW e, e = [j \in DOMAIN d |-> IF d[j].addr = a THEN [d[j] EXCEPT !.label = ~@] ELSE d[j]]
    PROVE  RowsTrue(e)
<1>1. DOMAIN e = DOMAIN d /\ DOMAIN d = 1 .. Len(d) /\ Len(d) \in Nat
  BY DEF RowsTrue
<1>2. ASSUME NEW j \in DOMAIN d
      PROVE  e[j] \in Rows /\ e[j].addr = d[j].addr /\ e[j].amt = d[j].amt /\ e[j].used = d[j].used
  <2>1. PICK x \in Rows : x = d[j]
    BY DEF RowsTrue
  <2>2. e[j] = IF x.addr = a THEN [x EXCEPT !.label = ~@] ELSE x
    BY <2>1
  <2> QED
    BY <2>1, <2>2 DEF Rows
<1>3. e = [j \in 1 .. Len(d) |-> e[j]]
  BY <1>1
<1>4. e \in Seq(Rows)
  BY <1>1, <1>2, <1>3
<1> QED
  BY <1>1, <1>2, <1>4 DEF RowsTrue

LEMMA HoldingKept ==
    ASSUME Held(wallet), NEW a \in ListAddrs, NEW h \in View!Holding, h.amt > 0 => h.used,
           wallet' = [wallet EXCEPT ![a] = h]
    PROVE  Held(wallet')
BY DEF Held

LEMMA ItemTrue ==
    ASSUME View!ViewAssumption, ListInv, NEW i \in DOMAIN disp, View!ItemAction(i) PROVE ListInv'
<1>1. UNCHANGED <<view, disp, pos, top>> /\ pc = "key" /\ pc' \in {"key", "format"}
  BY DEF View!ItemAction, View!shownVars, View!Key
<1>2. PICK a \in ListAddrs : a = View!Item(i)
  <2>1. disp[i] \in Rows
    BY DEF ListInv, RowsTrue
  <2> QED
    BY <2>1 DEF View!Item, Rows
<1>3. ViewTyped /\ ViewTyped' /\ RowsTrue(disp') /\ View!OnList'
  BY <1>1 DEF ListInv, ViewTyped, View!OnList
<1>4. \/ /\ wallet' = [wallet EXCEPT ![a].label = IF wallet[a].there THEN ~disp[i].label ELSE FALSE]
         /\ data' = [j \in DOMAIN data |-> IF data[j].addr = a THEN [data[j] EXCEPT !.label = ~@] ELSE data[j]]
      \/ wallet' = [wallet EXCEPT ![a] = View!Gone] /\ data' = View!GetData
      \/ wallet' = wallet /\ data' = View!GetData
      \/ UNCHANGED <<wallet, data>>
  BY <1>2 DEF View!ItemAction
<1>5. Held(wallet')
  <2>1. CASE wallet' = [wallet EXCEPT ![a].label = IF wallet[a].there THEN ~disp[i].label ELSE FALSE]
    <3>1. PICK l \in BOOLEAN : wallet' = [wallet EXCEPT ![a].label = l]
      <4>1. disp[i].label \in BOOLEAN
        <5>1. PICK x \in Rows : x = disp[i]
          BY DEF ListInv, RowsTrue
        <5> QED
          BY <5>1 DEF Rows
      <4> QED
        BY <2>1, <4>1
    <3>2. PICK h \in View!Holding : h = wallet[a] /\ (h.amt > 0 => h.used)
      BY DEF ListInv, Held
    <3> DEFINE g == [h EXCEPT !.label = l]
    <3>3. g \in View!Holding /\ g.amt = h.amt /\ g.used = h.used
      BY DEF View!Holding
    <3>4. wallet' = [wallet EXCEPT ![a] = g]
      BY <3>1, <3>2
    <3> HIDE DEF g
    <3> QED
      BY <3>2, <3>3, <3>4, HoldingKept DEF ListInv
  <2>2. CASE wallet' = [wallet EXCEPT ![a] = View!Gone]
    <3>1. PICK h \in View!Holding : h = View!Gone /\ h.amt = 0
      <4>1. View!Gone \in View!Holding /\ View!Gone.amt = 0
        BY DEF View!Gone, View!Holding
      <4> QED
        BY <4>1
    <3>2. ~(h.amt > 0)
      BY <3>1
    <3>3. Held(wallet) /\ wallet' = [wallet EXCEPT ![a] = h]
      BY <2>2, <3>1 DEF ListInv
    <3> QED
      BY <3>2, <3>3, HoldingKept
  <2>3. CASE wallet' = wallet
    BY <2>3 DEF ListInv
  <2> QED
    BY <1>4, <2>1, <2>2, <2>3
<1>6. RowsTrue(data')
  <2>1. CASE data' = View!GetData
    BY <1>3, <1>5, <2>1, ReadTrue
  <2>2. CASE data' = [j \in DOMAIN data |-> IF data[j].addr = a THEN [data[j] EXCEPT !.label = ~@] ELSE data[j]]
    BY <2>2, LabelledTrue DEF ListInv
  <2>3. CASE data' = data
    BY <2>3 DEF ListInv
  <2> QED
    BY <1>4, <2>1, <2>2, <2>3
<1> QED
  BY <1>1, <1>3, <1>5, <1>6 DEF ListInv

LEMMA OutsideTrue ==
    ASSUME ListInv, NEW a \in ListAddrs, View!Outside(a) PROVE ListInv'
<1>1. UNCHANGED <<data, view, disp, pos, top, pc>> /\ prune = "no"
  BY DEF View!Outside, View!shownVars
<1>2. \/ wallet' = [wallet EXCEPT ![a].amt = 1, ![a].used = TRUE]
      \/ wallet' = [wallet EXCEPT ![a] = View!Gone]
  BY DEF View!Outside
<1>3. PICK h \in View!Holding : wallet' = [wallet EXCEPT ![a] = h] /\ (h.used \/ h.amt = 0)
  <2>1. PICK x \in View!Holding : x = wallet[a]
    BY DEF ListInv, Held
  <2> DEFINE g == [x EXCEPT !.amt = 1, !.used = TRUE]
  <2>2. CASE wallet' = [wallet EXCEPT ![a].amt = 1, ![a].used = TRUE]
    <3>1. g \in View!Holding /\ g.used = TRUE
      BY DEF View!Holding
    <3>2. wallet' = [wallet EXCEPT ![a] = g]
      BY <2>1, <2>2
    <3> HIDE DEF g
    <3> QED
      BY <3>1, <3>2
  <2>3. CASE wallet' = [wallet EXCEPT ![a] = View!Gone]
    <3>1. View!Gone \in View!Holding /\ View!Gone.amt = 0 /\ View!Gone.used = FALSE
      BY DEF View!Gone, View!Holding
    <3> QED
      BY <2>3, <3>1
  <2> QED
    BY <1>2, <2>2, <2>3
<1>4. Held(wallet')
  <2>1. h.amt > 0 => h.used
    <3>1. h.amt = 0 => ~(h.amt > 0)
      OBVIOUS
    <3> QED
      BY <1>3, <3>1
  <2> QED
    BY <1>3, <2>1, HoldingKept DEF ListInv
<1>5. ViewTyped' /\ View!OnList'
  BY <1>1 DEF ListInv, ViewTyped, View!OnList
<1>6. pc' = "prune" => Once(sel', DOMAIN disp')
  <2>1. sel' = sel
    BY DEF View!Outside, View!pruning
  <2> QED
    BY <1>1, <2>1 DEF ListInv
<1> QED
  BY <1>1, <1>4, <1>5, <1>6 DEF ListInv

LEMMA PruneTrue ==
    ASSUME ListInv, NEW numbers \in SUBSET DOMAIN disp, View!Prune(numbers) PROVE ListInv'
<1>1. UNCHANGED <<wallet, data, view, disp, pos, top>> /\ pc' = "prune" /\ sel' = View!Ascending(numbers)
  BY DEF View!Prune, View!shownVars
<1>2. DOMAIN disp = 1 .. Len(disp) /\ Len(disp) \in Nat
  BY DEF ListInv, RowsTrue
<1>3. IsFiniteSet(numbers) /\ numbers \subseteq Int
  <2>1. IsFiniteSet(1 .. Len(disp))
    BY <1>2, FS_Interval
  <2>2. numbers \subseteq Int
    BY <1>2
  <2> QED
    BY <1>2, <2>1, <2>2, FS_Subset
<1>4. Once(sel', numbers)
  BY <1>1, <1>3, Ascends
<1>5. Once(sel', DOMAIN disp')
  BY <1>1, <1>4 DEF Once
<1>6. ViewTyped' /\ View!OnList'
  BY <1>1 DEF ListInv, ViewTyped, View!OnList
<1> QED
  BY <1>1, <1>5, <1>6 DEF ListInv

LEMMA ListStep == ASSUME View!ViewAssumption, ListInv, [View!Next]_View!vars PROVE ListInv'
<1>1. CASE \E key \in {"amt", "twmmid"} : View!SortAction(key)
  <2>1. PICK key \in {"amt", "twmmid"} : View!SortAction(key)
    BY <1>1
  <2>2. /\ view' = [view EXCEPT !.key = key] /\ data' = View!SortData(key, data) /\ pos' \in {0, pos}
        /\ UNCHANGED <<wallet, disp, top>> /\ pc' = "format"
    BY <2>1 DEF View!SortAction
  <2>3. RowsTrue(data')
    BY <2>2, SortedTrue DEF ListInv, View!ViewAssumption
  <2>4. ViewTyped'
    BY <2>2 DEF ListInv, ViewTyped
  <2>5. pos' \in Int /\ View!OnList'
    BY <2>2 DEF ListInv, View!OnList
  <2> QED
    BY <2>2, <2>3, <2>4, <2>5 DEF ListInv
<1>2. CASE View!ReverseAction
  <2>1. view' = [view EXCEPT !.reverse = ~@] /\ data' = View!Reverse(data) /\ UNCHANGED <<wallet, disp, pos, top>> /\ pc' = "format"
    BY <1>2 DEF View!ReverseAction, View!shownVars
  <2>2. ViewTyped' /\ View!OnList'
    BY <2>1 DEF ListInv, ViewTyped, View!OnList
  <2> QED
    BY <2>1, <2>2, ReversedTrue DEF ListInv
<1>3. CASE View!DisplayAction
  <2>1. UNCHANGED <<wallet, data, disp, pos, top>> /\ pc' = "format"
    BY <1>3 DEF View!DisplayAction, View!shownVars
  <2>2. ViewTyped'
    <3>1. view \in [key : {"amt", "twmmid"}, reverse : BOOLEAN, empty : BOOLEAN, showused : 0 .. 2, labels : BOOLEAN]
      BY DEF ListInv, ViewTyped
    <3>2. CASE view' = [view EXCEPT !.empty = ~@]
      BY <3>1, <3>2 DEF ViewTyped
    <3>3. CASE view' = [view EXCEPT !.labels = ~@]
      BY <3>1, <3>3 DEF ViewTyped
    <3>4. CASE view' = [view EXCEPT !.showused = (@ + 1) % 3]
      <4>1. (view.showused + 1) % 3 \in 0 .. 2
        BY <3>1
      <4>2. PICK x \in 0 .. 2 : view' = [view EXCEPT !.showused = x]
        BY <3>4, <4>1
      <4> QED
        BY <3>1, <4>2 DEF ViewTyped
    <3> QED
      BY <1>3, <3>2, <3>3, <3>4 DEF View!DisplayAction
  <2> QED
    BY <2>1, <2>2 DEF ListInv, View!OnList
<1>4. CASE View!ScrollAction
  <2>1. UNCHANGED <<wallet, data, view, disp, top>> /\ pc' = "format"
    BY <1>4 DEF View!ScrollAction
  <2>2. pos' \in Int
    <3>1. pos \in Int /\ top \in Int
      BY DEF ListInv
    <3> QED
      BY <1>4, <3>1 DEF View!ScrollAction, View!Lesser
  <2> QED
    BY <2>1, <2>2 DEF ListInv, ViewTyped, View!OnList
<1>5. CASE \/ \E numbers \in SUBSET DOMAIN disp : View!Unprune(numbers)
           \/ View!PruneDone
  BY <1>5 DEF View!Unprune, View!PruneDone, View!shownVars, ListInv, ViewTyped, View!OnList
<1>6. CASE \/ View!Unasked
           \/ \E all, yes \in BOOLEAN : View!Ask(all, yes)
           \/ UNCHANGED View!vars
  <2>1. UNCHANGED <<wallet, data, view, disp, pos, top, pc, sel>>
    BY <1>6 DEF View!Unasked, View!Ask, View!shownVars, View!vars
  <2> QED
    BY <2>1 DEF ListInv, ViewTyped, View!OnList
<1> QED
  BY <1>1, <1>2, <1>3, <1>4, <1>5, <1>6, FormatTrue, ItemTrue, OutsideTrue, PruneTrue DEF View!Next

(* The screen shows part of the list, and the numbers typed name distinct  *)
(* entries of it, whatever was sorted, filtered, labelled, deleted or      *)
(* paid.                                                                   *)
THEOREM NumbersNameEntries ==
    ASSUME View!ViewAssumption
    PROVE  View!Spec => [](View!NumbersRight /\ View!OnList)
<1>1. ListInv => View!NumbersRight /\ View!OnList
  <2> SUFFICES ASSUME ListInv PROVE View!NumbersRight /\ View!OnList
    OBVIOUS
  <2>1. ASSUME pc = "prune"
        PROVE  /\ sel \in Seq(DOMAIN disp)
               /\ \A i, j \in DOMAIN sel : View!Chosen(i).addr = View!Chosen(j).addr => i = j
               /\ \A i \in DOMAIN sel :
                    LET e == View!Chosen(i)
                    IN e.addr \in ListAddrs /\ e.amt \in Nat /\ (e.amt > 0 => e.used) /\ e.used \in BOOLEAN
    <3>1. PICK k \in Nat : sel \in [1 .. k -> DOMAIN disp] /\ \A i, j \in 1 .. k : sel[i] = sel[j] => i = j
      BY <2>1 DEF ListInv, Once
    <3>2. \A i \in 1 .. k : disp[sel[i]] \in Rows /\ (disp[sel[i]].amt > 0 => disp[sel[i]].used)
      BY <3>1 DEF ListInv, RowsTrue
    <3>3. \A i, j \in 1 .. k : disp[sel[i]].addr = disp[sel[j]].addr => i = j
      BY <3>1 DEF ListInv, RowsTrue
    <3>4. sel \in Seq(DOMAIN disp) /\ DOMAIN sel = 1 .. k
      BY <3>1
    <3> QED
      BY <3>2, <3>3, <3>4 DEF View!Chosen, Rows
  <2> QED
    BY <2>1 DEF View!NumbersRight, ListInv
<1> QED
  BY <1>1, ListStarts, ListStep, PTL DEF View!Spec

(* So all entries pruned are those the user's answers say.                 *)
THEOREM PrunedAsAnswered ==
    ASSUME View!ViewAssumption
    PROVE  View!Spec => [](View!PrunedAsTold /\ View!NumbersRight /\ View!OnList)
BY MarksAreTheAnswers, NumbersNameEntries, PTL
-----------------------------------------------------------------------------
(* The coin daemon: a command's steps and what each needs and leaves; that *)
(* commands at a time leave the daemon as they say; and that one beside   *)
(* which nothing else happens has all it needs at each step.              *)
(* The steps of a command, by the network it is for.                       *)
LoadsOf(u) == {<<"call", "loadwallet", u>>, <<"call", "createwallet", u>>}

Digs(x) == {<<"rpc", x, "miner">>, <<"call", x, "miner">>}

Starts == {<<"start">>, <<"run">>, <<"data dir">>}

Creates == {<<"call", "createwallet", "miner">>, <<"call", "createwallet", "bob">>, <<"call", "createwallet", "alice">>}

Loads == {<<"call", "loadwallet", "miner">>, <<"call", "loadwallet", "bob">>, <<"call", "loadwallet", "alice">>}

Questions == {<<"start?">>, <<"stop?">>, <<"up?">>, <<"stop">>, <<"sleep">>, <<"wait", "ready">>, <<"wait", "stopped">>}

Asked == {<<"getnewaddress", "miner">>, <<"block", "miner">>, <<"more blocks", "miner">>, <<"send", "miner">>,
          <<"listunspent", "bob">>, <<"listunspent", "alice">>, <<"stop", "">>}

Requests == {<<"rpc", x[1], x[2]>> : x \in Asked} \union {<<"call", x[1], x[2]>> : x \in Asked}

RegtestSteps == Starts \union Creates \union Loads \union Questions \union Requests

OwnSteps == {<<"listwallets">>, <<"listwalletdir">>} \union LoadsOf("own")

ClientSteps == {<<"connect">>, <<"chain">>, <<"version">>} \union OwnSteps

StepsOf(kind) == IF kind = "mainnet" THEN ClientSteps ELSE RegtestSteps

(* What is still to come of them: wallets for the daemon that is started   *)
(* or whose directory is deleted, and blocks for wallets that are created. *)
Has(l, S) == \E j \in DOMAIN l : l[j] \in S

HasBlocks(l) == \E j, k \in DOMAIN l : j < k /\ l[j] \in Digs("block") /\ l[k] \in Digs("more blocks")

Follows(s, t) ==
    /\ s \in Starts => \A u \in Daemons!Users : Has(t, LoadsOf(u))
    /\ s \in Creates => HasBlocks(t)

After(l, i) == [j \in 1 .. Len(l) - i |-> l[i + j]]

Ordered(l) == \A i \in DOMAIN l : Follows(l[i], After(l, i))

Fit(kind, l) == l \in Seq(StepsOf(kind)) /\ Ordered(l)

LEMMA ConsFacts ==
    ASSUME NEW S, NEW s \in S, NEW t \in Seq(S)
    PROVE  /\ <<s>> \o t \in Seq(S) /\ <<s>> \o t # <<>>
           /\ Len(<<s>> \o t) = Len(t) + 1 /\ DOMAIN (<<s>> \o t) = 1 .. Len(t) + 1
           /\ (<<s>> \o t)[1] = s /\ \A i \in 1 .. Len(t) : (<<s>> \o t)[i + 1] = t[i]
           /\ DOMAIN t = 1 .. Len(t) /\ Len(t) \in Nat
<1>1. <<s>> \in Seq(S) /\ Len(<<s>>) = 1 /\ <<s>>[1] = s
  OBVIOUS
<1>2. /\ <<s>> \o t \in Seq(S) /\ Len(<<s>> \o t) = 1 + Len(t)
      /\ \A i \in 1 .. 1 + Len(t) : (<<s>> \o t)[i] = IF i <= 1 THEN <<s>>[i] ELSE t[i - 1]
  BY <1>1, ConcatProperties
<1>3. Len(t) \in Nat /\ DOMAIN t = 1 .. Len(t)
  OBVIOUS
<1>4. \A i \in 1 .. Len(t) : (<<s>> \o t)[i + 1] = t[i]
  <2> SUFFICES ASSUME NEW i \in 1 .. Len(t) PROVE (<<s>> \o t)[i + 1] = t[i]
    OBVIOUS
  <2>1. i + 1 \in 1 .. 1 + Len(t) /\ ~ (i + 1 <= 1) /\ (i + 1) - 1 = i
    BY <1>3
  <2> QED
    BY <1>2, <2>1
<1>5. (<<s>> \o t)[1] = s
  BY <1>1, <1>2, <1>3
<1> QED
  BY <1>2, <1>3, <1>4, <1>5

LEMMA HeadOff ==
    ASSUME NEW S, NEW l \in Seq(S), l # <<>>
    PROVE  Head(l) \in S /\ Tail(l) \in Seq(S) /\ l = <<Head(l)>> \o Tail(l)
<1>1. /\ Head(l) \in S /\ Tail(l) \in Seq(S) /\ Len(Tail(l)) = Len(l) - 1
      /\ \A i \in 1 .. Len(Tail(l)) : Tail(l)[i] = l[i + 1]
  BY HeadTailProperties
<1>2. PICK s \in S : s = Head(l)
  BY <1>1
<1>3. PICK t \in Seq(S) : t = Tail(l)
  BY <1>1
<1>4. <<s>> \o t \in Seq(S) /\ Len(<<s>> \o t) = Len(t) + 1 /\ (<<s>> \o t)[1] = s
      /\ \A i \in 1 .. Len(t) : (<<s>> \o t)[i + 1] = t[i]
  BY ConsFacts
<1>5. Len(l) \in Nat /\ Len(l) = Len(t) + 1 /\ l[1] = s
  BY <1>1, <1>2, <1>3
<1>6. \A i \in 1 .. Len(l) : l[i] = (<<s>> \o t)[i]
  <2> SUFFICES ASSUME NEW i \in 1 .. Len(l) PROVE l[i] = (<<s>> \o t)[i]
    OBVIOUS
  <2>1. CASE i = 1
    BY <1>4, <1>5, <2>1
  <2>2. CASE i # 1
    <3>1. PICK k \in 1 .. Len(t) : k + 1 = i
      <4>1. i - 1 \in 1 .. Len(t) /\ (i - 1) + 1 = i
        BY <1>5, <2>2
      <4> QED
        BY <4>1
    <3>2. l[k + 1] = t[k]
      BY <1>1, <1>3
    <3> QED
      BY <1>4, <3>1, <3>2
  <2> QED
    BY <2>1, <2>2
<1>7. l = <<s>> \o t
  BY <1>4, <1>5, <1>6, SeqEqual
<1> QED
  BY <1>1, <1>2, <1>3, <1>7

LEMMA HasCons ==
    ASSUME NEW S, NEW s \in S, NEW t \in Seq(S), NEW W
    PROVE  Has(<<s>> \o t, W) <=> s \in W \/ Has(t, W)
<1>1. PICK l : l = <<s>> \o t
  OBVIOUS
<1>2. DOMAIN l = 1 .. Len(t) + 1 /\ l[1] = s /\ (\A i \in 1 .. Len(t) : l[i + 1] = t[i]) /\ DOMAIN t = 1 .. Len(t) /\ Len(t) \in Nat
  BY <1>1, ConsFacts
<1>3. ASSUME Has(l, W) PROVE s \in W \/ Has(t, W)
  <2>1. PICK j \in 1 .. Len(t) + 1 : l[j] \in W
    BY <1>2, <1>3 DEF Has
  <2>2. CASE j = 1
    BY <1>2, <2>1, <2>2
  <2>3. CASE j # 1
    <3>1. j - 1 \in 1 .. Len(t) /\ (j - 1) + 1 = j
      BY <1>2, <2>3
    <3> QED
      BY <1>2, <2>1, <3>1 DEF Has
  <2> QED
    BY <2>2, <2>3
<1>4. ASSUME s \in W PROVE Has(l, W)
  <2>1. 1 \in DOMAIN l
    BY <1>2
  <2> QED
    BY <1>2, <1>4, <2>1 DEF Has
<1>5. ASSUME Has(t, W) PROVE Has(l, W)
  <2>1. PICK j \in 1 .. Len(t) : t[j] \in W
    BY <1>2, <1>5 DEF Has
  <2>2. j + 1 \in DOMAIN l /\ l[j + 1] \in W
    BY <1>2, <2>1
  <2> QED
    BY <2>2 DEF Has
<1> QED
  BY <1>1, <1>3, <1>4, <1>5

LEMMA HasBlocksCons ==
    ASSUME NEW S, NEW s \in S, NEW t \in Seq(S)
    PROVE  HasBlocks(<<s>> \o t) <=> HasBlocks(t) \/ (s \in Digs("block") /\ Has(t, Digs("more blocks")))
<1>1. PICK l : l = <<s>> \o t
  OBVIOUS
<1>2. DOMAIN l = 1 .. Len(t) + 1 /\ l[1] = s /\ (\A i \in 1 .. Len(t) : l[i + 1] = t[i]) /\ DOMAIN t = 1 .. Len(t) /\ Len(t) \in Nat
  BY <1>1, ConsFacts
<1>6. Len(t) \in Nat
  OBVIOUS
<1>3. ASSUME HasBlocks(l) PROVE HasBlocks(t) \/ (s \in Digs("block") /\ Has(t, Digs("more blocks")))
  <2>1. PICK j, k \in 1 .. Len(t) + 1 : j < k /\ l[j] \in Digs("block") /\ l[k] \in Digs("more blocks")
    BY <1>2, <1>3 DEF HasBlocks
  <2>2. PICK y \in 1 .. Len(t) : y + 1 = k
    <3>1. k - 1 \in 1 .. Len(t) /\ (k - 1) + 1 = k
      <4>1. j < k
        BY <2>1
      <4> QED
        BY <1>6, <4>1
    <3> QED
      BY <3>1
  <2>3. t[y] \in Digs("more blocks")
    <3>1. l[y + 1] = t[y]
      BY <1>2
    <3> QED
      BY <2>1, <2>2, <3>1
  <2>4. CASE j = 1
    BY <1>2, <2>1, <2>3, <2>4 DEF Has
  <2>5. CASE j # 1
    <3>1. PICK x \in 1 .. Len(t) : x + 1 = j
      <4>1. j - 1 \in 1 .. Len(t) /\ (j - 1) + 1 = j
        BY <1>6, <2>5
      <4> QED
        BY <4>1
    <3>2. l[x + 1] = t[x]
      BY <1>2
    <3>4. x < y
      <4>1. j < k
        BY <2>1
      <4> QED
        BY <1>6, <2>2, <3>1, <4>1
    <3>3. t[x] \in Digs("block")
      BY <2>1, <3>1, <3>2
    <3> QED
      BY <1>2, <2>3, <3>3, <3>4 DEF HasBlocks
  <2> QED
    BY <2>4, <2>5
<1>4. ASSUME s \in Digs("block"), Has(t, Digs("more blocks")) PROVE HasBlocks(l)
  <2>1. PICK k \in 1 .. Len(t) : t[k] \in Digs("more blocks")
    BY <1>2, <1>4 DEF Has
  <2>2. 1 \in DOMAIN l /\ k + 1 \in DOMAIN l /\ 1 < k + 1 /\ l[k + 1] = t[k]
    BY <1>2
  <2> QED
    BY <1>2, <1>4, <2>1, <2>2 DEF HasBlocks
<1>5. ASSUME HasBlocks(t) PROVE HasBlocks(l)
  <2>1. PICK j, k \in 1 .. Len(t) : j < k /\ t[j] \in Digs("block") /\ t[k] \in Digs("more blocks")
    BY <1>2, <1>5 DEF HasBlocks
  <2>2. j + 1 \in DOMAIN l /\ k + 1 \in DOMAIN l /\ l[j + 1] = t[j] /\ l[k + 1] = t[k]
    BY <1>2
  <2>3. j + 1 < k + 1
    <3>1. j < k
      BY <2>1
    <3> QED
      BY <1>6, <3>1
  <2> QED
    BY <2>1, <2>2, <2>3 DEF HasBlocks
<1> QED
  BY <1>1, <1>3, <1>4, <1>5

LEMMA FitCons ==
    ASSUME NEW kind, NEW s \in StepsOf(kind), NEW t \in Seq(StepsOf(kind))
    PROVE  Fit(kind, <<s>> \o t) <=> Fit(kind, t) /\ Follows(s, t)
<1>1. PICK l : l = <<s>> \o t
  OBVIOUS
<1>2. /\ l \in Seq(StepsOf(kind)) /\ Len(l) = Len(t) + 1 /\ DOMAIN l = 1 .. Len(t) + 1 /\ l[1] = s
      /\ (\A i \in 1 .. Len(t) : l[i + 1] = t[i]) /\ DOMAIN t = 1 .. Len(t) /\ Len(t) \in Nat
  BY <1>1, ConsFacts
<1>3. After(l, 1) = t
  <2>1. Len(l) - 1 = Len(t) /\ \A j \in 1 .. Len(t) : l[1 + j] = t[j]
    BY <1>2
  <2>2. After(l, 1) = [j \in 1 .. Len(t) |-> t[j]]
    BY <2>1 DEF After
  <2> QED
    BY <2>2
<1>4. ASSUME NEW i \in 1 .. Len(t) PROVE After(l, i + 1) = After(t, i)
  <2>1. Len(l) - (i + 1) = Len(t) - i
    BY <1>2
  <2>2. ASSUME NEW j \in 1 .. Len(t) - i PROVE l[(i + 1) + j] = t[i + j]
    <3>1. i + j \in 1 .. Len(t) /\ (i + 1) + j = (i + j) + 1
      BY <1>2
    <3> QED
      BY <1>2, <3>1
  <2> QED
    BY <2>1, <2>2 DEF After
<1>5. ASSUME Ordered(l) PROVE Ordered(t) /\ Follows(s, t)
  <2>1. 1 \in DOMAIN l
    BY <1>2
  <2>2. ASSUME NEW i \in 1 .. Len(t) PROVE Follows(t[i], After(t, i))
    <3>1. i + 1 \in DOMAIN l /\ l[i + 1] = t[i]
      BY <1>2
    <3>2. Follows(l[i + 1], After(l, i + 1))
      BY <1>5, <3>1 DEF Ordered
    <3> QED
      BY <1>4, <3>1, <3>2
  <2> QED
    BY <1>2, <1>3, <1>5, <2>1, <2>2 DEF Ordered
<1>6. ASSUME Ordered(t), Follows(s, t) PROVE Ordered(l)
  <2> SUFFICES ASSUME NEW i \in 1 .. Len(t) + 1 PROVE Follows(l[i], After(l, i))
    BY <1>2 DEF Ordered
  <2>1. CASE i = 1
    BY <1>2, <1>3, <1>6, <2>1
  <2>2. CASE i # 1
    <3>1. PICK k \in 1 .. Len(t) : k + 1 = i
      <4>1. i - 1 \in 1 .. Len(t) /\ (i - 1) + 1 = i
        BY <1>2, <2>2
      <4> QED
        BY <4>1
    <3>2. Follows(t[k], After(t, k)) /\ l[k + 1] = t[k] /\ After(l, k + 1) = After(t, k)
      BY <1>2, <1>4, <1>6 DEF Ordered
    <3> QED
      BY <3>1, <3>2
  <2> QED
    BY <2>1, <2>2
<1> QED
  BY <1>1, <1>2, <1>5, <1>6 DEF Fit

LEMMA EmptyFit == \A kind : Fit(kind, <<>>) /\ \A S : ~Has(<<>>, S)
BY DEF Fit, Ordered, Has

LEMMA Cons2 ==
    ASSUME NEW S, NEW s1 \in S, NEW s2 \in S, NEW t \in Seq(S)
    PROVE  <<s1, s2>> \o t = <<s1>> \o (<<s2>> \o t)
<1>1. <<s1, s2>> = <<s1>> \o <<s2>> /\ <<s1>> \in Seq(S) /\ <<s2>> \in Seq(S)
  <2>1. <<s1>> \in Seq(S) /\ <<s2>> \in Seq(S) /\ <<s1, s2>> \in Seq(S) /\ Len(<<s1, s2>>) = 2 /\ Len(<<s2>>) = 1
        /\ <<s1, s2>>[1] = s1 /\ <<s1, s2>>[2] = s2 /\ <<s2>>[1] = s2
    OBVIOUS
  <2>2. PICK q : q = <<s1>> \o <<s2>>
    OBVIOUS
  <2>3. q \in Seq(S) /\ Len(q) = 2 /\ q[1] = s1 /\ q[2] = s2
    <3>1. q \in Seq(S) /\ Len(q) = Len(<<s2>>) + 1 /\ q[1] = s1 /\ \A i \in 1 .. Len(<<s2>>) : q[i + 1] = <<s2>>[i]
      BY <2>1, <2>2, ConsFacts
    <3>2. 1 \in 1 .. Len(<<s2>>) /\ 1 + 1 = 2
      BY <2>1
    <3> QED
      BY <2>1, <3>1, <3>2
  <2>4. PICK r \in Seq(S) : r = <<s1, s2>>
    BY <2>1
  <2>5. Len(q) = Len(r) /\ \A i \in 1 .. Len(q) : q[i] = r[i]
    BY <2>1, <2>3, <2>4
  <2> QED
    BY <2>1, <2>2, <2>3, <2>4, <2>5, SeqEqual
<1>2. (<<s1>> \o <<s2>>) \o t = <<s1>> \o (<<s2>> \o t)
  BY <1>1, ConcatAssociative
<1> QED
  BY <1>1, <1>2

ThreeAhead(s1, s2, s3, t) == <<s1, s2, s3>> \o t = <<s1>> \o (<<s2>> \o (<<s3>> \o t))

LEMMA Cons3 ==
    ASSUME NEW S, NEW s1 \in S, NEW s2 \in S, NEW s3 \in S, NEW t \in Seq(S)
    PROVE  ThreeAhead(s1, s2, s3, t)
<1> SUFFICES <<s1, s2, s3>> \o t = <<s1>> \o (<<s2>> \o (<<s3>> \o t))
  BY DEF ThreeAhead
<1>1. <<s1, s2, s3>> = <<s1>> \o <<s2, s3>> /\ <<s1>> \in Seq(S) /\ <<s2, s3>> \in Seq(S)
  OBVIOUS
<1>2. (<<s1>> \o <<s2, s3>>) \o t = <<s1>> \o (<<s2, s3>> \o t)
  BY <1>1, ConcatAssociative
<1>3. <<s2, s3>> \o t = <<s2>> \o (<<s3>> \o t)
  BY Cons2
<1> QED
  BY <1>1, <1>2, <1>3

OneByOne(s1, s2, s3, s4, t) == <<s1, s2, s3, s4>> \o t = <<s1>> \o (<<s2>> \o (<<s3>> \o (<<s4>> \o t)))

LEMMA Cons4 ==
    ASSUME NEW S, NEW s1 \in S, NEW s2 \in S, NEW s3 \in S, NEW s4 \in S, NEW t \in Seq(S)
    PROVE  OneByOne(s1, s2, s3, s4, t)
<1>1. <<s1, s2, s3, s4>> = <<s1>> \o <<s2, s3, s4>> /\ <<s1>> \in Seq(S) /\ <<s2, s3, s4>> \in Seq(S)
  OBVIOUS
<1>2. (<<s1>> \o <<s2, s3, s4>>) \o t = <<s1>> \o (<<s2, s3, s4>> \o t)
  BY <1>1, ConcatAssociative
<1>3. <<s2, s3, s4>> \o t = <<s2>> \o (<<s3>> \o (<<s4>> \o t))
  <2>1. ThreeAhead(s2, s3, s4, t)
    BY Cons3
  <2> QED
    BY <2>1 DEF ThreeAhead
<1> QED
  BY <1>1, <1>2, <1>3 DEF OneByOne

LEMMA EmptyCons == ASSUME NEW S, NEW t \in Seq(S) PROVE <<>> \o t = t /\ t \o <<>> = t
BY ConcatEmptySeq

(* What a command that is alone knows of the daemon before each step, and  *)
(* what the step makes of it.                                              *)
Modes == [st : {"absent", "down", "starting", "ready", "stopping"},
          loaded : SUBSET {"miner", "bob", "alice", "own"}, wallets : SUBSET {"miner", "bob", "alice", "own"}]

Mode(st, loaded, wallets) == [st |-> st, loaded |-> loaded, wallets |-> wallets]

AllReady == Mode("ready", Daemons!Users, Daemons!Users)

CallLeads(m, what, who, n) ==
    /\ m.st = "ready"
    /\ \/ what = "stop" /\ n = Mode("stopping", m.loaded, m.wallets)
       \/ what = "loadwallet" /\ who \in m.wallets \ m.loaded /\ n = Mode("ready", m.loaded \union {who}, m.wallets)
       \/ what = "createwallet" /\ who \notin m.wallets /\ n = Mode("ready", m.loaded \union {who}, m.wallets \union {who})
       \/ what \notin {"stop", "loadwallet", "createwallet"} /\ who \in m.loaded /\ n = m

Leads(m, s, n) ==
    \/ s = <<"start">> /\ m.st \in {"absent", "down"} /\ n = Mode("ready", {}, m.wallets)
    \/ s = <<"run">> /\ m.st \in {"absent", "down"} /\ n = Mode("starting", {}, m.wallets)
    \/ s = <<"wait", "stopped">> /\ m.st \in {"absent", "down", "stopping"} /\ n = m
    \/ s = <<"wait", "ready">> /\ m.st \in {"starting", "ready"} /\ n = Mode("ready", m.loaded, m.wallets)
    \/ s = <<"sleep">> /\ m.st = "stopping" /\ n = m
    \/ s = <<"stop">> /\ m.st = "down" /\ n = m
    \/ s = <<"stop">> /\ m.st = "ready" /\ n = Mode("stopping", m.loaded, m.wallets)
    \/ s = <<"start?">> /\ m.st = "down" /\ m.wallets = Daemons!Users /\ n = AllReady
    \/ s = <<"start?">> /\ m = AllReady /\ n = m
    \/ s \in {<<"stop?">>, <<"data dir">>} /\ m.st = "absent" /\ n = m
    \/ s = <<"up?">> /\ m.st = "ready" /\ n = m
    \/ \E x \in Asked :
        \/ s = <<"rpc", x[1], x[2]>> /\ m.st = "ready" /\ CallLeads(m, x[1], x[2], n)
        \/ s = <<"rpc", x[1], x[2]>> /\ m.st = "down" /\ m.wallets = Daemons!Users /\ CallLeads(AllReady, x[1], x[2], n)
        \/ s = <<"call", x[1], x[2]>> /\ CallLeads(m, x[1], x[2], n)
    \/ \E x \in {"loadwallet", "createwallet"}, u \in {"miner", "bob", "alice", "own"} :
          s = <<"call", x, u>> /\ CallLeads(m, x, u, n)
    \/ s \in {<<"connect">>, <<"chain">>, <<"version">>} /\ m.st = "ready" /\ n = m
    \/ s = <<"listwallets">> /\ m.st = "ready" /\ "own" \in m.loaded /\ n = m
    \/ /\ s \in {<<"listwallets">>, <<"listwalletdir">>} /\ m.st = "ready" /\ "own" \notin m.loaded
       /\ n = Mode("ready", m.loaded \union {"own"}, m.wallets \union {"own"})

(* The steps of l can all be made from m.                                  *)
Goes(m, l) ==
    \E g \in [1 .. Len(l) + 1 -> Modes] : g[1] = m /\ \A i \in 1 .. Len(l) : Leads(g[i], l[i], g[i + 1])

LEMMA EmptyGoes == ASSUME NEW m \in Modes PROVE Goes(m, <<>>)
<1>1. Len(<<>>) = 0
  OBVIOUS
<1> DEFINE g == [i \in 1 .. Len(<<>>) + 1 |-> m]
<1>2. g \in [1 .. Len(<<>>) + 1 -> Modes] /\ g[1] = m
  BY <1>1
<1>3. \A i \in 1 .. Len(<<>>) : Leads(g[i], <<>>[i], g[i + 1])
  BY <1>1
<1> QED
  BY <1>2, <1>3 DEF Goes

LEMMA GoesCons ==
    ASSUME NEW S, NEW s \in S, NEW t \in Seq(S), NEW m \in Modes
    PROVE  Goes(m, <<s>> \o t) <=> \E n \in Modes : Leads(m, s, n) /\ Goes(n, t)
<1>1. PICK l : l = <<s>> \o t
  OBVIOUS
<1>2. Len(l) = Len(t) + 1 /\ l[1] = s /\ \A i \in 1 .. Len(t) : l[i + 1] = t[i]
  BY <1>1, ConsFacts
<1>3. PICK k \in Nat : k = Len(t)
  OBVIOUS
<1>4. ASSUME Goes(m, l) PROVE \E n \in Modes : Leads(m, s, n) /\ Goes(n, t)
  <2>1. PICK g \in [1 .. k + 2 -> Modes] : g[1] = m /\ \A i \in 1 .. k + 1 : Leads(g[i], l[i], g[i + 1])
    <3>1. Len(l) = k + 1 /\ Len(l) + 1 = k + 2
      BY <1>2, <1>3
    <3> QED
      BY <1>4, <3>1 DEF Goes
  <2> DEFINE h == [i \in 1 .. k + 1 |-> g[i + 1]]
  <2>2. h \in [1 .. Len(t) + 1 -> Modes]
    <3>1. \A i \in 1 .. k + 1 : i + 1 \in 1 .. k + 2
      OBVIOUS
    <3> QED
      BY <1>3, <2>1, <3>1
  <2>3. h[1] = g[2] /\ g[2] \in Modes
    <3>1. 1 \in 1 .. k + 1 /\ 1 + 1 = 2 /\ 2 \in 1 .. k + 2
      OBVIOUS
    <3> QED
      BY <2>1, <3>1
  <2>4. Leads(m, s, g[2])
    <3>1. 1 \in 1 .. k + 1 /\ 1 + 1 = 2
      OBVIOUS
    <3> QED
      BY <1>2, <2>1, <3>1
  <2>5. ASSUME NEW i \in 1 .. Len(t) PROVE Leads(h[i], t[i], h[i + 1])
    <3>1. i \in 1 .. k + 1 /\ i + 1 \in 1 .. k + 1
      BY <1>3
    <3>2. h[i] = g[i + 1] /\ h[i + 1] = g[(i + 1) + 1] /\ l[i + 1] = t[i]
      BY <1>2, <3>1
    <3> QED
      BY <2>1, <3>1, <3>2
  <2> HIDE DEF h
  <2>6. Goes(g[2], t)
    BY <2>2, <2>3, <2>5 DEF Goes
  <2> QED
    BY <2>3, <2>4, <2>6
<1>5. ASSUME NEW n \in Modes, Leads(m, s, n), Goes(n, t) PROVE Goes(m, l)
  <2>1. PICK h \in [1 .. k + 1 -> Modes] : h[1] = n /\ \A i \in 1 .. k : Leads(h[i], t[i], h[i + 1])
    BY <1>3, <1>5 DEF Goes
  <2> DEFINE g == [i \in 1 .. k + 2 |-> IF i = 1 THEN m ELSE h[i - 1]]
  <2>2. g \in [1 .. k + 2 -> Modes]
    <3>1. \A i \in 1 .. k + 2 : i = 1 \/ i - 1 \in 1 .. k + 1
      OBVIOUS
    <3> QED
      BY <2>1, <3>1
  <2>3. g[1] = m
    <3>1. 1 \in 1 .. k + 2
      OBVIOUS
    <3> QED
      BY <3>1
  <2>4. ASSUME NEW i \in 1 .. k + 1 PROVE g[i + 1] = h[i]
    <3>1. i + 1 \in 1 .. k + 2 /\ i + 1 # 1 /\ (i + 1) - 1 = i
      OBVIOUS
    <3> QED
      BY <3>1
  <2>5. ASSUME NEW i \in 1 .. k + 1 PROVE Leads(g[i], l[i], g[i + 1])
    <3>1. CASE i = 1
      <4>1. g[i + 1] = h[1]
        BY <2>4, <3>1
      <4> HIDE DEF g
      <4> QED
        BY <1>2, <1>5, <2>1, <2>3, <3>1, <4>1
    <3>2. CASE i # 1
      <4>1. PICK j \in 1 .. k : j + 1 = i
        <5>1. i - 1 \in 1 .. k /\ (i - 1) + 1 = i
          BY <3>2
        <5> QED
          BY <5>1
      <4>2. j \in 1 .. k + 1 /\ j + 1 \in 1 .. k + 1
        OBVIOUS
      <4>3. g[j + 1] = h[j] /\ g[(j + 1) + 1] = h[j + 1] /\ l[j + 1] = t[j]
        BY <1>2, <1>3, <2>4, <4>2
      <4> HIDE DEF g
      <4> QED
        BY <2>1, <4>1, <4>3
    <3> QED
      BY <3>1, <3>2
  <2> HIDE DEF g
  <2>6. Len(l) = k + 1 /\ Len(l) + 1 = k + 2
    BY <1>2, <1>3
  <2> QED
    BY <2>2, <2>3, <2>5, <2>6 DEF Goes
<1> QED
  BY <1>1, <1>4, <1>5

LEMMA UsersAre == Daemons!Users = {"miner", "bob", "alice"}
<1>1. Daemons!users[1] = "miner" /\ Daemons!users[2] = "bob" /\ Daemons!users[3] = "alice"
  BY DEF Daemons!users
<1>2. \A n \in 1 .. 3 : n = 1 \/ n = 2 \/ n = 3
  OBVIOUS
<1>3. 1 \in 1 .. 3 /\ 2 \in 1 .. 3 /\ 3 \in 1 .. 3
  OBVIOUS
<1> QED
  BY <1>1, <1>2, <1>3 DEF Daemons!Users

LEMMA RequestSteps == \A x \in Asked : <<"rpc", x[1], x[2]>> \in RegtestSteps /\ <<"call", x[1], x[2]>> \in RegtestSteps
BY DEF RegtestSteps, Requests

LEMMA StepsAre ==
    /\ \A s \in Starts \union Creates \union Loads \union Questions : s \in RegtestSteps
    /\ <<"rpc", "getnewaddress", "miner">> \in RegtestSteps /\ <<"rpc", "block", "miner">> \in RegtestSteps
    /\ <<"rpc", "more blocks", "miner">> \in RegtestSteps /\ <<"rpc", "send", "miner">> \in RegtestSteps
    /\ <<"rpc", "listunspent", "bob">> \in RegtestSteps /\ <<"rpc", "listunspent", "alice">> \in RegtestSteps
    /\ <<"rpc", "stop", "">> \in RegtestSteps
    /\ StepsOf("regtest") = RegtestSteps /\ StepsOf("mainnet") = ClientSteps
<1>1. \A s \in Starts \union Creates \union Loads \union Questions : s \in RegtestSteps
  BY DEF RegtestSteps
<1>2. /\ <<"getnewaddress", "miner">> \in Asked /\ <<"block", "miner">> \in Asked /\ <<"more blocks", "miner">> \in Asked
      /\ <<"send", "miner">> \in Asked /\ <<"listunspent", "bob">> \in Asked /\ <<"listunspent", "alice">> \in Asked
      /\ <<"stop", "">> \in Asked
  BY DEF Asked
<1>3. \A x, y : <<x, y>> \in Asked => <<"rpc", x, y>> \in RegtestSteps
  <2> SUFFICES ASSUME NEW x, NEW y, <<x, y>> \in Asked PROVE <<"rpc", x, y>> \in RegtestSteps
    OBVIOUS
  <2>1. <<x, y>>[1] = x /\ <<x, y>>[2] = y
    OBVIOUS
  <2> QED
    BY <2>1, RequestSteps
<1>4. StepsOf("regtest") = RegtestSteps /\ StepsOf("mainnet") = ClientSteps
  BY DEF StepsOf
<1> QED
  BY <1>1, <1>2, <1>3, <1>4

(* The step s before t, where neither daemons nor wallets depend on it.    *)
LEMMA PlainCons ==
    ASSUME NEW s \in RegtestSteps, s \notin Starts, s \notin Creates, NEW t, Fit("regtest", t)
    PROVE  Fit("regtest", <<s>> \o t) /\ <<s>> \o t \in Seq(RegtestSteps)
<1>1. t \in Seq(RegtestSteps) /\ s \in StepsOf("regtest")
  BY StepsAre DEF Fit
<1>2. Follows(s, t)
  BY DEF Follows
<1> QED
  BY <1>1, <1>2, FitCons, ConsFacts, StepsAre

LEMMA ReadySteps ==
    \A s \in {<<"up?">>, <<"wait", "ready">>, <<"rpc", "getnewaddress", "miner">>, <<"rpc", "block", "miner">>,
              <<"rpc", "more blocks", "miner">>, <<"rpc", "send", "miner">>, <<"rpc", "listunspent", "bob">>,
              <<"rpc", "listunspent", "alice">>} : Leads(AllReady, s, AllReady)
<1>1. /\ AllReady.st = "ready" /\ AllReady.loaded = {"miner", "bob", "alice"} /\ AllReady.wallets = {"miner", "bob", "alice"}
      /\ AllReady = Mode("ready", AllReady.loaded, AllReady.wallets)
  BY UsersAre DEF AllReady, Mode
<1>2. \A x \in Asked : x[2] \in AllReady.loaded /\ x[1] \notin {"stop", "loadwallet", "createwallet"} => Leads(AllReady, <<"rpc", x[1], x[2]>>, AllReady)
  BY <1>1 DEF Leads, CallLeads
<1>3. \A x, y : <<x, y>> \in Asked /\ y \in AllReady.loaded /\ x \notin {"stop", "loadwallet", "createwallet"}
                => Leads(AllReady, <<"rpc", x, y>>, AllReady)
  <2> SUFFICES ASSUME NEW x, NEW y, <<x, y>> \in Asked, y \in AllReady.loaded, x \notin {"stop", "loadwallet", "createwallet"}
               PROVE  Leads(AllReady, <<"rpc", x, y>>, AllReady)
    OBVIOUS
  <2>1. <<x, y>>[1] = x /\ <<x, y>>[2] = y
    OBVIOUS
  <2> QED
    BY <1>2, <2>1
<1>4. /\ <<"getnewaddress", "miner">> \in Asked /\ <<"block", "miner">> \in Asked /\ <<"more blocks", "miner">> \in Asked
      /\ <<"send", "miner">> \in Asked /\ <<"listunspent", "bob">> \in Asked /\ <<"listunspent", "alice">> \in Asked
  BY DEF Asked
<1>5. /\ Leads(AllReady, <<"rpc", "getnewaddress", "miner">>, AllReady) /\ Leads(AllReady, <<"rpc", "block", "miner">>, AllReady)
      /\ Leads(AllReady, <<"rpc", "more blocks", "miner">>, AllReady) /\ Leads(AllReady, <<"rpc", "send", "miner">>, AllReady)
      /\ Leads(AllReady, <<"rpc", "listunspent", "bob">>, AllReady) /\ Leads(AllReady, <<"rpc", "listunspent", "alice">>, AllReady)
  BY <1>1, <1>3, <1>4
<1>6. Leads(AllReady, <<"up?">>, AllReady) /\ Leads(AllReady, <<"wait", "ready">>, AllReady)
  BY <1>1 DEF Leads
<1> QED
  BY <1>5, <1>6

LEMMA ModesAre == /\ AllReady \in Modes
                  /\ \A st \in {"absent", "down", "starting", "ready", "stopping"},
                        x, y \in SUBSET {"miner", "bob", "alice", "own"} :
                        /\ Mode(st, x, y) \in Modes
                        /\ Mode(st, x, y).st = st /\ Mode(st, x, y).loaded = x /\ Mode(st, x, y).wallets = y
BY UsersAre DEF AllReady, Mode, Modes

(* What can be asked of a daemon with all wallets loaded.                  *)
ReadyAsked == {<<"up?">>, <<"wait", "ready">>, <<"rpc", "getnewaddress", "miner">>, <<"rpc", "block", "miner">>,
               <<"rpc", "more blocks", "miner">>, <<"rpc", "send", "miner">>, <<"rpc", "listunspent", "bob">>,
               <<"rpc", "listunspent", "alice">>}

Well(t) == Fit("regtest", t) /\ Goes(AllReady, t)

LEMMA FirstWords ==
    /\ \A s \in ReadyAsked : s[1] \in {"up?", "wait", "rpc"}
    /\ \A s \in Starts \union Creates : s[1] \in {"start", "run", "data dir", "call"}
<1>1. /\ <<"up?">>[1] = "up?" /\ <<"wait", "ready">>[1] = "wait"
      /\ <<"start">>[1] = "start" /\ <<"run">>[1] = "run" /\ <<"data dir">>[1] = "data dir"
      /\ \A x, y : <<"rpc", x, y>>[1] = "rpc" /\ <<"call", x, y>>[1] = "call"
  OBVIOUS
<1>2. \A s \in ReadyAsked : s[1] \in {"up?", "wait", "rpc"}
  BY <1>1, Zenon DEF ReadyAsked
<1>3. \A s \in Starts \union Creates : s[1] \in {"start", "run", "data dir", "call"}
  BY <1>1, Zenon DEF Starts, Creates
<1> QED
  BY <1>2, <1>3

LEMMA WellCons ==
    ASSUME NEW s \in ReadyAsked, NEW t, Well(t)
    PROVE  Well(<<s>> \o t) /\ t \in Seq(RegtestSteps) /\ s \in RegtestSteps
<1>1. s \in RegtestSteps /\ s \notin Starts /\ s \notin Creates
  <2>1. s \in RegtestSteps
    BY StepsAre DEF ReadyAsked, Questions
  <2>2. s \notin Starts /\ s \notin Creates
    BY FirstWords
  <2> QED
    BY <2>1, <2>2
<1>2. t \in Seq(RegtestSteps) /\ Fit("regtest", t)
  BY StepsAre DEF Well, Fit
<1>3. Fit("regtest", <<s>> \o t)
  BY <1>1, <1>2, PlainCons
<1>4. Leads(AllReady, s, AllReady)
  BY ReadySteps DEF ReadyAsked
<1>5. Goes(AllReady, <<s>> \o t)
  BY <1>1, <1>2, <1>4, GoesCons, ModesAre DEF Well
<1> QED
  BY <1>1, <1>2, <1>3, <1>5 DEF Well

LEMMA WellEmpty == Well(<<>>)
BY EmptyFit, EmptyGoes, ModesAre DEF Well

LEMMA WellStop == Well(<<<<"rpc", "stop", "">>>>)
<1>1. PICK s \in RegtestSteps : s = <<"rpc", "stop", "">>
  BY StepsAre
<1>2. s \notin Starts /\ s \notin Creates
  <2>1. s[1] = "rpc"
    BY <1>1
  <2> QED
    BY <2>1, FirstWords
<1>3. <<s>> = <<s>> \o <<>> /\ <<>> \in Seq(RegtestSteps)
  <2>1. <<s>> \in Seq(RegtestSteps)
    OBVIOUS
  <2> QED
    BY <2>1, EmptyCons
<1>4. Fit("regtest", <<s>>)
  BY <1>2, <1>3, PlainCons, EmptyFit
<1>5. PICK n \in Modes : Leads(AllReady, s, n)
  <2> DEFINE n == Mode("stopping", AllReady.loaded, AllReady.wallets)
  <2>1. AllReady.st = "ready" /\ AllReady.loaded = {"miner", "bob", "alice"} /\ AllReady.wallets = {"miner", "bob", "alice"}
    BY UsersAre DEF AllReady, Mode
  <2>2. n \in Modes
    BY <2>1, ModesAre
  <2>3. CallLeads(AllReady, "stop", "", n)
    BY <2>1 DEF CallLeads
  <2>4. <<"stop", "">> \in Asked /\ <<"stop", "">>[1] = "stop" /\ <<"stop", "">>[2] = ""
    BY DEF Asked
  <2> HIDE DEF n
  <2>5. \E x \in Asked : s = <<"rpc", x[1], x[2]>> /\ AllReady.st = "ready" /\ CallLeads(AllReady, x[1], x[2], n)
    BY <1>1, <2>1, <2>3, <2>4
  <2>6. Leads(AllReady, s, n)
    BY <2>5 DEF Leads
  <2> QED
    BY <2>2, <2>6
<1>6. Goes(n, <<>>) /\ AllReady \in Modes
  BY EmptyGoes, ModesAre
<1>7. Goes(AllReady, <<s>> \o <<>>)
  BY <1>3, <1>5, <1>6, GoesCons
<1> QED
  BY <1>1, <1>3, <1>4, <1>7 DEF Well

LEMMA GenerateWell ==
    ASSUME NEW t, Well(t)
    PROVE  Well(Daemons!generate("more blocks") \o t) /\ Has(Daemons!generate("more blocks") \o t, Digs("more blocks"))
<1>1. PICK t1 : t1 = <<<<"rpc", "more blocks", "miner">>>> \o t
  OBVIOUS
<1>2. PICK t2 : t2 = <<<<"wait", "ready">>>> \o t1
  OBVIOUS
<1>3. <<"up?">> \in ReadyAsked /\ <<"wait", "ready">> \in ReadyAsked /\ <<"rpc", "more blocks", "miner">> \in ReadyAsked
  BY DEF ReadyAsked
<1>4. Well(t1) /\ t \in Seq(RegtestSteps) /\ <<"rpc", "more blocks", "miner">> \in RegtestSteps
  BY <1>1, <1>3, WellCons
<1>5. Well(t2) /\ t1 \in Seq(RegtestSteps) /\ <<"wait", "ready">> \in RegtestSteps
  BY <1>2, <1>3, <1>4, WellCons
<1>6. Well(<<<<"up?">>>> \o t2) /\ t2 \in Seq(RegtestSteps) /\ <<"up?">> \in RegtestSteps
  BY <1>3, <1>5, WellCons
<1>7. Daemons!generate("more blocks") \o t = <<<<"up?">>>> \o t2
  <2>1. Daemons!generate("more blocks") = <<<<"up?">>, <<"wait", "ready">>, <<"rpc", "more blocks", "miner">>>>
    BY DEF Daemons!generate
  <2>2. <<<<"up?">>, <<"wait", "ready">>, <<"rpc", "more blocks", "miner">>>> \o t
        = <<<<"up?">>>> \o (<<<<"wait", "ready">>>> \o (<<<<"rpc", "more blocks", "miner">>>> \o t))
    <3>1. PICK s1 \in RegtestSteps, s2 \in RegtestSteps, s3 \in RegtestSteps :
             s1 = <<"up?">> /\ s2 = <<"wait", "ready">> /\ s3 = <<"rpc", "more blocks", "miner">>
      BY <1>4, <1>5, <1>6
    <3>2. <<s1, s2, s3>> \o t = <<s1>> \o (<<s2>> \o (<<s3>> \o t))
      <4>1. PICK S : S = RegtestSteps
        OBVIOUS
      <4>2. t \in Seq(S) /\ s1 \in S /\ s2 \in S /\ s3 \in S
        BY <1>4, <4>1
      <4>3. ThreeAhead(s1, s2, s3, t)
        BY <4>2, Cons3
      <4> QED
        BY <4>3 DEF ThreeAhead
    <3> QED
      BY <3>1, <3>2
  <2> QED
    BY <1>1, <1>2, <2>1, <2>2
<1>8. <<"rpc", "more blocks", "miner">> \in Digs("more blocks")
  BY DEF Digs
<1>9. Has(t1, Digs("more blocks"))
  BY <1>1, <1>4, <1>8, HasCons
<1>10. Has(t2, Digs("more blocks"))
  BY <1>2, <1>5, <1>9, HasCons
<1>11. Has(<<<<"up?">>>> \o t2, Digs("more blocks"))
  BY <1>6, <1>10, HasCons
<1> QED
  BY <1>6, <1>7, <1>11

LEMMA MinerWell ==
    ASSUME NEW t, Well(t)
    PROVE  /\ Well(Daemons!miner_addr \o t)
           /\ Has(t, Digs("more blocks")) => HasBlocks(Daemons!miner_addr \o t)
<1>1. PICK t1 : t1 = <<<<"rpc", "block", "miner">>>> \o t
  OBVIOUS
<1>2. PICK t2 : t2 = <<<<"rpc", "getnewaddress", "miner">>>> \o t1
  OBVIOUS
<1>3. PICK t3 : t3 = <<<<"wait", "ready">>>> \o t2
  OBVIOUS
<1>4. /\ <<"up?">> \in ReadyAsked /\ <<"wait", "ready">> \in ReadyAsked /\ <<"rpc", "block", "miner">> \in ReadyAsked
      /\ <<"rpc", "getnewaddress", "miner">> \in ReadyAsked
  BY DEF ReadyAsked
<1>5. Well(t1) /\ t \in Seq(RegtestSteps) /\ <<"rpc", "block", "miner">> \in RegtestSteps
  BY <1>1, <1>4, WellCons
<1>6. Well(t2) /\ t1 \in Seq(RegtestSteps) /\ <<"rpc", "getnewaddress", "miner">> \in RegtestSteps
  BY <1>2, <1>4, <1>5, WellCons
<1>7. Well(t3) /\ t2 \in Seq(RegtestSteps) /\ <<"wait", "ready">> \in RegtestSteps
  BY <1>3, <1>4, <1>6, WellCons
<1>8. Well(<<<<"up?">>>> \o t3) /\ t3 \in Seq(RegtestSteps) /\ <<"up?">> \in RegtestSteps
  BY <1>4, <1>7, WellCons
<1>9. Daemons!miner_addr \o t = <<<<"up?">>>> \o t3
  <2>1. Daemons!miner_addr = <<<<"up?">>, <<"wait", "ready">>, <<"rpc", "getnewaddress", "miner">>, <<"rpc", "block", "miner">>>>
    BY DEF Daemons!miner_addr
  <2>2. <<<<"up?">>, <<"wait", "ready">>, <<"rpc", "getnewaddress", "miner">>, <<"rpc", "block", "miner">>>> \o t
        = <<<<"up?">>>> \o (<<<<"wait", "ready">>>> \o (<<<<"rpc", "getnewaddress", "miner">>>> \o (<<<<"rpc", "block", "miner">>>> \o t)))
    <3>1. PICK s1 \in RegtestSteps, s2 \in RegtestSteps, s3 \in RegtestSteps, s4 \in RegtestSteps :
             s1 = <<"up?">> /\ s2 = <<"wait", "ready">> /\ s3 = <<"rpc", "getnewaddress", "miner">> /\ s4 = <<"rpc", "block", "miner">>
      BY <1>5, <1>6, <1>7, <1>8
    <3>2. <<s1, s2, s3, s4>> \o t = <<s1>> \o (<<s2>> \o (<<s3>> \o (<<s4>> \o t)))
      <4>1. PICK S : S = RegtestSteps
        OBVIOUS
      <4>2. t \in Seq(S) /\ s1 \in S /\ s2 \in S /\ s3 \in S /\ s4 \in S
        BY <1>5, <4>1
      <4>3. OneByOne(s1, s2, s3, s4, t)
        BY <4>2, Cons4
      <4> QED
        BY <4>3 DEF OneByOne
    <3> QED
      BY <3>1, <3>2
  <2> QED
    BY <1>1, <1>2, <1>3, <2>1, <2>2
<1>10. ASSUME Has(t, Digs("more blocks")) PROVE HasBlocks(<<<<"up?">>>> \o t3)
  <2>1. <<"rpc", "block", "miner">> \in Digs("block")
    BY DEF Digs
  <2>2. HasBlocks(t1)
    BY <1>1, <1>5, <1>10, <2>1, HasBlocksCons
  <2>3. HasBlocks(t2)
    BY <1>2, <1>6, <2>2, HasBlocksCons
  <2>4. HasBlocks(t3)
    BY <1>3, <1>7, <2>3, HasBlocksCons
  <2> QED
    BY <1>8, <2>4, HasBlocksCons
<1> QED
  BY <1>8, <1>9, <1>10

(* The commands' steps are such, and a command whose needs are met can     *)
(* make them all.                                                          *)
LEMMA ForEachOf ==
    ASSUME NEW what \in {"loadwallet", "createwallet"}, NEW t \in Seq(RegtestSteps)
    PROVE  /\ Daemons!ForEach(what) \o t
              = <<<<"call", what, "miner">>>> \o (<<<<"call", what, "bob">>>> \o (<<<<"call", what, "alice">>>> \o t))
           /\ \A u \in {"miner", "bob", "alice"} : <<"call", what, u>> \in RegtestSteps
           /\ Daemons!ForEach(what) \in Seq(RegtestSteps) /\ Daemons!ForEach(what) \o t \in Seq(RegtestSteps)
<1>1. \A u \in {"miner", "bob", "alice"} : <<"call", what, u>> \in RegtestSteps
  BY StepsAre DEF Loads, Creates
<1>2. PICK s1 \in RegtestSteps, s2 \in RegtestSteps, s3 \in RegtestSteps :
         s1 = <<"call", what, "miner">> /\ s2 = <<"call", what, "bob">> /\ s3 = <<"call", what, "alice">>
  BY <1>1
<1>3. Daemons!ForEach(what) = <<s1, s2, s3>>
  BY <1>2 DEF Daemons!ForEach, Daemons!users
<1>4. <<s1, s2, s3>> \o t = <<s1>> \o (<<s2>> \o (<<s3>> \o t))
  <2>1. PICK S : S = RegtestSteps
    OBVIOUS
  <2>2. t \in Seq(S) /\ s1 \in S /\ s2 \in S /\ s3 \in S
    BY <2>1
  <2>3. ThreeAhead(s1, s2, s3, t)
    BY <2>2, Cons3
  <2> QED
    BY <2>3 DEF ThreeAhead
<1>5. <<s1, s2, s3>> \in Seq(RegtestSteps)
  OBVIOUS
<1>6. <<s1, s2, s3>> \o t \in Seq(RegtestSteps)
  BY <1>5, ConcatProperties
<1> QED
  BY <1>1, <1>2, <1>3, <1>4, <1>5, <1>6

LEMMA CreatesFit ==
    ASSUME NEW t, Fit("regtest", t), HasBlocks(t)
    PROVE  /\ Fit("regtest", Daemons!create_wallet \o t)
           /\ \A u \in {"miner", "bob", "alice"} : Has(Daemons!create_wallet \o t, LoadsOf(u))
<1>1. t \in Seq(RegtestSteps)
  BY StepsAre DEF Fit
<1>2. PICK c1 \in RegtestSteps, c2 \in RegtestSteps, c3 \in RegtestSteps :
         c1 = <<"call", "createwallet", "miner">> /\ c2 = <<"call", "createwallet", "bob">> /\ c3 = <<"call", "createwallet", "alice">>
  BY <1>1, ForEachOf
<1>3. Daemons!create_wallet \o t = <<c1>> \o (<<c2>> \o (<<c3>> \o t))
  BY <1>1, <1>2, ForEachOf DEF Daemons!create_wallet
<1>4. c1 \notin Starts /\ c2 \notin Starts /\ c3 \notin Starts
  <2>1. c1[1] = "call" /\ c2[1] = "call" /\ c3[1] = "call"
    BY <1>2
  <2>2. \A s \in Starts : s[1] # "call"
    <3>1. <<"start">>[1] = "start" /\ <<"run">>[1] = "run" /\ <<"data dir">>[1] = "data dir"
      OBVIOUS
    <3>2. \A s \in Starts : s[1] \in {"start", "run", "data dir"}
      BY <3>1, Zenon DEF Starts
    <3> QED
      BY <3>2
  <2> QED
    BY <2>1, <2>2
<1>5. PICK t3 : t3 = <<c3>> \o t
  OBVIOUS
<1>6. PICK t2 : t2 = <<c2>> \o t3
  OBVIOUS
<1>7. PICK t1 : t1 = <<c1>> \o t2
  OBVIOUS
<1>8. \A s : s \notin Starts /\ HasBlocks(t) => Follows(s, t)
  BY DEF Follows
<1>9. Fit("regtest", t3) /\ t3 \in Seq(RegtestSteps) /\ HasBlocks(t3)
  BY <1>1, <1>4, <1>5, <1>8, FitCons, ConsFacts, HasBlocksCons, StepsAre
<1>10. \A s : s \notin Starts /\ HasBlocks(t3) => Follows(s, t3)
  BY DEF Follows
<1>11. Fit("regtest", t2) /\ t2 \in Seq(RegtestSteps) /\ HasBlocks(t2)
  BY <1>4, <1>6, <1>9, <1>10, FitCons, ConsFacts, HasBlocksCons, StepsAre
<1>12. \A s : s \notin Starts /\ HasBlocks(t2) => Follows(s, t2)
  BY DEF Follows
<1>13. Fit("regtest", t1)
  BY <1>4, <1>7, <1>11, <1>12, FitCons, StepsAre
<1>14. c1 \in LoadsOf("miner") /\ c2 \in LoadsOf("bob") /\ c3 \in LoadsOf("alice")
  BY <1>2 DEF LoadsOf
<1>15. Has(t1, LoadsOf("miner"))
  BY <1>7, <1>11, <1>14, HasCons
<1>16. Has(t2, LoadsOf("bob"))
  BY <1>6, <1>9, <1>14, HasCons
<1>17. Has(t1, LoadsOf("bob"))
  BY <1>7, <1>11, <1>16, HasCons
<1>18. Has(t3, LoadsOf("alice"))
  BY <1>1, <1>5, <1>14, HasCons
<1>19. Has(t2, LoadsOf("alice"))
  BY <1>6, <1>9, <1>18, HasCons
<1>20. Has(t1, LoadsOf("alice"))
  BY <1>7, <1>11, <1>19, HasCons
<1> QED
  BY <1>3, <1>5, <1>6, <1>7, <1>13, <1>15, <1>17, <1>20

LEMMA CreatesGo ==
    ASSUME NEW t \in Seq(RegtestSteps), Goes(AllReady, t)
    PROVE  Goes(Mode("ready", {}, {}), Daemons!create_wallet \o t)
<1>2. PICK c1 \in RegtestSteps, c2 \in RegtestSteps, c3 \in RegtestSteps :
         c1 = <<"call", "createwallet", "miner">> /\ c2 = <<"call", "createwallet", "bob">> /\ c3 = <<"call", "createwallet", "alice">>
  BY ForEachOf
<1>3. Daemons!create_wallet \o t = <<c1>> \o (<<c2>> \o (<<c3>> \o t))
  BY <1>2, ForEachOf DEF Daemons!create_wallet
<1> DEFINE m0 == Mode("ready", {}, {})
           m1 == Mode("ready", {"miner"}, {"miner"})
           m2 == Mode("ready", {"miner", "bob"}, {"miner", "bob"})
<1>4. /\ m0 \in Modes /\ m0.st = "ready" /\ m0.loaded = {} /\ m0.wallets = {}
      /\ m1 \in Modes /\ m1.st = "ready" /\ m1.loaded = {"miner"} /\ m1.wallets = {"miner"}
      /\ m2 \in Modes /\ m2.st = "ready" /\ m2.loaded = {"miner", "bob"} /\ m2.wallets = {"miner", "bob"}
  BY ModesAre DEF Mode
<1>5. AllReady = Mode("ready", {"miner", "bob", "alice"}, {"miner", "bob", "alice"}) /\ AllReady \in Modes
  BY UsersAre, ModesAre DEF AllReady
<1>6. /\ m1 = Mode("ready", m0.loaded \union {"miner"}, m0.wallets \union {"miner"})
      /\ m2 = Mode("ready", m1.loaded \union {"bob"}, m1.wallets \union {"bob"})
      /\ AllReady = Mode("ready", m2.loaded \union {"alice"}, m2.wallets \union {"alice"})
  <2>1. {} \union {"miner"} = {"miner"} /\ {"miner"} \union {"bob"} = {"miner", "bob"} /\ {"miner", "bob"} \union {"alice"} = {"miner", "bob", "alice"}
    OBVIOUS
  <2> QED
    BY <1>4, <1>5, <2>1
<1> HIDE DEF m0, m1, m2
<1>7. CallLeads(m0, "createwallet", "miner", m1) /\ CallLeads(m1, "createwallet", "bob", m2) /\ CallLeads(m2, "createwallet", "alice", AllReady)
  BY <1>4, <1>6 DEF CallLeads
<1>8. Leads(m0, c1, m1) /\ Leads(m1, c2, m2) /\ Leads(m2, c3, AllReady)
  <2>1. ASSUME NEW u \in {"miner", "bob", "alice", "own"}, NEW m, NEW n, CallLeads(m, "createwallet", u, n)
        PROVE  Leads(m, <<"call", "createwallet", u>>, n)
    BY <2>1 DEF Leads
  <2> QED
    BY <1>2, <1>7, <2>1
<1>9. Goes(m2, <<c3>> \o t) /\ <<c3>> \o t \in Seq(RegtestSteps)
  BY <1>4, <1>5, <1>8, GoesCons, ConsFacts
<1>10. Goes(m1, <<c2>> \o (<<c3>> \o t)) /\ <<c2>> \o (<<c3>> \o t) \in Seq(RegtestSteps)
  BY <1>4, <1>8, <1>9, GoesCons, ConsFacts
<1>11. Goes(m0, <<c1>> \o (<<c2>> \o (<<c3>> \o t)))
  BY <1>4, <1>8, <1>10, GoesCons
<1> QED
  BY <1>3, <1>11 DEF m0

OneByOneOf(p1, p2, p3, p4, x) == (((p1 \o p2) \o p3) \o p4) \o x = p1 \o (p2 \o (p3 \o (p4 \o x)))

Associate(p, q, r) == (p \o q) \o r = p \o (q \o r)

LEMMA Associates == ASSUME NEW S, NEW p \in Seq(S), NEW q \in Seq(S), NEW r \in Seq(S) PROVE Associate(p, q, r)
BY ConcatAssociative DEF Associate

LEMMA FiveParts ==
    ASSUME NEW S, NEW p1 \in Seq(S), NEW p2 \in Seq(S), NEW p3 \in Seq(S), NEW p4 \in Seq(S), NEW x \in Seq(S)
    PROVE  OneByOneOf(p1, p2, p3, p4, x)
<1>1. PICK e4 \in Seq(S) : e4 = p4 \o x
  BY ConcatProperties
<1>2. PICK e2 \in Seq(S) : e2 = p1 \o p2
  BY ConcatProperties
<1>3. PICK e3 \in Seq(S) : e3 = e2 \o p3
  BY ConcatProperties
<1>4. PICK f3 \in Seq(S) : f3 = p3 \o e4
  BY ConcatProperties
<1>5. Associate(e3, p4, x)
  BY Associates
<1>6. Associate(e2, p3, e4)
  BY Associates
<1>7. Associate(p1, p2, f3)
  BY Associates
<1> QED
  BY <1>1, <1>2, <1>3, <1>4, <1>5, <1>6, <1>7 DEF OneByOneOf, Associate

LEMMA SetupServes ==
    ASSUME NEW x \in Seq(RegtestSteps), Well(x)
    PROVE  /\ Fit("regtest", Daemons!setup(x))
           /\ \A loaded \in SUBSET {"miner", "bob", "alice", "own"} : Goes(Mode("absent", loaded, {}), Daemons!setup(x))
<1>1. PICK g : g = Daemons!generate("more blocks") \o x
  OBVIOUS
<1>2. Well(g) /\ Has(g, Digs("more blocks")) /\ g \in Seq(RegtestSteps)
  BY <1>1, GenerateWell, StepsAre DEF Well, Fit
<1>3. PICK a : a = Daemons!miner_addr \o g
  OBVIOUS
<1>4. Well(a) /\ HasBlocks(a) /\ a \in Seq(RegtestSteps)
  BY <1>2, <1>3, MinerWell, StepsAre DEF Well, Fit
<1>5. PICK c : c = Daemons!create_wallet \o a
  OBVIOUS
<1>6. /\ Fit("regtest", c) /\ c \in Seq(RegtestSteps) /\ Goes(Mode("ready", {}, {}), c)
      /\ \A u \in {"miner", "bob", "alice"} : Has(c, LoadsOf(u))
  BY <1>4, <1>5, CreatesFit, CreatesGo, StepsAre DEF Well, Fit
<1>7. PICK s1 \in RegtestSteps, s2 \in RegtestSteps, s3 \in RegtestSteps : s1 = <<"stop?">> /\ s2 = <<"data dir">> /\ s3 = <<"start">>
  BY StepsAre DEF Starts, Questions
<1>8. s1 \notin Creates /\ s2 \notin Creates /\ s3 \notin Creates /\ s1 \notin Starts
  <2>1. s1[1] = "stop?" /\ s2[1] = "data dir" /\ s3[1] = "start"
    BY <1>7
  <2>2. \A s \in Creates : s[1] = "call"
    <3>1. \A y, z : <<"call", y, z>>[1] = "call"
      OBVIOUS
    <3> QED
      BY <3>1, Zenon DEF Creates
  <2> QED
    BY <2>1, <2>2, FirstWords
<1>9. PICK t3 : t3 = <<s3>> \o c
  OBVIOUS
<1>10. PICK t2 : t2 = <<s2>> \o t3
  OBVIOUS
<1>11. PICK t1 : t1 = <<s1>> \o t2
  OBVIOUS
<1>12. Fit("regtest", t3) /\ t3 \in Seq(RegtestSteps) /\ \A u \in {"miner", "bob", "alice"} : Has(t3, LoadsOf(u))
  <2>1. Follows(s3, c)
    BY <1>6, <1>8, UsersAre DEF Follows
  <2> QED
    BY <1>6, <1>9, <2>1, FitCons, ConsFacts, HasCons, StepsAre
<1>13. Fit("regtest", t2) /\ t2 \in Seq(RegtestSteps)
  <2>1. Follows(s2, t3)
    BY <1>8, <1>12, UsersAre DEF Follows
  <2> QED
    BY <1>10, <1>12, <2>1, FitCons, ConsFacts, StepsAre
<1>14. Fit("regtest", t1) /\ t1 \in Seq(RegtestSteps)
  BY <1>8, <1>11, <1>13, PlainCons
<1>15. Daemons!setup(x) = t1
  <2>1. Daemons!setup(x) = (((<<s1, s2, s3>> \o Daemons!create_wallet) \o Daemons!miner_addr) \o Daemons!generate("more blocks")) \o x
    BY <1>7 DEF Daemons!setup
  <2>2. /\ <<s1, s2, s3>> \in Seq(RegtestSteps) /\ Daemons!create_wallet \in Seq(RegtestSteps)
        /\ Daemons!miner_addr \in Seq(RegtestSteps) /\ Daemons!generate("more blocks") \in Seq(RegtestSteps)
    <3>1. <<s1, s2, s3>> \in Seq(RegtestSteps)
      OBVIOUS
    <3>2. Daemons!create_wallet \in Seq(RegtestSteps)
      BY ForEachOf DEF Daemons!create_wallet
    <3>3. PICK q1 \in RegtestSteps, q2 \in RegtestSteps, q3 \in RegtestSteps, q4 \in RegtestSteps, q5 \in RegtestSteps :
             /\ q1 = <<"up?">> /\ q2 = <<"wait", "ready">> /\ q3 = <<"rpc", "getnewaddress", "miner">>
             /\ q4 = <<"rpc", "block", "miner">> /\ q5 = <<"rpc", "more blocks", "miner">>
      BY StepsAre DEF Questions
    <3>4. <<q1, q2, q3, q4>> \in Seq(RegtestSteps) /\ <<q1, q2, q5>> \in Seq(RegtestSteps)
      OBVIOUS
    <3>5. Daemons!miner_addr = <<q1, q2, q3, q4>> /\ Daemons!generate("more blocks") = <<q1, q2, q5>>
      BY <3>3 DEF Daemons!miner_addr, Daemons!generate
    <3> QED
      BY <3>1, <3>2, <3>4, <3>5
  <2>4. Daemons!setup(x) = <<s1, s2, s3>> \o c
    <3>1. PICK p1 \in Seq(RegtestSteps) : p1 = <<s1, s2, s3>>
      BY <2>2
    <3>2. PICK p2 \in Seq(RegtestSteps) : p2 = Daemons!create_wallet
      BY <2>2
    <3>3. PICK p3 \in Seq(RegtestSteps) : p3 = Daemons!miner_addr
      BY <2>2
    <3>4. PICK p4 \in Seq(RegtestSteps) : p4 = Daemons!generate("more blocks")
      BY <2>2
    <3>8. (((p1 \o p2) \o p3) \o p4) \o x = p1 \o (p2 \o (p3 \o (p4 \o x)))
      <4>1. PICK S : S = RegtestSteps
        OBVIOUS
      <4>2. p1 \in Seq(S) /\ p2 \in Seq(S) /\ p3 \in Seq(S) /\ p4 \in Seq(S) /\ x \in Seq(S)
        BY <4>1
      <4>3. OneByOneOf(p1, p2, p3, p4, x)
        BY <4>2, FiveParts
      <4> QED
        BY <4>3 DEF OneByOneOf
    <3>9. p2 \o (p3 \o (p4 \o x)) = c
      BY <1>1, <1>3, <1>5, <3>2, <3>3, <3>4
    <3> QED
      BY <2>1, <3>1, <3>2, <3>3, <3>4, <3>8, <3>9
  <2>5. <<s1, s2, s3>> \o c = <<s1>> \o (<<s2>> \o (<<s3>> \o c))
    <3>1. PICK S : S = RegtestSteps
      OBVIOUS
    <3>2. c \in Seq(S) /\ s1 \in S /\ s2 \in S /\ s3 \in S
      BY <1>6, <3>1
    <3>3. ThreeAhead(s1, s2, s3, c)
      BY <3>2, Cons3
    <3> QED
      BY <3>3 DEF ThreeAhead
  <2> QED
    BY <1>9, <1>10, <1>11, <2>4, <2>5
<1>16. ASSUME NEW loaded \in SUBSET {"miner", "bob", "alice", "own"} PROVE Goes(Mode("absent", loaded, {}), t1)
  <2>1. PICK m \in Modes : m = Mode("absent", loaded, {}) /\ m.st = "absent" /\ m.wallets = {}
    BY ModesAre
  <2>2. PICK n \in Modes : n = Mode("ready", {}, {})
    BY ModesAre
  <2>3. Leads(m, s1, m) /\ Leads(m, s2, m) /\ Leads(m, s3, n)
    BY <1>7, <2>1, <2>2 DEF Leads
  <2>4. Goes(m, t3)
    BY <1>6, <1>9, <2>2, <2>3, GoesCons
  <2>5. Goes(m, t2)
    BY <1>10, <1>12, <2>3, <2>4, GoesCons
  <2>6. Goes(m, t1)
    BY <1>11, <1>13, <2>3, <2>5, GoesCons
  <2> QED
    BY <2>1, <2>6
<1> QED
  BY <1>14, <1>15, <1>16

LEMMA NoStarts ==
    /\ \A s \in Loads \union Creates \union Requests \union Questions : s \notin Starts
    /\ \A s \in Loads \union Questions \union Starts \union Requests : s \notin Creates
<1>1. /\ \A y, z : <<"call", y, z>>[1] = "call" /\ <<"call", y, z>>[2] = y /\ <<"rpc", y, z>>[1] = "rpc"
      /\ <<"start?">>[1] = "start?" /\ <<"stop?">>[1] = "stop?" /\ <<"up?">>[1] = "up?" /\ <<"stop">>[1] = "stop"
      /\ <<"sleep">>[1] = "sleep" /\ <<"wait", "ready">>[1] = "wait" /\ <<"wait", "stopped">>[1] = "wait"
      /\ <<"start">>[1] = "start" /\ <<"run">>[1] = "run" /\ <<"data dir">>[1] = "data dir"
  OBVIOUS
<1>2. \A s \in Starts : s[1] \in {"start", "run", "data dir"}
  BY <1>1, Zenon DEF Starts
<1>3. \A s \in Creates : s[1] = "call" /\ s[2] = "createwallet"
  <2>1. \A s \in Creates : \E u : s = <<"call", "createwallet", u>>
    BY Zenon DEF Creates
  <2> QED
    BY <1>1, <2>1
<1>4. \A s \in Loads : s[1] = "call" /\ s[2] = "loadwallet"
  <2>1. \A s \in Loads : \E u : s = <<"call", "loadwallet", u>>
    BY Zenon DEF Loads
  <2> QED
    BY <1>1, <2>1
<1>5. \A s \in Questions : s[1] \in {"start?", "stop?", "up?", "stop", "sleep", "wait"}
  BY <1>1, Zenon DEF Questions
<1>6. \A s \in Requests : s[1] = "rpc" \/ (s[1] = "call" /\ \E x \in Asked : s[2] = x[1])
  <2>1. \A s \in Requests : \E x \in Asked : s = <<"rpc", x[1], x[2]>> \/ s = <<"call", x[1], x[2]>>
    BY Zenon DEF Requests
  <2> QED
    BY <1>1, <2>1
<1>7. \A x \in Asked : x[1] # "createwallet"
  <2>1. /\ <<"getnewaddress", "miner">>[1] = "getnewaddress" /\ <<"block", "miner">>[1] = "block" /\ <<"send", "miner">>[1] = "send"
        /\ <<"more blocks", "miner">>[1] = "more blocks" /\ <<"listunspent", "bob">>[1] = "listunspent"
        /\ <<"listunspent", "alice">>[1] = "listunspent" /\ <<"stop", "">>[1] = "stop"
    OBVIOUS
  <2>2. \A x \in Asked : x[1] \in {"getnewaddress", "block", "send", "more blocks", "listunspent", "stop"}
    BY <2>1, Zenon DEF Asked
  <2> QED
    BY <2>2
<1>8. \A s \in Loads \union Creates \union Requests \union Questions : s \notin Starts
  BY <1>2, <1>3, <1>4, <1>5, <1>6
<1>9. \A s \in Loads \union Questions \union Starts \union Requests : s \notin Creates
  BY <1>2, <1>3, <1>4, <1>5, <1>6, <1>7
<1> QED
  BY <1>8, <1>9

LEMMA StartServes ==
    ASSUME NEW t, Fit("regtest", t)
    PROVE  /\ Fit("regtest", Daemons!start_daemon \o t) /\ t \in Seq(RegtestSteps)
           /\ Goes(AllReady, t) => \A loaded \in SUBSET {"miner", "bob", "alice", "own"} :
                                      Goes(Mode("down", loaded, {"miner", "bob", "alice"}), Daemons!start_daemon \o t)
           /\ \A W : Has(t, W) => Has(Daemons!start_daemon \o t, W)
           /\ HasBlocks(t) => HasBlocks(Daemons!start_daemon \o t)
<1>1. t \in Seq(RegtestSteps)
  BY StepsAre DEF Fit
<1>2. PICK c1 \in RegtestSteps, c2 \in RegtestSteps, c3 \in RegtestSteps, s \in RegtestSteps :
         /\ c1 = <<"call", "loadwallet", "miner">> /\ c2 = <<"call", "loadwallet", "bob">> /\ c3 = <<"call", "loadwallet", "alice">>
         /\ s = <<"start">>
  BY <1>1, ForEachOf, StepsAre DEF Starts
<1>3. PICK t3 : t3 = <<c3>> \o t
  OBVIOUS
<1>4. PICK t2 : t2 = <<c2>> \o t3
  OBVIOUS
<1>5. PICK t1 : t1 = <<c1>> \o t2
  OBVIOUS
<1>6. Daemons!start_daemon \o t = <<s>> \o t1
  <2>1. PICK f \in Seq(RegtestSteps) : f = Daemons!ForEach("loadwallet")
    BY <1>1, ForEachOf
  <2>2. f \o t = t1
    BY <1>1, <1>2, <1>3, <1>4, <1>5, <2>1, ForEachOf
  <2>3. Daemons!start_daemon = <<s>> \o f
    BY <1>2, <2>1 DEF Daemons!start_daemon
  <2>4. PICK p \in Seq(RegtestSteps) : p = <<s>>
    <3>1. <<s>> \in Seq(RegtestSteps)
      OBVIOUS
    <3> QED
      BY <3>1
  <2>5. Associate(p, f, t)
    BY <1>1, Associates
  <2> QED
    BY <2>2, <2>3, <2>4, <2>5 DEF Associate
<1>7. c1 \in Loads /\ c2 \in Loads /\ c3 \in Loads /\ s \in Starts
  BY <1>2 DEF Loads, Starts
<1>8. Fit("regtest", t3) /\ t3 \in Seq(RegtestSteps)
  BY <1>3, <1>7, NoStarts, PlainCons
<1>9. Fit("regtest", t2) /\ t2 \in Seq(RegtestSteps)
  BY <1>4, <1>7, <1>8, NoStarts, PlainCons
<1>10. Fit("regtest", t1) /\ t1 \in Seq(RegtestSteps)
  BY <1>5, <1>7, <1>9, NoStarts, PlainCons
<1>11. c1 \in LoadsOf("miner") /\ c2 \in LoadsOf("bob") /\ c3 \in LoadsOf("alice")
  BY <1>2 DEF LoadsOf
<1>12. \A u \in {"miner", "bob", "alice"} : Has(t1, LoadsOf(u))
  <2>1. Has(t1, LoadsOf("miner"))
    BY <1>5, <1>9, <1>11, HasCons
  <2>2. Has(t2, LoadsOf("bob"))
    BY <1>4, <1>8, <1>11, HasCons
  <2>3. Has(t1, LoadsOf("bob"))
    BY <1>5, <1>9, <2>2, HasCons
  <2>4. Has(t3, LoadsOf("alice"))
    BY <1>1, <1>3, <1>11, HasCons
  <2>5. Has(t2, LoadsOf("alice"))
    BY <1>4, <1>8, <2>4, HasCons
  <2>6. Has(t1, LoadsOf("alice"))
    BY <1>5, <1>9, <2>5, HasCons
  <2> QED
    BY <2>1, <2>3, <2>6
<1>13. Fit("regtest", <<s>> \o t1)
  <2>1. Follows(s, t1)
    BY <1>7, <1>12, NoStarts, UsersAre DEF Follows
  <2> QED
    BY <1>10, <2>1, FitCons, StepsAre
<1>14. \A W : Has(t, W) => Has(<<s>> \o t1, W)
  <2> SUFFICES ASSUME NEW W, Has(t, W) PROVE Has(<<s>> \o t1, W)
    OBVIOUS
  <2>1. Has(t3, W)
    BY <1>1, <1>3, HasCons
  <2>2. Has(t2, W)
    BY <1>4, <1>8, <2>1, HasCons
  <2>3. Has(t1, W)
    BY <1>5, <1>9, <2>2, HasCons
  <2> QED
    BY <1>10, <2>3, HasCons
<1>15. HasBlocks(t) => HasBlocks(<<s>> \o t1)
  <2> SUFFICES ASSUME HasBlocks(t) PROVE HasBlocks(<<s>> \o t1)
    OBVIOUS
  <2>1. HasBlocks(t3)
    BY <1>1, <1>3, HasBlocksCons
  <2>2. HasBlocks(t2)
    BY <1>4, <1>8, <2>1, HasBlocksCons
  <2>3. HasBlocks(t1)
    BY <1>5, <1>9, <2>2, HasBlocksCons
  <2> QED
    BY <1>10, <2>3, HasBlocksCons
<1>16. ASSUME Goes(AllReady, t), NEW loaded \in SUBSET {"miner", "bob", "alice", "own"}
       PROVE  Goes(Mode("down", loaded, {"miner", "bob", "alice"}), <<s>> \o t1)
  <2> DEFINE us == {"miner", "bob", "alice"}
             m0 == Mode("ready", {}, us)
             m1 == Mode("ready", {"miner"}, us)
             m2 == Mode("ready", {"miner", "bob"}, us)
             md == Mode("down", loaded, us)
  <2>1. /\ m0 \in Modes /\ m0.st = "ready" /\ m0.loaded = {} /\ m0.wallets = us
        /\ m1 \in Modes /\ m1.st = "ready" /\ m1.loaded = {"miner"} /\ m1.wallets = us
        /\ m2 \in Modes /\ m2.st = "ready" /\ m2.loaded = {"miner", "bob"} /\ m2.wallets = us
        /\ md \in Modes /\ md.st = "down" /\ md.wallets = us
    BY ModesAre DEF Mode
  <2>2. AllReady = Mode("ready", us, us) /\ AllReady \in Modes
    BY UsersAre, ModesAre DEF AllReady
  <2>3. /\ m1 = Mode("ready", m0.loaded \union {"miner"}, m0.wallets)
        /\ m2 = Mode("ready", m1.loaded \union {"bob"}, m1.wallets)
        /\ AllReady = Mode("ready", m2.loaded \union {"alice"}, m2.wallets)
        /\ m0 = Mode("ready", {}, md.wallets)
    <3>1. {} \union {"miner"} = {"miner"} /\ {"miner"} \union {"bob"} = {"miner", "bob"} /\ {"miner", "bob"} \union {"alice"} = us
      OBVIOUS
    <3> QED
      BY <2>1, <2>2, <3>1
  <2> HIDE DEF m0, m1, m2, md
  <2>4. CallLeads(m0, "loadwallet", "miner", m1) /\ CallLeads(m1, "loadwallet", "bob", m2) /\ CallLeads(m2, "loadwallet", "alice", AllReady)
    BY <2>1, <2>3 DEF CallLeads
  <2>5. Leads(m0, c1, m1) /\ Leads(m1, c2, m2) /\ Leads(m2, c3, AllReady) /\ Leads(md, s, m0)
    <3>1. ASSUME NEW u \in {"miner", "bob", "alice", "own"}, NEW m, NEW n, CallLeads(m, "loadwallet", u, n)
          PROVE  Leads(m, <<"call", "loadwallet", u>>, n)
      BY <3>1 DEF Leads
    <3>2. Leads(md, s, m0)
      BY <1>2, <2>1, <2>3 DEF Leads
    <3> QED
      BY <1>2, <2>4, <3>1, <3>2
  <2>6. Goes(m2, t3)
    BY <1>1, <1>3, <1>16, <2>1, <2>2, <2>5, GoesCons
  <2>7. Goes(m1, t2)
    BY <1>4, <1>8, <2>1, <2>5, <2>6, GoesCons
  <2>8. Goes(m0, t1)
    BY <1>5, <1>9, <2>1, <2>5, <2>7, GoesCons
  <2>9. Goes(md, <<s>> \o t1)
    BY <1>10, <2>1, <2>5, <2>8, GoesCons
  <2> QED
    BY <2>9 DEF md
<1> QED
  BY <1>1, <1>6, <1>13, <1>14, <1>15, <1>16

LEMMA ClientPlain == \A s \in ClientSteps : \A t : Follows(s, t)
<1>1. /\ \A y, z : <<"call", y, z>>[1] = "call" /\ <<"call", y, z>>[3] = z
      /\ <<"connect">>[1] = "connect" /\ <<"chain">>[1] = "chain" /\ <<"version">>[1] = "version"
      /\ <<"listwallets">>[1] = "listwallets" /\ <<"listwalletdir">>[1] = "listwalletdir"
  OBVIOUS
<1>2. \A s \in LoadsOf("own") : \E y : s = <<"call", y, "own">>
  BY Zenon DEF LoadsOf
<1>3. \A s \in LoadsOf("own") : s[1] = "call" /\ s[3] = "own"
  BY <1>1, <1>2
<1>4. \A s \in ClientSteps : s[1] \in {"connect", "chain", "version", "listwallets", "listwalletdir"} \/ (s[1] = "call" /\ s[3] = "own")
  BY <1>1, <1>3, Zenon DEF ClientSteps, OwnSteps
<1>5. \A s \in Starts : s[1] \in {"start", "run", "data dir"}
  <2>1. <<"start">>[1] = "start" /\ <<"run">>[1] = "run" /\ <<"data dir">>[1] = "data dir"
    OBVIOUS
  <2> QED
    BY <2>1, Zenon DEF Starts
<1>6. \A s \in Creates : s[1] = "call" /\ s[3] \in {"miner", "bob", "alice"}
  <2>1. \A s \in Creates : \E z \in {"miner", "bob", "alice"} : s = <<"call", "createwallet", z>>
    BY Zenon DEF Creates
  <2> QED
    BY <1>1, <2>1
<1>7. \A s \in ClientSteps : s \notin Starts /\ s \notin Creates
  BY <1>4, <1>5, <1>6
<1> QED
  BY <1>7 DEF Follows

LEMMA ClientServes ==
    /\ Fit("mainnet", Daemons!Steps("client")) /\ Daemons!Steps("client any version") = Daemons!Steps("client")
    /\ \A x, y \in SUBSET {"miner", "bob", "alice", "own"} : Goes(Mode("ready", x, y), Daemons!Steps("client"))
    /\ Has(Daemons!Steps("client"), OwnSteps) /\ Has(Daemons!Steps("client"), {<<"chain">>})
<1>1. /\ Daemons!Steps("client") = <<<<"connect">>, <<"chain">>, <<"listwallets">>, <<"version">>>>
      /\ Daemons!Steps("client any version") = Daemons!Steps("client")
  BY DEF Daemons!Steps
<1>2. PICK s1 \in ClientSteps, s2 \in ClientSteps, s3 \in ClientSteps, s4 \in ClientSteps :
         s1 = <<"connect">> /\ s2 = <<"chain">> /\ s3 = <<"listwallets">> /\ s4 = <<"version">>
  BY DEF ClientSteps, OwnSteps
<1>3. PICK t4 : t4 = <<s4>> \o <<>>
  OBVIOUS
<1>4. PICK t3 : t3 = <<s3>> \o t4
  OBVIOUS
<1>5. PICK t2 : t2 = <<s2>> \o t3
  OBVIOUS
<1>6. PICK t1 : t1 = <<s1>> \o t2
  OBVIOUS
<1>7. <<>> \in Seq(ClientSteps) /\ Fit("mainnet", <<>>) /\ StepsOf("mainnet") = ClientSteps
  <2>1. <<>> \in Seq(ClientSteps)
    OBVIOUS
  <2> QED
    BY <2>1, EmptyFit, StepsAre
<1>8. Fit("mainnet", t4) /\ t4 \in Seq(ClientSteps)
  BY <1>3, <1>7, ClientPlain, FitCons, ConsFacts
<1>9. Fit("mainnet", t3) /\ t3 \in Seq(ClientSteps)
  BY <1>4, <1>7, <1>8, ClientPlain, FitCons, ConsFacts
<1>10. Fit("mainnet", t2) /\ t2 \in Seq(ClientSteps)
  BY <1>5, <1>7, <1>9, ClientPlain, FitCons, ConsFacts
<1>11. Fit("mainnet", t1)
  BY <1>6, <1>7, <1>10, ClientPlain, FitCons
<1>12. Daemons!Steps("client") = t1
  <2>1. PICK S : S = ClientSteps
    OBVIOUS
  <2>2. s1 \in S /\ s2 \in S /\ s3 \in S /\ s4 \in S /\ <<>> \in Seq(S)
    BY <1>7, <2>1
  <2>3. OneByOne(s1, s2, s3, s4, <<>>)
    BY <2>2, Cons4
  <2>4. <<s1, s2, s3, s4>> \o <<>> = <<s1, s2, s3, s4>>
    <3>1. <<s1, s2, s3, s4>> \in Seq(S)
      BY <2>2
    <3> QED
      BY <3>1, EmptyCons
  <2> QED
    BY <1>1, <1>2, <1>3, <1>4, <1>5, <1>6, <2>3, <2>4 DEF OneByOne
<1>13. ASSUME NEW x \in SUBSET {"miner", "bob", "alice", "own"}, NEW y \in SUBSET {"miner", "bob", "alice", "own"}
       PROVE  Goes(Mode("ready", x, y), t1)
  <2>1. PICK m \in Modes : m = Mode("ready", x, y) /\ m.st = "ready" /\ m.loaded = x /\ m.wallets = y
    BY ModesAre
  <2>2. PICK n \in Modes : n.st = "ready" /\ Leads(m, s3, n)
    <3>1. CASE "own" \in x
      BY <1>2, <2>1, <3>1 DEF Leads
    <3>2. CASE "own" \notin x
      <4>1. PICK n \in Modes : n = Mode("ready", m.loaded \union {"own"}, m.wallets \union {"own"}) /\ n.st = "ready"
        <5>1. m.loaded \union {"own"} \in SUBSET {"miner", "bob", "alice", "own"} /\ m.wallets \union {"own"} \in SUBSET {"miner", "bob", "alice", "own"}
          BY <2>1
        <5> QED
          BY <5>1, ModesAre
      <4> QED
        BY <1>2, <2>1, <3>2, <4>1 DEF Leads
    <3> QED
      BY <3>1, <3>2
  <2>3. Leads(m, s1, m) /\ Leads(m, s2, m) /\ Leads(n, s4, n)
    BY <1>2, <2>1, <2>2 DEF Leads
  <2>4. Goes(n, t4)
    BY <1>3, <1>7, <2>3, EmptyGoes, GoesCons
  <2>5. Goes(m, t3)
    BY <1>4, <1>8, <2>2, <2>4, GoesCons
  <2>6. Goes(m, t2)
    BY <1>5, <1>9, <2>3, <2>5, GoesCons
  <2>7. Goes(m, t1)
    BY <1>6, <1>10, <2>3, <2>6, GoesCons
  <2> QED
    BY <2>1, <2>7
<1>14. Has(t1, OwnSteps) /\ Has(t1, {<<"chain">>})
  <2>1. s3 \in OwnSteps /\ s2 \in {<<"chain">>}
    BY <1>2 DEF OwnSteps
  <2>2. Has(t3, OwnSteps)
    BY <1>4, <1>8, <2>1, HasCons
  <2>3. Has(t2, OwnSteps) /\ Has(t2, {<<"chain">>})
    BY <1>5, <1>9, <2>1, <2>2, HasCons
  <2> QED
    BY <1>6, <1>10, <2>3, HasCons
<1> QED
  BY <1>1, <1>11, <1>12, <1>13, <1>14

LEMMA CommandFits ==
    \A name \in Daemons!CommandNames :
       Fit(IF name \in Daemons!ClientNames THEN "mainnet" ELSE "regtest", Daemons!Steps(name))
<1>1. /\ Fit("regtest", Daemons!Steps("setup")) /\ Fit("regtest", Daemons!Steps("setup on"))
  <2>1. <<>> \in Seq(RegtestSteps) /\ <<<<"rpc", "stop", "">>>> \in Seq(RegtestSteps)
    BY WellStop, WellEmpty, StepsAre DEF Well, Fit
  <2>2. Daemons!Steps("setup") = Daemons!setup(<<<<"rpc", "stop", "">>>>) /\ Daemons!Steps("setup on") = Daemons!setup(<<>>)
    BY DEF Daemons!Steps
  <2> QED
    BY <2>1, <2>2, WellStop, WellEmpty, SetupServes
<1>2. ASSUME NEW s \in RegtestSteps, s \notin Starts, s \notin Creates PROVE Fit("regtest", <<s>>)
  <2>1. <<s>> \in Seq(RegtestSteps)
    OBVIOUS
  <2>2. <<s>> \o <<>> = <<s>>
    BY <2>1, EmptyCons
  <2> QED
    BY <1>2, <2>2, EmptyFit, PlainCons
<1>3. Fit("regtest", Daemons!Steps("start")) /\ Fit("regtest", Daemons!Steps("stop"))
  <2>1. <<"start?">> \in Questions /\ <<"stop">> \in Questions
    BY DEF Questions
  <2>2. Daemons!Steps("start") = <<<<"start?">>>> /\ Daemons!Steps("stop") = <<<<"stop">>>>
    BY DEF Daemons!Steps
  <2> QED
    BY <1>2, <2>1, <2>2, NoStarts, StepsAre
<1>4. Fit("regtest", Daemons!Steps("generate")) /\ Well(Daemons!Steps("generate"))
  <2>1. Daemons!Steps("generate") = Daemons!miner_addr
    BY DEF Daemons!Steps
  <2>2. Well(Daemons!miner_addr \o <<>>)
    BY WellEmpty, MinerWell
  <2>3. Daemons!miner_addr \o <<>> = Daemons!miner_addr
    <3>1. Daemons!miner_addr \in Seq(RegtestSteps)
      <4>1. PICK q1 \in RegtestSteps, q2 \in RegtestSteps, q3 \in RegtestSteps, q4 \in RegtestSteps :
               q1 = <<"up?">> /\ q2 = <<"wait", "ready">> /\ q3 = <<"rpc", "getnewaddress", "miner">> /\ q4 = <<"rpc", "block", "miner">>
        BY StepsAre DEF Questions
      <4>2. <<q1, q2, q3, q4>> \in Seq(RegtestSteps)
        OBVIOUS
      <4> QED
        BY <4>1, <4>2 DEF Daemons!miner_addr
    <3> QED
      BY <3>1, EmptyCons
  <2> QED
    BY <2>1, <2>2, <2>3 DEF Well
<1>5. Fit("regtest", Daemons!Steps("send"))
  <2>1. Daemons!Steps("send") = <<<<"rpc", "send", "miner">>>> \o Daemons!Steps("generate")
    BY DEF Daemons!Steps
  <2>2. <<"rpc", "send", "miner">> \in ReadyAsked
    BY DEF ReadyAsked
  <2> QED
    BY <1>4, <2>1, <2>2, WellCons DEF Well
<1>6. Fit("regtest", Daemons!Steps("balances"))
  <2>1. PICK s1 \in ReadyAsked, s2 \in ReadyAsked : s1 = <<"rpc", "listunspent", "bob">> /\ s2 = <<"rpc", "listunspent", "alice">>
    BY DEF ReadyAsked
  <2>2. Well(<<s2>> \o <<>>) /\ s2 \in RegtestSteps /\ <<>> \in Seq(RegtestSteps)
    BY WellEmpty, WellCons
  <2>3. Well(<<s1>> \o (<<s2>> \o <<>>)) /\ s1 \in RegtestSteps
    BY <2>2, WellCons
  <2>4. <<s1, s2>> \o <<>> = <<s1>> \o (<<s2>> \o <<>>)
    BY <2>2, <2>3, Cons2
  <2>5. <<s1, s2>> \o <<>> = <<s1, s2>>
    <3>1. <<s1, s2>> \in Seq(RegtestSteps)
      BY <2>2, <2>3
    <3> QED
      BY <3>1, EmptyCons
  <2>6. Daemons!Steps("balances") = <<s1, s2>>
    BY <2>1 DEF Daemons!Steps
  <2> QED
    BY <2>3, <2>4, <2>5, <2>6 DEF Well
<1>7. Fit("mainnet", Daemons!Steps("client")) /\ Fit("mainnet", Daemons!Steps("client any version"))
  BY ClientServes
<1> QED
  BY <1>1, <1>3, <1>4, <1>5, <1>6, <1>7 DEF Daemons!CommandNames, Daemons!ClientNames

LEMMA GoesOne ==
    ASSUME NEW s \in RegtestSteps, NEW m \in Modes, NEW n \in Modes, Leads(m, s, n)
    PROVE  Goes(m, <<s>>)
<1>1. <<s>> \in Seq(RegtestSteps) /\ <<>> \in Seq(RegtestSteps)
  OBVIOUS
<1>2. <<s>> \o <<>> = <<s>>
  BY <1>1, EmptyCons
<1>3. Goes(m, <<s>> \o <<>>)
  BY <1>1, EmptyGoes, GoesCons
<1> QED
  BY <1>2, <1>3

LEMMA AskedLeads ==
    ASSUME NEW x, NEW y, <<x, y>> \in Asked, y \in {"miner", "bob", "alice"}, x # "stop",
           NEW m, m.st = "down", m.wallets = {"miner", "bob", "alice"}
    PROVE  Leads(m, <<"rpc", x, y>>, AllReady)
<1>1. /\ AllReady.st = "ready" /\ AllReady.loaded = {"miner", "bob", "alice"}
  BY UsersAre DEF AllReady, Mode
<1>2. <<x, y>>[1] = x /\ <<x, y>>[2] = y
  OBVIOUS
<1>3. x \notin {"stop", "loadwallet", "createwallet"}
  BY DEF Asked
<1>4. CallLeads(AllReady, x, y, AllReady)
  BY <1>1, <1>3 DEF CallLeads
<1>5. \E z \in Asked : <<"rpc", x, y>> = <<"rpc", z[1], z[2]>> /\ CallLeads(AllReady, z[1], z[2], AllReady)
  BY <1>2, <1>4
<1> QED
  BY <1>5, UsersAre DEF Leads

LEMMA CommandServes ==
    ASSUME NEW loaded \in SUBSET {"miner", "bob", "alice", "own"}
    PROVE  /\ \A name \in {"setup", "setup on"} : Goes(Mode("absent", loaded, {}), Daemons!Steps(name))
           /\ \A name \in {"start", "stop", "send", "balances"} :
                 /\ Goes(Mode("down", loaded, Daemons!Users), Daemons!Steps(name))
                 /\ Goes(AllReady, Daemons!Steps(name))
           /\ Goes(AllReady, Daemons!Steps("generate"))
<1>1. \A name \in {"setup", "setup on"} : Goes(Mode("absent", loaded, {}), Daemons!Steps(name))
  <2>1. <<>> \in Seq(RegtestSteps) /\ <<<<"rpc", "stop", "">>>> \in Seq(RegtestSteps)
    BY WellStop, WellEmpty, StepsAre DEF Well, Fit
  <2>2. Daemons!Steps("setup") = Daemons!setup(<<<<"rpc", "stop", "">>>>) /\ Daemons!Steps("setup on") = Daemons!setup(<<>>)
    BY DEF Daemons!Steps
  <2> QED
    BY <2>1, <2>2, WellStop, WellEmpty, SetupServes
<1>2. PICK m \in Modes : m = Mode("down", loaded, Daemons!Users) /\ m.st = "down" /\ m.loaded = loaded /\ m.wallets = {"miner", "bob", "alice"}
  BY ModesAre, UsersAre
<1>3. /\ AllReady.st = "ready" /\ AllReady.loaded = {"miner", "bob", "alice"} /\ AllReady.wallets = {"miner", "bob", "alice"}
      /\ AllReady \in Modes
  BY UsersAre, ModesAre DEF AllReady, Mode
<1>4. Goes(m, Daemons!Steps("start")) /\ Goes(AllReady, Daemons!Steps("start"))
  <2>1. PICK s \in RegtestSteps : s = <<"start?">>
    BY StepsAre DEF Questions
  <2>2. Leads(m, s, AllReady) /\ Leads(AllReady, s, AllReady)
    BY <1>2, <2>1, UsersAre DEF Leads
  <2>3. Daemons!Steps("start") = <<s>>
    BY <2>1 DEF Daemons!Steps
  <2> QED
    BY <1>2, <1>3, <2>2, <2>3, GoesOne
<1>5. Goes(m, Daemons!Steps("stop")) /\ Goes(AllReady, Daemons!Steps("stop"))
  <2>1. PICK s \in RegtestSteps : s = <<"stop">>
    BY StepsAre DEF Questions
  <2>2. PICK n \in Modes : n = Mode("stopping", AllReady.loaded, AllReady.wallets)
    BY <1>3, ModesAre
  <2>3. Leads(m, s, m) /\ Leads(AllReady, s, n)
    BY <1>2, <1>3, <2>1, <2>2 DEF Leads
  <2>4. Daemons!Steps("stop") = <<s>>
    BY <2>1 DEF Daemons!Steps
  <2> QED
    BY <1>2, <1>3, <2>3, <2>4, GoesOne
<1>6. Goes(AllReady, Daemons!Steps("generate")) /\ Well(Daemons!Steps("generate"))
  <2>1. Daemons!Steps("generate") = Daemons!miner_addr
    BY DEF Daemons!Steps
  <2>2. Well(Daemons!miner_addr \o <<>>)
    BY WellEmpty, MinerWell
  <2>3. Daemons!miner_addr \o <<>> = Daemons!miner_addr
    <3>1. Fit("regtest", Daemons!miner_addr)
      BY <2>1, CommandFits DEF Daemons!CommandNames, Daemons!ClientNames
    <3> QED
      BY <3>1, EmptyCons, StepsAre DEF Fit
  <2> QED
    BY <2>1, <2>2, <2>3 DEF Well
<1>7. Goes(m, Daemons!Steps("send")) /\ Goes(AllReady, Daemons!Steps("send"))
  <2>1. Daemons!Steps("send") = <<<<"rpc", "send", "miner">>>> \o Daemons!Steps("generate")
    BY DEF Daemons!Steps
  <2>2. <<"rpc", "send", "miner">> \in ReadyAsked
    BY DEF ReadyAsked
  <2>3. /\ Goes(AllReady, Daemons!Steps("send")) /\ Daemons!Steps("generate") \in Seq(RegtestSteps)
        /\ <<"rpc", "send", "miner">> \in RegtestSteps
    BY <1>6, <2>1, <2>2, WellCons DEF Well
  <2>4. Leads(m, <<"rpc", "send", "miner">>, AllReady)
    <3>1. <<"send", "miner">> \in Asked
      BY DEF Asked
    <3> QED
      BY <1>2, <3>1, AskedLeads
  <2>5. Goes(m, <<<<"rpc", "send", "miner">>>> \o Daemons!Steps("generate"))
    BY <1>2, <1>3, <1>6, <2>3, <2>4, GoesCons
  <2> QED
    BY <2>1, <2>3, <2>5
<1>8. Goes(m, Daemons!Steps("balances")) /\ Goes(AllReady, Daemons!Steps("balances"))
  <2>1. PICK s1 \in ReadyAsked, s2 \in ReadyAsked : s1 = <<"rpc", "listunspent", "bob">> /\ s2 = <<"rpc", "listunspent", "alice">>
    BY DEF ReadyAsked
  <2>2. Well(<<s2>> \o <<>>) /\ s2 \in RegtestSteps /\ <<>> \in Seq(RegtestSteps)
    BY WellEmpty, WellCons
  <2>3. Well(<<s1>> \o (<<s2>> \o <<>>)) /\ s1 \in RegtestSteps /\ <<s2>> \o <<>> \in Seq(RegtestSteps)
    BY <2>2, WellCons
  <2>4. <<s1, s2>> \o <<>> = <<s1>> \o (<<s2>> \o <<>>)
    BY <2>2, <2>3, Cons2
  <2>5. <<s1, s2>> \o <<>> = <<s1, s2>>
    <3>1. <<s1, s2>> \in Seq(RegtestSteps)
      BY <2>2, <2>3
    <3> QED
      BY <3>1, EmptyCons
  <2>6. Daemons!Steps("balances") = <<s1, s2>>
    BY <2>1 DEF Daemons!Steps
  <2>7. Leads(m, s1, AllReady)
    <3>1. <<"listunspent", "bob">> \in Asked
      BY DEF Asked
    <3> QED
      BY <1>2, <2>1, <3>1, AskedLeads
  <2>8. Goes(m, <<s1>> \o (<<s2>> \o <<>>))
    BY <1>2, <1>3, <2>2, <2>3, <2>7, GoesCons DEF Well
  <2> QED
    BY <2>3, <2>4, <2>5, <2>6, <2>8 DEF Well
<1> QED
  BY <1>1, <1>2, <1>4, <1>5, <1>6, <1>7, <1>8

(* A step is known by its first word.                                      *)
LEMMA RegtestWords ==
    ASSUME NEW s \in RegtestSteps
    PROVE  /\ s[1] \in {"start", "run", "data dir", "start?", "stop?", "up?", "stop", "sleep"} => s = <<s[1]>>
           /\ s[1] = "wait" => s = <<"wait", "ready">> \/ s = <<"wait", "stopped">>
           /\ s[1] = "rpc" => \E x \in Asked : s = <<"rpc", x[1], x[2]>>
           /\ s[1] = "call" => s \in Loads \/ s \in Creates \/ \E x \in Asked : s = <<"call", x[1], x[2]>>
           /\ s[1] \in {"start", "run", "data dir", "start?", "stop?", "up?", "stop", "sleep", "wait", "rpc", "call"}
<1>1. /\ \A y, z : <<"call", y, z>>[1] = "call" /\ <<"rpc", y, z>>[1] = "rpc"
      /\ <<"start?">>[1] = "start?" /\ <<"stop?">>[1] = "stop?" /\ <<"up?">>[1] = "up?" /\ <<"stop">>[1] = "stop"
      /\ <<"sleep">>[1] = "sleep" /\ <<"wait", "ready">>[1] = "wait" /\ <<"wait", "stopped">>[1] = "wait"
      /\ <<"start">>[1] = "start" /\ <<"run">>[1] = "run" /\ <<"data dir">>[1] = "data dir"
  OBVIOUS
<1>2. CASE s \in Starts
  <2>1. s = <<s[1]>> /\ s[1] \in {"start", "run", "data dir"}
    BY <1>1, <1>2, Zenon DEF Starts
  <2> QED
    BY <2>1
<1>3. CASE s \in Creates \union Loads
  <2>1. \E y, z : s = <<"call", y, z>>
    BY <1>3, Zenon DEF Creates, Loads
  <2> QED
    BY <1>1, <1>3, <2>1
<1>4. CASE s \in Questions
  <2>1. \/ s = <<s[1]>> /\ s[1] \in {"start?", "stop?", "up?", "stop", "sleep"}
        \/ s[1] = "wait" /\ (s = <<"wait", "ready">> \/ s = <<"wait", "stopped">>)
    BY <1>1, <1>4, Zenon DEF Questions
  <2> QED
    BY <2>1
<1>5. CASE s \in Requests
  <2>1. \E x \in Asked : s = <<"rpc", x[1], x[2]>> \/ s = <<"call", x[1], x[2]>>
    BY <1>5, Zenon DEF Requests
  <2>2. CASE \E x \in Asked : s = <<"rpc", x[1], x[2]>>
    BY <1>1, <2>2
  <2>3. CASE \E x \in Asked : s = <<"call", x[1], x[2]>>
    BY <1>1, <2>3
  <2> QED
    BY <2>1, <2>2, <2>3
<1> QED
  BY <1>2, <1>3, <1>4, <1>5 DEF RegtestSteps

LEMMA ClientWords ==
    ASSUME NEW s \in ClientSteps
    PROVE  /\ s[1] \in {"connect", "chain", "version", "listwallets", "listwalletdir"} => s = <<s[1]>>
           /\ s[1] = "call" => s \in LoadsOf("own")
           /\ s[1] \in {"connect", "chain", "version", "listwallets", "listwalletdir", "call"}
<1>1. /\ \A y, z : <<"call", y, z>>[1] = "call"
      /\ <<"connect">>[1] = "connect" /\ <<"chain">>[1] = "chain" /\ <<"version">>[1] = "version"
      /\ <<"listwallets">>[1] = "listwallets" /\ <<"listwalletdir">>[1] = "listwalletdir"
  OBVIOUS
<1>2. CASE s \in LoadsOf("own")
  <2>1. \E y : s = <<"call", y, "own">>
    BY <1>2, Zenon DEF LoadsOf
  <2> QED
    BY <1>1, <1>2, <2>1
<1>3. CASE s \in {<<"connect">>, <<"chain">>, <<"version">>, <<"listwallets">>, <<"listwalletdir">>}
  <2>1. s = <<s[1]>> /\ s[1] \in {"connect", "chain", "version", "listwallets", "listwalletdir"}
    BY <1>1, <1>3, Zenon
  <2> QED
    BY <2>1
<1> QED
  BY <1>2, <1>3 DEF ClientSteps, OwnSteps

Owners(kind) == IF kind = "mainnet" THEN {"own"} ELSE Daemons!Users

ShapeInv ==
    /\ chain.net \in {"mainnet", "regtest"} /\ cmd \in [Procs -> Daemons!CommandNames \union {""}]
    /\ pc \in [Procs -> {"idle", "runs", "done", "failed", "killed"}]
    /\ todo = [p \in Procs |-> todo[p]] /\ \A p \in Procs : Fit(chain.net, todo[p])
    /\ daemon \in [state : {"down", "launching", "warmup", "ready", "stopping"}, loaded : SUBSET Owners(chain.net)]
    /\ disk \in [made : BOOLEAN, wallets : SUBSET Owners(chain.net), height : Nat, locked : BOOLEAN]
    /\ faults \in Nat /\ clean \subseteq Procs
    /\ disk.locked => daemon.state # "down"
    /\ ~disk.made => disk.wallets = {}

LEMMA AtHead ==
    ASSUME ShapeInv, NEW p \in Procs, todo[p] # <<>>
    PROVE  /\ Head(todo[p]) \in StepsOf(chain.net) /\ Tail(todo[p]) \in Seq(StepsOf(chain.net))
           /\ todo[p] = <<Head(todo[p])>> \o Tail(todo[p])
           /\ Fit(chain.net, Tail(todo[p])) /\ Follows(Head(todo[p]), Tail(todo[p]))
<1>1. PICK l : l = todo[p]
  OBVIOUS
<1>2. Fit(chain.net, l) /\ l # <<>> /\ l \in Seq(StepsOf(chain.net))
  BY <1>1 DEF ShapeInv, Fit
<1>3. Head(l) \in StepsOf(chain.net) /\ Tail(l) \in Seq(StepsOf(chain.net)) /\ l = <<Head(l)>> \o Tail(l)
  BY <1>2, HeadOff
<1>4. Fit(chain.net, Tail(l)) /\ Follows(Head(l), Tail(l))
  <2>1. PICK kind : kind = chain.net
    OBVIOUS
  <2>2. PICK s \in StepsOf(kind), t \in Seq(StepsOf(kind)) : s = Head(l) /\ t = Tail(l) /\ l = <<s>> \o t
    BY <1>3, <2>1
  <2>3. Fit(kind, <<s>> \o t)
    BY <1>2, <2>1, <2>2
  <2>4. Fit(kind, t) /\ Follows(s, t)
    BY <2>3, FitCons
  <2> QED
    BY <2>1, <2>2, <2>4
<1> QED
  BY <1>1, <1>3, <1>4

(* What a step that has been made, or decided upon, is replaced with.      *)
Becomes(s, A) ==
    \/ /\ A = <<>> /\ s[1] \notin {"rpc", "listwalletdir"}
       /\ s = <<"listwallets">> => "own" \in daemon.loaded
       /\ s = <<"chain">> => Daemons!OwnChain(chain)
    \/ s = <<"start">> /\ A = <<<<"wait", "stopped">>, <<"run">>, <<"wait", "ready">>>>
    \/ s = <<"stop">> /\ A = <<<<"wait", "stopped">>, <<"sleep">>>>
    \/ s = <<"start?">> /\ A = Daemons!start_daemon
    \/ s = <<"stop?">> /\ A = <<<<"rpc", "stop", "">>>>
    \/ \E x \in Asked : /\ s = <<"rpc", x[1], x[2]>>
                        /\ \/ A = <<<<"call", x[1], x[2]>>>>
                           \/ A = Append(Daemons!start_daemon, <<"call", x[1], x[2]>>)
    \/ s = <<"listwallets">> /\ A = <<<<"listwalletdir">>>>
    \/ s = <<"listwalletdir">> /\ A \in {<<<<"call", "loadwallet", "own">>>>, <<<<"call", "createwallet", "own">>>>}

Grows(kind, t, l) ==
    /\ Fit(kind, l)
    /\ \A W : Has(t, W) => Has(l, W)
    /\ HasBlocks(t) => HasBlocks(l)

Kept(kind, s, t, l) ==
    /\ Grows(kind, t, l)
    /\ s[1] = "call" => l = t
    /\ s[1] # "call" =>
         /\ HasBlocks(<<s>> \o t) => HasBlocks(l)
         /\ Has(<<s>> \o t, Digs("more blocks")) => Has(l, Digs("more blocks"))
         /\ \A u \in Daemons!Users : Has(<<s>> \o t, LoadsOf(u)) => Has(l, LoadsOf(u))

LEMMA GrowsCons ==
    ASSUME NEW kind, NEW a \in StepsOf(kind), NEW t, Fit(kind, t), Follows(a, t)
    PROVE  Grows(kind, t, <<a>> \o t)
<1>1. t \in Seq(StepsOf(kind))
  BY DEF Fit
<1>2. Fit(kind, <<a>> \o t)
  BY <1>1, FitCons
<1>3. \A W : Has(t, W) => Has(<<a>> \o t, W)
  BY <1>1, HasCons
<1>4. HasBlocks(t) => HasBlocks(<<a>> \o t)
  BY <1>1, HasBlocksCons
<1> QED
  BY <1>2, <1>3, <1>4 DEF Grows

LEMMA GrowsOn == \A kind, t, l, m : Grows(kind, t, l) /\ Grows(kind, l, m) => Grows(kind, t, m)
BY DEF Grows

LEMMA PlainGrows ==
    ASSUME NEW a \in RegtestSteps, a \notin Starts, a \notin Creates, NEW t, Fit("regtest", t)
    PROVE  Grows("regtest", t, <<a>> \o t)
<1>1. Follows(a, t) /\ a \in StepsOf("regtest")
  BY StepsAre DEF Follows
<1> QED
  BY <1>1, GrowsCons

LEMMA StartGrows == ASSUME NEW t, Fit("regtest", t) PROVE Grows("regtest", t, Daemons!start_daemon \o t)
BY StartServes DEF Grows

LEMMA DigWords ==
    /\ \A s, x : s \in Digs(x) => s = <<"rpc", x, "miner">> \/ s = <<"call", x, "miner">>
    /\ \A s, u : s \in LoadsOf(u) => s[1] = "call"
    /\ \A s, x : s \in Digs(x) => s[1] \in {"rpc", "call"}
<1>1. \A y, z : <<"call", y, z>>[1] = "call" /\ <<"rpc", y, z>>[1] = "rpc"
  OBVIOUS
<1>2. \A s, x : s \in Digs(x) => s = <<"rpc", x, "miner">> \/ s = <<"call", x, "miner">>
  BY Zenon DEF Digs
<1>3. \A s, u : s \in LoadsOf(u) => \E y : s = <<"call", y, u>>
  BY Zenon DEF LoadsOf
<1> QED
  BY <1>1, <1>2, <1>3

LEMMA KeptPlain ==
    ASSUME NEW kind, NEW s \in StepsOf(kind), NEW t, Fit(kind, t), NEW l, Grows(kind, t, l), s[1] \notin {"rpc", "call"}
    PROVE  Kept(kind, s, t, l)
<1>1. t \in Seq(StepsOf(kind))
  BY DEF Fit
<1>2. \A x, u : s \notin Digs(x) /\ s \notin LoadsOf(u)
  BY DigWords
<1>3. HasBlocks(<<s>> \o t) => HasBlocks(t)
  BY <1>1, <1>2, HasBlocksCons
<1>4. \A W : Has(<<s>> \o t, W) <=> s \in W \/ Has(t, W)
  BY <1>1, HasCons
<1> QED
  BY <1>2, <1>3, <1>4 DEF Kept, Grows

LEMMA Appends ==
    ASSUME NEW c \in RegtestSteps, NEW t \in Seq(RegtestSteps)
    PROVE  Append(Daemons!start_daemon, c) \o t = Daemons!start_daemon \o (<<c>> \o t)
<1>1. PICK f \in Seq(RegtestSteps) : f = Daemons!start_daemon
  <2>1. Fit("regtest", Daemons!start_daemon \o <<>>)
    BY EmptyFit, StartServes
  <2>2. PICK s \in RegtestSteps : s = <<"start">>
    BY StepsAre DEF Starts
  <2>3. PICK g \in Seq(RegtestSteps) : g = Daemons!ForEach("loadwallet")
    BY ForEachOf
  <2>4. <<s>> \in Seq(RegtestSteps)
    OBVIOUS
  <2>5. <<s>> \o g \in Seq(RegtestSteps)
    BY <2>4, ConcatProperties
  <2> QED
    BY <2>2, <2>3, <2>5 DEF Daemons!start_daemon
<1>2. PICK q \in Seq(RegtestSteps) : q = <<c>>
  <2>1. <<c>> \in Seq(RegtestSteps)
    OBVIOUS
  <2> QED
    BY <2>1
<1>3. Append(f, c) = f \o q
  BY <1>2, AppendIsConcat
<1>4. Associate(f, q, t)
  BY Associates
<1> QED
  BY <1>1, <1>2, <1>3, <1>4 DEF Associate

LEMMA AskKept ==
    ASSUME NEW x \in Asked, NEW s, s = <<"rpc", x[1], x[2]>>, NEW t, Fit("regtest", t),
           NEW A, A = <<<<"call", x[1], x[2]>>>> \/ A = Append(Daemons!start_daemon, <<"call", x[1], x[2]>>)
    PROVE  Kept("regtest", s, t, A \o t)
<1>1. PICK c \in RegtestSteps : c = <<"call", x[1], x[2]>> /\ c \notin Starts /\ c \notin Creates
  <2>1. <<"call", x[1], x[2]>> \in Requests
    BY DEF Requests
  <2> QED
    BY <2>1, RequestSteps, NoStarts
<1>2. s \in RegtestSteps /\ t \in Seq(RegtestSteps)
  BY RequestSteps, StepsAre DEF Fit
<1>3. PICK l : l = <<c>> \o t
  OBVIOUS
<1>4. Grows("regtest", t, l) /\ Fit("regtest", l)
  BY <1>1, <1>3, PlainGrows DEF Grows
<1>5. PICK m : m = A \o t
  OBVIOUS
<1>6. Grows("regtest", l, m)
  <2>1. CASE A = <<c>>
    BY <1>3, <1>4, <1>5, <2>1 DEF Grows
  <2>2. CASE A = Append(Daemons!start_daemon, c)
    <3>1. m = Daemons!start_daemon \o l
      BY <1>2, <1>3, <1>5, <2>2, Appends
    <3> QED
      BY <1>4, <3>1, StartGrows
  <2> QED
    BY <1>1, <2>1, <2>2
<1>7. \A y : s \in Digs(y) => c \in Digs(y)
  <2> SUFFICES ASSUME NEW y, s \in Digs(y) PROVE c \in Digs(y)
    OBVIOUS
  <2>1. x[1] = y /\ x[2] = "miner"
    BY DigWords
  <2> QED
    BY <1>1, <2>1 DEF Digs
<1>8. s[1] = "rpc" /\ \A u : s \notin LoadsOf(u)
  BY DigWords
<1>9. HasBlocks(<<s>> \o t) => HasBlocks(l)
  <2>1. HasBlocks(<<s>> \o t) <=> HasBlocks(t) \/ (s \in Digs("block") /\ Has(t, Digs("more blocks")))
    BY <1>2, HasBlocksCons
  <2>2. HasBlocks(<<c>> \o t) <=> HasBlocks(t) \/ (c \in Digs("block") /\ Has(t, Digs("more blocks")))
    BY <1>2, HasBlocksCons
  <2> QED
    BY <1>3, <1>7, <2>1, <2>2
<1>10. \A W : (Has(<<s>> \o t, W) <=> s \in W \/ Has(t, W)) /\ (Has(l, W) <=> c \in W \/ Has(t, W))
  BY <1>2, <1>3, HasCons
<1>11. Has(<<s>> \o t, Digs("more blocks")) => Has(l, Digs("more blocks"))
  BY <1>7, <1>10
<1>12. \A u : Has(<<s>> \o t, LoadsOf(u)) => Has(l, LoadsOf(u))
  BY <1>8, <1>10
<1>13. Grows("regtest", t, m)
  BY <1>4, <1>6, GrowsOn
<1> QED
  BY <1>5, <1>6, <1>8, <1>9, <1>11, <1>12, <1>13 DEF Kept, Grows

LEMMA StepsKeep ==
    ASSUME NEW kind \in {"mainnet", "regtest"}, NEW s \in StepsOf(kind), NEW t, Fit(kind, t), Follows(s, t),
           NEW A, Becomes(s, A)
    PROVE  Kept(kind, s, t, A \o t)
<1>1. t \in Seq(StepsOf(kind))
  BY DEF Fit
<1>2. Grows(kind, t, t)
  BY DEF Grows
<1>3. CASE A = <<>> /\ s[1] # "rpc"
  <2>1. A \o t = t
    BY <1>1, <1>3, EmptyCons
  <2>2. CASE s[1] = "call"
    BY <1>2, <2>1, <2>2 DEF Kept
  <2>3. CASE s[1] # "call"
    BY <1>2, <1>3, <2>1, <2>3, KeptPlain
  <2> QED
    BY <2>2, <2>3
<1>4. ASSUME kind = "regtest", s = <<"start">>, A = <<<<"wait", "stopped">>, <<"run">>, <<"wait", "ready">>>>
      PROVE  Kept(kind, s, t, A \o t)
  <2>1. PICK s1 \in RegtestSteps, s2 \in RegtestSteps, s3 \in RegtestSteps :
           s1 = <<"wait", "stopped">> /\ s2 = <<"run">> /\ s3 = <<"wait", "ready">>
    BY StepsAre DEF Starts, Questions
  <2>2. A \o t = <<s1>> \o (<<s2>> \o (<<s3>> \o t))
    <3>1. PICK S : S = RegtestSteps
      OBVIOUS
    <3>2. t \in Seq(S) /\ s1 \in S /\ s2 \in S /\ s3 \in S
      BY <1>1, <1>4, <3>1, StepsAre
    <3>3. ThreeAhead(s1, s2, s3, t)
      BY <3>2, Cons3
    <3> QED
      BY <1>4, <2>1, <3>3 DEF ThreeAhead
  <2>3. s1 \in Questions /\ s3 \in Questions /\ s \in Starts /\ s2 \in Starts
    BY <1>4, <2>1 DEF Questions, Starts
  <2>4. PICK t3 : t3 = <<s3>> \o t
    OBVIOUS
  <2>5. PICK t2 : t2 = <<s2>> \o t3
    OBVIOUS
  <2>6. Grows("regtest", t, t3)
    BY <1>4, <2>3, <2>4, NoStarts, PlainGrows
  <2>7. Grows("regtest", t3, t2)
    <3>1. Follows(s2, t3)
      BY <2>3, <2>6, NoStarts DEF Follows, Grows
    <3>2. s2 \in StepsOf("regtest") /\ Fit("regtest", t3)
      BY <2>6, StepsAre DEF Grows
    <3> QED
      BY <2>5, <3>1, <3>2, GrowsCons
  <2>8. Grows("regtest", t2, <<s1>> \o t2)
    <3>1. Fit("regtest", t2)
      BY <2>7 DEF Grows
    <3> QED
      BY <2>3, <3>1, NoStarts, PlainGrows
  <2>9. Grows("regtest", t, <<s1>> \o t2)
    BY <2>6, <2>7, <2>8, GrowsOn
  <2>10. s[1] = "start"
    BY <1>4
  <2> QED
    BY <1>4, <2>2, <2>4, <2>5, <2>9, <2>10, KeptPlain
<1>5. ASSUME kind = "regtest", s = <<"stop">>, A = <<<<"wait", "stopped">>, <<"sleep">>>>
      PROVE  Kept(kind, s, t, A \o t)
  <2>1. PICK s1 \in RegtestSteps, s2 \in RegtestSteps : s1 = <<"wait", "stopped">> /\ s2 = <<"sleep">>
    BY StepsAre DEF Questions
  <2>2. A \o t = <<s1>> \o (<<s2>> \o t)
    <3>1. PICK S : S = RegtestSteps
      OBVIOUS
    <3>2. t \in Seq(S) /\ s1 \in S /\ s2 \in S
      BY <1>1, <1>5, <3>1, StepsAre
    <3>3. <<s1, s2>> \o t = <<s1>> \o (<<s2>> \o t)
      BY <3>2, Cons2
    <3> QED
      BY <1>5, <2>1, <3>3
  <2>3. s1 \in Questions /\ s2 \in Questions
    BY <2>1 DEF Questions
  <2>4. PICK t2 : t2 = <<s2>> \o t
    OBVIOUS
  <2>5. Grows("regtest", t, t2)
    BY <1>5, <2>3, <2>4, NoStarts, PlainGrows
  <2>6. Grows("regtest", t2, <<s1>> \o t2)
    <3>1. Fit("regtest", t2)
      BY <2>5 DEF Grows
    <3> QED
      BY <2>3, <3>1, NoStarts, PlainGrows
  <2>7. Grows("regtest", t, <<s1>> \o t2)
    BY <2>5, <2>6, GrowsOn
  <2>8. s[1] = "stop"
    BY <1>5
  <2> QED
    BY <1>5, <2>2, <2>4, <2>7, <2>8, KeptPlain
<1>6. ASSUME kind = "regtest", s = <<"start?">>, A = Daemons!start_daemon
      PROVE  Kept(kind, s, t, A \o t)
  <2>1. s[1] = "start?"
    BY <1>6
  <2> QED
    BY <1>6, <2>1, StartGrows, KeptPlain
<1>7. ASSUME kind = "regtest", s = <<"stop?">>, A = <<<<"rpc", "stop", "">>>>
      PROVE  Kept(kind, s, t, A \o t)
  <2>1. s[1] = "stop?"
    BY <1>7
  <2>2. PICK a \in RegtestSteps : a = <<"rpc", "stop", "">> /\ a \notin Starts /\ a \notin Creates
    <3>1. <<"stop", "">> \in Asked
      BY DEF Asked
    <3>2. <<"stop", "">>[1] = "stop" /\ <<"stop", "">>[2] = ""
      OBVIOUS
    <3>3. <<"rpc", "stop", "">> \in Requests
      BY <3>1, <3>2 DEF Requests
    <3> QED
      BY <3>3, NoStarts, StepsAre
  <2> QED
    BY <1>7, <2>1, <2>2, PlainGrows, KeptPlain
<1>8. ASSUME kind = "mainnet", NEW a \in ClientSteps, A = <<a>>, s[1] \in {"listwallets", "listwalletdir"}
      PROVE  Kept(kind, s, t, A \o t)
  <2>1. a \in StepsOf("mainnet") /\ Follows(a, t)
    BY StepsAre, ClientPlain
  <2>2. Grows("mainnet", t, <<a>> \o t)
    BY <1>8, <2>1, GrowsCons
  <2> QED
    BY <1>8, <2>2, KeptPlain
<1>9. kind = "regtest" => s[1] \in {"start", "run", "data dir", "start?", "stop?", "up?", "stop", "sleep", "wait", "rpc", "call"}
  BY RegtestWords, StepsAre
<1>10. kind = "mainnet" => s[1] \in {"connect", "chain", "version", "listwallets", "listwalletdir", "call"}
  BY ClientWords, StepsAre
<1>11. ASSUME NEW x \in Asked, s = <<"rpc", x[1], x[2]>>,
              A = <<<<"call", x[1], x[2]>>>> \/ A = Append(Daemons!start_daemon, <<"call", x[1], x[2]>>)
       PROVE  Kept(kind, s, t, A \o t)
  <2>1. s[1] = "rpc"
    BY <1>11
  <2> QED
    BY <1>10, <1>11, <2>1, AskKept
<1>12. /\ <<"start">>[1] = "start" /\ <<"stop">>[1] = "stop" /\ <<"start?">>[1] = "start?" /\ <<"stop?">>[1] = "stop?"
       /\ <<"listwallets">>[1] = "listwallets" /\ <<"listwalletdir">>[1] = "listwalletdir"
  OBVIOUS
<1>13. /\ s = <<"start">> \/ s = <<"stop">> \/ s = <<"start?">> \/ s = <<"stop?">> => kind = "regtest"
       /\ s = <<"listwallets">> \/ s = <<"listwalletdir">> => kind = "mainnet"
  BY <1>9, <1>10, <1>12
<1>14. <<"listwalletdir">> \in ClientSteps /\ <<"call", "loadwallet", "own">> \in ClientSteps /\ <<"call", "createwallet", "own">> \in ClientSteps
  BY DEF ClientSteps, OwnSteps, LoadsOf
<1>15. s = <<"listwallets">> \/ s = <<"listwalletdir">> => s[1] \in {"listwallets", "listwalletdir"}
  BY <1>12
<1>16. ASSUME (s = <<"listwallets">> /\ A = <<<<"listwalletdir">>>>) \/
              (s = <<"listwalletdir">> /\ A \in {<<<<"call", "loadwallet", "own">>>>, <<<<"call", "createwallet", "own">>>>})
       PROVE  Kept(kind, s, t, A \o t)
  <2>1. kind = "mainnet" /\ s[1] \in {"listwallets", "listwalletdir"}
    BY <1>13, <1>15, <1>16
  <2>2. \E a \in ClientSteps : A = <<a>>
    BY <1>14, <1>16
  <2> QED
    BY <1>8, <2>1, <2>2
<1>17. \/ A = <<>> /\ s[1] # "rpc"
       \/ s = <<"start">> /\ A = <<<<"wait", "stopped">>, <<"run">>, <<"wait", "ready">>>>
       \/ s = <<"stop">> /\ A = <<<<"wait", "stopped">>, <<"sleep">>>>
       \/ s = <<"start?">> /\ A = Daemons!start_daemon
       \/ s = <<"stop?">> /\ A = <<<<"rpc", "stop", "">>>>
       \/ \E x \in Asked : /\ s = <<"rpc", x[1], x[2]>>
                           /\ \/ A = <<<<"call", x[1], x[2]>>>>
                              \/ A = Append(Daemons!start_daemon, <<"call", x[1], x[2]>>)
       \/ (s = <<"listwallets">> /\ A = <<<<"listwalletdir">>>>) \/
          (s = <<"listwalletdir">> /\ A \in {<<<<"call", "loadwallet", "own">>>>, <<<<"call", "createwallet", "own">>>>})
  BY Zenon DEF Becomes
<1>18. CASE s = <<"start">> /\ A = <<<<"wait", "stopped">>, <<"run">>, <<"wait", "ready">>>>
  BY <1>4, <1>13, <1>18
<1>19. CASE s = <<"stop">> /\ A = <<<<"wait", "stopped">>, <<"sleep">>>>
  BY <1>5, <1>13, <1>19
<1>20. CASE s = <<"start?">> /\ A = Daemons!start_daemon
  BY <1>6, <1>13, <1>20
<1>21. CASE s = <<"stop?">> /\ A = <<<<"rpc", "stop", "">>>>
  BY <1>7, <1>13, <1>21
<1>22. CASE \E x \in Asked : /\ s = <<"rpc", x[1], x[2]>>
                             /\ \/ A = <<<<"call", x[1], x[2]>>>>
                                \/ A = Append(Daemons!start_daemon, <<"call", x[1], x[2]>>)
  BY <1>11, <1>22
<1> QED
  BY <1>3, <1>16, <1>17, <1>18, <1>19, <1>20, <1>21, <1>22, Zenon

(* What a step makes of the daemon and of its directory.                   *)
Deleted == [made |-> FALSE, wallets |-> {}, height |-> 0, locked |-> FALSE]

Stopped == [daemon EXCEPT !.state = "stopping"]

Effect(s) ==
    \/ /\ s[1] \notin {"run", "data dir", "call"} /\ disk' = disk
       /\ daemon' = daemon \/ (s[1] = "stop" /\ daemon' = Stopped)
    \/ /\ s[1] = "run" /\ daemon' = [state |-> "launching", loaded |-> {}]
       /\ disk' = [disk EXCEPT !.locked = TRUE, !.made = TRUE]
    \/ s[1] = "data dir" /\ daemon' = daemon /\ disk' \in {disk, Deleted}
    \/ \E u \in Owners(chain.net) :
         /\ s \in LoadsOf(u) /\ daemon' = [daemon EXCEPT !.loaded = @ \union {u}]
         /\ \/ disk' = disk /\ u \in disk.wallets
            \/ s = <<"call", "createwallet", u>> /\ disk' = [disk EXCEPT !.wallets = @ \union {u}, !.made = TRUE]
    \/ \E x \in Asked :
         /\ s = <<"call", x[1], x[2]>>
         /\ \/ x[1] = "stop" /\ daemon' = Stopped /\ disk' = disk
            \/ x[1] # "stop" /\ daemon' = daemon /\ disk' = [disk EXCEPT !.height = @ + Daemons!Blocks(x[1])]

Stepped(p) ==
    /\ pc[p] = "runs" /\ todo[p] # <<>> /\ UNCHANGED <<cmd, chain, faults, clean>>
    /\ \/ pc' = [pc EXCEPT ![p] = "failed"] /\ todo' = todo /\ daemon' = daemon /\ disk' \in {disk, Deleted}
       \/ /\ pc' = pc /\ Effect(Head(todo[p]))
          /\ \E A : Becomes(Head(todo[p]), A) /\ todo' = [todo EXCEPT ![p] = A \o Tail(@)]

LEMMA HeadIs ==
    ASSUME ShapeInv, NEW p \in Procs, todo[p] # <<>>
    PROVE  /\ Head(todo[p])[1] \in {"start", "run", "data dir", "start?", "stop?", "up?", "stop", "sleep", "wait", "rpc"}
                => chain.net = "regtest"
           /\ Head(todo[p])[1] \in {"connect", "chain", "version", "listwallets", "listwalletdir"} => chain.net = "mainnet"
           /\ Head(todo[p])[1] \in {"start", "run", "data dir", "start?", "stop?", "up?", "stop", "sleep",
                                    "connect", "chain", "version", "listwallets", "listwalletdir"}
                => Head(todo[p]) = <<Head(todo[p])[1]>>
           /\ Head(todo[p])[1] = "wait" => Head(todo[p]) = <<"wait", "ready">> \/ Head(todo[p]) = <<"wait", "stopped">>
           /\ Head(todo[p])[1] = "rpc" => \E x \in Asked : Head(todo[p]) = <<"rpc", x[1], x[2]>>
           /\ Head(todo[p])[1] = "call" =>
                \/ \E u \in Owners(chain.net) : Head(todo[p]) \in LoadsOf(u)
                \/ chain.net = "regtest" /\ \E x \in Asked : Head(todo[p]) = <<"call", x[1], x[2]>>
<1>1. PICK s : s = Head(todo[p])
  OBVIOUS
<1>2. s \in StepsOf(chain.net) /\ chain.net \in {"mainnet", "regtest"}
  BY <1>1, AtHead DEF ShapeInv
<1>3. CASE chain.net = "mainnet"
  <2>1. s \in ClientSteps
    BY <1>2, <1>3, StepsAre
  <2>2. "own" \in Owners(chain.net)
    BY <1>3 DEF Owners
  <2> QED
    BY <1>1, <1>3, <2>1, <2>2, ClientWords
<1>4. CASE chain.net = "regtest"
  <2>1. s \in RegtestSteps
    BY <1>2, <1>4, StepsAre
  <2>2. Owners(chain.net) = {"miner", "bob", "alice"}
    BY <1>4, UsersAre DEF Owners
  <2>3. \A y \in Loads \union Creates : \E u \in {"miner", "bob", "alice"} : y = <<"call", "loadwallet", u>> \/ y = <<"call", "createwallet", u>>
    BY Zenon DEF Loads, Creates
  <2>4. \A y \in Loads \union Creates : \E u \in Owners(chain.net) : y \in LoadsOf(u)
    BY <2>2, <2>3 DEF LoadsOf
  <2> QED
    BY <1>1, <1>4, <2>1, <2>4, RegtestWords
<1> QED
  BY <1>2, <1>3, <1>4

LEMMA MadeBecomes ==
    ASSUME NEW s, s[1] \notin {"rpc", "listwalletdir", "listwallets", "chain"}
    PROVE  Becomes(s, <<>>)
<1>1. <<"listwallets">>[1] = "listwallets" /\ <<"chain">>[1] = "chain"
  OBVIOUS
<1>2. s # <<"listwallets">> /\ s # <<"chain">> /\ s[1] \notin {"rpc", "listwalletdir"}
  BY <1>1
<1> QED
  BY <1>2, Zenon DEF Becomes

LEMMA Quietly ==
    ASSUME ShapeInv, NEW p \in Procs, pc[p] = "runs", todo[p] # <<>>, UNCHANGED <<cmd, chain, faults, clean>>,
           Head(todo[p])[1] \notin {"run", "data dir", "call"}, disk' = disk, daemon' = daemon,
           NEW A, Daemons!Then(p, A), Becomes(Head(todo[p]), A)
    PROVE  Stepped(p)
<1>1. Effect(Head(todo[p]))
  BY DEF Effect
<1> QED
  BY <1>1 DEF Stepped, Daemons!Then

LEMMA FailsStepped ==
    ASSUME NEW p \in Procs, pc[p] = "runs", todo[p] # <<>>, UNCHANGED <<cmd, chain, faults, clean>>,
           disk' \in {disk, Deleted}, daemon' = daemon, Daemons!Fail(p)
    PROVE  Stepped(p)
BY DEF Stepped, Daemons!Fail

LEMMA StartStepped == ASSUME ShapeInv, NEW p \in Procs, Daemons!start(p) PROVE Stepped(p)
<1>1. /\ pc[p] = "runs" /\ todo[p] # <<>> /\ Head(todo[p])[1] = "start" /\ UNCHANGED <<cmd, chain, faults, clean>>
      /\ disk' = disk /\ daemon' = daemon
  BY DEF Daemons!start, Daemons!Is, Daemons!stable
<1>2. \E A : Daemons!Then(p, A) /\ (A = <<>> \/ A = <<<<"wait", "stopped">>, <<"run">>, <<"wait", "ready">>>>)
  BY DEF Daemons!start
<1>3. Head(todo[p]) = <<"start">>
  BY <1>1, HeadIs
<1>4. \A A : A = <<>> \/ A = <<<<"wait", "stopped">>, <<"run">>, <<"wait", "ready">>>> => Becomes(Head(todo[p]), A)
  <2>1. Becomes(Head(todo[p]), <<>>)
    BY <1>1, MadeBecomes
  <2>2. Becomes(Head(todo[p]), <<<<"wait", "stopped">>, <<"run">>, <<"wait", "ready">>>>)
    BY <1>3, Zenon DEF Becomes
  <2> QED
    BY <2>1, <2>2
<1> QED
  BY <1>1, <1>2, <1>4, Quietly

LEMMA RunStepped == ASSUME ShapeInv, NEW p \in Procs, Daemons!run_cmd(p) PROVE Stepped(p)
<1>1. pc[p] = "runs" /\ todo[p] # <<>> /\ Head(todo[p])[1] = "run" /\ UNCHANGED <<cmd, chain, faults, clean>>
  BY DEF Daemons!run_cmd, Daemons!Is, Daemons!stable
<1>2. CASE disk.locked
  BY <1>1, <1>2, FailsStepped DEF Daemons!run_cmd
<1>3. CASE ~disk.locked
  <2>1. /\ daemon' = [state |-> "launching", loaded |-> {}] /\ disk' = [disk EXCEPT !.locked = TRUE, !.made = TRUE]
        /\ Daemons!Then(p, <<>>)
    BY <1>3 DEF Daemons!run_cmd
  <2>2. Effect(Head(todo[p]))
    BY <1>1, <2>1 DEF Effect
  <2>3. Becomes(Head(todo[p]), <<>>)
    BY <1>1, MadeBecomes
  <2> QED
    BY <1>1, <2>1, <2>2, <2>3 DEF Stepped, Daemons!Then
<1> QED
  BY <1>2, <1>3

LEMMA WaitStepped == ASSUME ShapeInv, NEW p \in Procs, Daemons!wait_for_state(p) PROVE Stepped(p)
<1>1. /\ pc[p] = "runs" /\ todo[p] # <<>> /\ Head(todo[p])[1] = "wait" /\ UNCHANGED <<cmd, chain, faults, clean>>
      /\ disk' = disk /\ daemon' = daemon
  BY DEF Daemons!wait_for_state, Daemons!Is, Daemons!stable
<1>2. Daemons!Then(p, <<>>) \/ Daemons!Fail(p)
  BY DEF Daemons!wait_for_state
<1>3. Becomes(Head(todo[p]), <<>>)
  BY <1>1, MadeBecomes
<1> QED
  BY <1>1, <1>2, <1>3, Quietly, FailsStepped

LEMMA StopStepped == ASSUME ShapeInv, NEW p \in Procs, Daemons!stop(p) PROVE Stepped(p)
<1>1. /\ pc[p] = "runs" /\ todo[p] # <<>> /\ Head(todo[p])[1] = "stop" /\ UNCHANGED <<cmd, chain, faults, clean>>
      /\ disk' = disk
  BY DEF Daemons!stop, Daemons!Is, Daemons!stable
<1>2. Head(todo[p]) = <<"stop">>
  BY <1>1, HeadIs
<1>3. \/ daemon' = Stopped /\ Daemons!Then(p, <<<<"wait", "stopped">>, <<"sleep">>>>)
      \/ daemon' = daemon /\ Daemons!Then(p, <<>>)
  BY DEF Daemons!stop, Stopped
<1>4. Effect(Head(todo[p]))
  BY <1>1, <1>3 DEF Effect
<1>5. Becomes(Head(todo[p]), <<>>) /\ Becomes(Head(todo[p]), <<<<"wait", "stopped">>, <<"sleep">>>>)
  <2>1. Becomes(Head(todo[p]), <<>>)
    BY <1>1, MadeBecomes
  <2>2. Becomes(Head(todo[p]), <<<<"wait", "stopped">>, <<"sleep">>>>)
    BY <1>2, Zenon DEF Becomes
  <2> QED
    BY <2>1, <2>2
<1> QED
  BY <1>1, <1>3, <1>4, <1>5 DEF Stepped, Daemons!Then

LEMMA SleepStepped == ASSUME ShapeInv, NEW p \in Procs, Daemons!sleep(p) PROVE Stepped(p)
<1>1. /\ pc[p] = "runs" /\ todo[p] # <<>> /\ Head(todo[p])[1] = "sleep" /\ UNCHANGED <<cmd, chain, faults, clean>>
      /\ disk' = disk /\ daemon' = daemon /\ Daemons!Then(p, <<>>)
  BY DEF Daemons!sleep, Daemons!Is, Daemons!stable
<1>2. Becomes(Head(todo[p]), <<>>)
  BY <1>1, MadeBecomes
<1> QED
  BY <1>1, <1>2, Quietly

LEMMA DecideStepped == ASSUME ShapeInv, NEW p \in Procs, Daemons!Decide(p) PROVE Stepped(p)
<1>1. UNCHANGED <<cmd, chain, faults, clean>> /\ disk' = disk /\ daemon' = daemon
  BY DEF Daemons!Decide, Daemons!stable
<1>2. CASE Daemons!Is(p, "start?") /\ Daemons!Then(p, IF Daemons!state = "stopped" THEN Daemons!start_daemon ELSE <<>>)
  <2>1. pc[p] = "runs" /\ todo[p] # <<>> /\ Head(todo[p])[1] = "start?"
    BY <1>2 DEF Daemons!Is
  <2>2. Head(todo[p]) = <<"start?">>
    BY <2>1, HeadIs
  <2>3. \A A : A = <<>> \/ A = Daemons!start_daemon => Becomes(Head(todo[p]), A)
    <3>1. Becomes(Head(todo[p]), <<>>)
      BY <2>1, MadeBecomes
    <3>2. Becomes(Head(todo[p]), Daemons!start_daemon)
      BY <2>2, Zenon DEF Becomes
    <3> QED
      BY <3>1, <3>2
  <2>4. \E A : Daemons!Then(p, A) /\ (A = <<>> \/ A = Daemons!start_daemon)
    BY <1>2
  <2> QED
    BY <1>1, <2>1, <2>3, <2>4, Quietly
<1>3. CASE Daemons!Is(p, "stop?") /\ Daemons!Then(p, IF Daemons!state # "stopped" THEN <<<<"rpc", "stop", "">>>> ELSE <<>>)
  <2>1. pc[p] = "runs" /\ todo[p] # <<>> /\ Head(todo[p])[1] = "stop?"
    BY <1>3 DEF Daemons!Is
  <2>2. Head(todo[p]) = <<"stop?">>
    BY <2>1, HeadIs
  <2>3. \A A : A = <<>> \/ A = <<<<"rpc", "stop", "">>>> => Becomes(Head(todo[p]), A)
    <3>1. Becomes(Head(todo[p]), <<>>)
      BY <2>1, MadeBecomes
    <3>2. Becomes(Head(todo[p]), <<<<"rpc", "stop", "">>>>)
      BY <2>2, Zenon DEF Becomes
    <3> QED
      BY <3>1, <3>2
  <2>4. \E A : Daemons!Then(p, A) /\ (A = <<>> \/ A = <<<<"rpc", "stop", "">>>>)
    BY <1>3
  <2> QED
    BY <1>1, <2>1, <2>3, <2>4, Quietly
<1>4. CASE Daemons!Is(p, "up?") /\ (IF Daemons!state = "stopped" THEN Daemons!Fail(p) ELSE Daemons!Then(p, <<>>))
  <2>1. pc[p] = "runs" /\ todo[p] # <<>> /\ Head(todo[p])[1] = "up?"
    BY <1>4 DEF Daemons!Is
  <2>2. Becomes(Head(todo[p]), <<>>)
    BY <2>1, MadeBecomes
  <2>3. Daemons!Fail(p) \/ Daemons!Then(p, <<>>)
    BY <1>4
  <2> QED
    BY <1>1, <2>1, <2>2, <2>3, Quietly, FailsStepped
<1>5. CASE /\ Daemons!Is(p, "rpc")
           /\ LET call == <<"call", Daemons!Arg(p, 2), Daemons!Arg(p, 3)>> IN
              Daemons!Then(p, IF Daemons!state = "stopped" THEN Append(Daemons!start_daemon, call) ELSE <<call>>)
  <2>1. pc[p] = "runs" /\ todo[p] # <<>> /\ Head(todo[p])[1] = "rpc"
    BY <1>5 DEF Daemons!Is
  <2>2. PICK x \in Asked : Head(todo[p]) = <<"rpc", x[1], x[2]>>
    BY <2>1, HeadIs
  <2>3. Daemons!Arg(p, 2) = x[1] /\ Daemons!Arg(p, 3) = x[2]
    BY <2>2 DEF Daemons!Arg
  <2>4. \E A : Daemons!Then(p, A) /\ (A = <<<<"call", x[1], x[2]>>>> \/ A = Append(Daemons!start_daemon, <<"call", x[1], x[2]>>))
    BY <1>5, <2>3
  <2>5. \A A : A = <<<<"call", x[1], x[2]>>>> \/ A = Append(Daemons!start_daemon, <<"call", x[1], x[2]>>) => Becomes(Head(todo[p]), A)
    BY <2>2, Zenon DEF Becomes
  <2> QED
    BY <1>1, <2>1, <2>4, <2>5, Quietly
<1> QED
  BY <1>2, <1>3, <1>4, <1>5, Zenon DEF Daemons!Decide

LEMMA DirStepped == ASSUME ShapeInv, NEW p \in Procs, Daemons!create_data_dir(p) PROVE Stepped(p)
<1>1. /\ pc[p] = "runs" /\ todo[p] # <<>> /\ Head(todo[p])[1] = "data dir" /\ UNCHANGED <<cmd, chain, faults, clean>>
      /\ daemon' = daemon
  BY DEF Daemons!create_data_dir, Daemons!Is, Daemons!stable
<1>2. Becomes(Head(todo[p]), <<>>)
  BY <1>1, MadeBecomes
<1>3. disk' \in {disk, Deleted} /\ (Daemons!Fail(p) \/ Daemons!Then(p, <<>>))
  BY DEF Daemons!create_data_dir, Deleted
<1>4. CASE Daemons!Fail(p)
  BY <1>1, <1>3, <1>4, FailsStepped
<1>5. CASE Daemons!Then(p, <<>>)
  <2>1. Effect(Head(todo[p]))
    BY <1>1, <1>3 DEF Effect
  <2> QED
    BY <1>1, <1>2, <1>5, <2>1 DEF Stepped, Daemons!Then
<1> QED
  BY <1>3, <1>4, <1>5

LEMMA AskedWords == \A x \in Asked : x[1] \notin {"loadwallet", "createwallet"}
<1>1. /\ <<"getnewaddress", "miner">>[1] = "getnewaddress" /\ <<"block", "miner">>[1] = "block" /\ <<"send", "miner">>[1] = "send"
      /\ <<"more blocks", "miner">>[1] = "more blocks" /\ <<"listunspent", "bob">>[1] = "listunspent"
      /\ <<"listunspent", "alice">>[1] = "listunspent" /\ <<"stop", "">>[1] = "stop"
  OBVIOUS
<1>2. \A x \in Asked : x[1] \in {"getnewaddress", "block", "send", "more blocks", "listunspent", "stop"}
  BY <1>1, Zenon DEF Asked
<1> QED
  BY <1>2

LEMMA CallStepped == ASSUME ShapeInv, NEW p \in Procs, Daemons!Call(p) PROVE Stepped(p)
<1>1. pc[p] = "runs" /\ todo[p] # <<>> /\ Head(todo[p])[1] = "call" /\ UNCHANGED <<cmd, chain, faults, clean>>
  BY DEF Daemons!Call, Daemons!Is, Daemons!stable
<1>2. Becomes(Head(todo[p]), <<>>)
  BY <1>1, MadeBecomes
<1>3. ASSUME Effect(Head(todo[p])), Daemons!Then(p, <<>>) PROVE Stepped(p)
  BY <1>1, <1>2, <1>3 DEF Stepped, Daemons!Then
<1>4. CASE Daemons!Fail(p) /\ UNCHANGED <<daemon, disk>>
  BY <1>1, <1>4, FailsStepped
<1>5. ASSUME NEW u \in Owners(chain.net), Head(todo[p]) \in LoadsOf(u) PROVE Stepped(p)
  <2>1. \/ Head(todo[p]) = <<"call", "loadwallet", u>> /\ Daemons!Arg(p, 2) = "loadwallet" /\ Daemons!Arg(p, 3) = u
        \/ Head(todo[p]) = <<"call", "createwallet", u>> /\ Daemons!Arg(p, 2) = "createwallet" /\ Daemons!Arg(p, 3) = u
    <3>1. /\ <<"call", "loadwallet", u>>[2] = "loadwallet" /\ <<"call", "loadwallet", u>>[3] = u
          /\ <<"call", "createwallet", u>>[2] = "createwallet" /\ <<"call", "createwallet", u>>[3] = u
      OBVIOUS
    <3>2. Head(todo[p]) = <<"call", "loadwallet", u>> \/ Head(todo[p]) = <<"call", "createwallet", u>>
      BY <1>5, Zenon DEF LoadsOf
    <3> QED
      BY <3>1, <3>2 DEF Daemons!Arg
  <2>2. CASE Head(todo[p]) = <<"call", "loadwallet", u>> /\ Daemons!Arg(p, 2) = "loadwallet" /\ Daemons!Arg(p, 3) = u
    <3>1. \/ Daemons!Fail(p) /\ UNCHANGED <<daemon, disk>>
          \/ /\ daemon' = [daemon EXCEPT !.loaded = @ \union {u}] /\ Daemons!Then(p, <<>>) /\ disk' = disk
             /\ u \in disk.wallets
      BY <2>2 DEF Daemons!Call
    <3>2. CASE /\ daemon' = [daemon EXCEPT !.loaded = @ \union {u}] /\ Daemons!Then(p, <<>>) /\ disk' = disk
               /\ u \in disk.wallets
      <4>1. Effect(Head(todo[p]))
        BY <1>5, <3>2 DEF Effect
      <4> QED
        BY <1>3, <3>2, <4>1
    <3> QED
      BY <1>4, <3>1, <3>2
  <2>3. CASE Head(todo[p]) = <<"call", "createwallet", u>> /\ Daemons!Arg(p, 2) = "createwallet" /\ Daemons!Arg(p, 3) = u
    <3>1. \/ Daemons!Fail(p) /\ UNCHANGED <<daemon, disk>>
          \/ /\ daemon' = [daemon EXCEPT !.loaded = @ \union {u}] /\ Daemons!Then(p, <<>>)
             /\ disk' = [disk EXCEPT !.wallets = @ \union {u}, !.made = TRUE]
      BY <2>3 DEF Daemons!Call
    <3>2. CASE /\ daemon' = [daemon EXCEPT !.loaded = @ \union {u}] /\ Daemons!Then(p, <<>>)
               /\ disk' = [disk EXCEPT !.wallets = @ \union {u}, !.made = TRUE]
      <4>1. Effect(Head(todo[p]))
        BY <1>5, <2>3, <3>2 DEF Effect
      <4> QED
        BY <1>3, <3>2, <4>1
    <3> QED
      BY <1>4, <3>1, <3>2
  <2> QED
    BY <2>1, <2>2, <2>3
<1>6. ASSUME NEW x \in Asked, Head(todo[p]) = <<"call", x[1], x[2]>> PROVE Stepped(p)
  <2>1. Daemons!Arg(p, 2) = x[1] /\ x[1] \notin {"loadwallet", "createwallet"}
    BY <1>6, AskedWords DEF Daemons!Arg
  <2>2. \/ Daemons!Fail(p) /\ UNCHANGED <<daemon, disk>>
        \/ x[1] = "stop" /\ daemon' = Stopped /\ Daemons!Then(p, <<>>) /\ disk' = disk
        \/ /\ x[1] # "stop" /\ disk' = [disk EXCEPT !.height = @ + Daemons!Blocks(x[1])] /\ Daemons!Then(p, <<>>)
           /\ daemon' = daemon
    BY <2>1 DEF Daemons!Call, Stopped
  <2>3. CASE x[1] = "stop" /\ daemon' = Stopped /\ Daemons!Then(p, <<>>) /\ disk' = disk
    <3>1. Effect(Head(todo[p]))
      BY <1>6, <2>3 DEF Effect
    <3> QED
      BY <1>3, <2>3, <3>1
  <2>4. CASE /\ x[1] # "stop" /\ disk' = [disk EXCEPT !.height = @ + Daemons!Blocks(x[1])] /\ Daemons!Then(p, <<>>)
             /\ daemon' = daemon
    <3>1. Effect(Head(todo[p]))
      BY <1>6, <2>4 DEF Effect
    <3> QED
      BY <1>3, <2>4, <3>1
  <2> QED
    BY <1>4, <2>2, <2>3, <2>4
<1> QED
  BY <1>1, <1>5, <1>6, HeadIs

LEMMA ClientStepped == ASSUME ShapeInv, NEW p \in Procs, Daemons!client(p) PROVE Stepped(p)
<1>1. UNCHANGED <<cmd, chain, faults, clean>> /\ disk' = disk
  BY DEF Daemons!client, Daemons!stable
<1>2. PICK c \in {"connect", "chain", "version"} : /\ Daemons!Is(p, c) /\ (Daemons!Then(p, <<>>) \/ Daemons!Fail(p)) /\ daemon' = daemon
                                                   /\ c = "chain" /\ ~Daemons!OwnChain(chain) => Daemons!Fail(p)
  BY DEF Daemons!client
<1>3. pc[p] = "runs" /\ todo[p] # <<>> /\ Head(todo[p])[1] = c
  BY <1>2 DEF Daemons!Is
<1>4. CASE Daemons!Fail(p)
  BY <1>1, <1>2, <1>3, <1>4, FailsStepped
<1>5. CASE ~Daemons!Fail(p)
  <2>1. Becomes(Head(todo[p]), <<>>)
    <3>1. CASE c = "chain"
      <4>1. Head(todo[p])[1] = "chain" /\ Daemons!OwnChain(chain)
        BY <1>2, <1>3, <1>5, <3>1
      <4>2. <<"listwallets">>[1] = "listwallets"
        OBVIOUS
      <4>3. Head(todo[p])[1] \notin {"rpc", "listwalletdir"} /\ Head(todo[p]) # <<"listwallets">>
        BY <4>1, <4>2
      <4> QED
        BY <4>1, <4>3, Zenon DEF Becomes
    <3>2. CASE c # "chain"
      BY <1>3, <3>2, MadeBecomes
    <3> QED
      BY <3>1, <3>2
  <2>2. Daemons!Then(p, <<>>)
    BY <1>2, <1>5
  <2> QED
    BY <1>1, <1>2, <1>3, <2>1, <2>2, Quietly
<1> QED
  BY <1>4, <1>5

LEMMA CheckStepped == ASSUME ShapeInv, NEW p \in Procs, Daemons!check_or_create_daemon_wallet(p) PROVE Stepped(p)
<1>1. UNCHANGED <<cmd, chain, faults, clean>> /\ disk' = disk /\ daemon' = daemon
  BY DEF Daemons!check_or_create_daemon_wallet, Daemons!stable
<1>2. CASE /\ Daemons!Is(p, "listwallets")
           /\ \/ Daemons!Fail(p)
              \/ "own" \in daemon.loaded /\ Daemons!Then(p, <<>>)
              \/ Daemons!Then(p, <<<<"listwalletdir">>>>)
  <2>1. pc[p] = "runs" /\ todo[p] # <<>> /\ Head(todo[p])[1] = "listwallets"
    BY <1>2 DEF Daemons!Is
  <2>2. Head(todo[p]) = <<"listwallets">>
    BY <2>1, HeadIs
  <2>3. "own" \in daemon.loaded => Becomes(Head(todo[p]), <<>>)
    <3>1. <<"chain">>[1] = "chain"
      OBVIOUS
    <3>2. Head(todo[p])[1] \notin {"rpc", "listwalletdir"} /\ Head(todo[p]) # <<"chain">>
      BY <2>1, <3>1
    <3> QED
      BY <3>2, Zenon DEF Becomes
  <2>4. Becomes(Head(todo[p]), <<<<"listwalletdir">>>>)
    BY <2>2, Zenon DEF Becomes
  <2>5. Head(todo[p])[1] \notin {"run", "data dir", "call"}
    BY <2>1
  <2>6. CASE Daemons!Fail(p)
    BY <1>1, <2>1, <2>6, FailsStepped
  <2>7. CASE \E A : Becomes(Head(todo[p]), A) /\ Daemons!Then(p, A)
    BY <1>1, <2>1, <2>5, <2>7, Quietly
  <2> QED
    BY <1>2, <2>3, <2>4, <2>6, <2>7
<1>3. CASE /\ Daemons!Is(p, "listwalletdir")
           /\ \/ Daemons!Fail(p)
              \/ Daemons!Then(p, <<<<"call", "loadwallet", "own">>>>)
              \/ Daemons!Then(p, <<<<"call", "createwallet", "own">>>>)
  <2>1. pc[p] = "runs" /\ todo[p] # <<>> /\ Head(todo[p])[1] = "listwalletdir"
    BY <1>3 DEF Daemons!Is
  <2>2. Head(todo[p]) = <<"listwalletdir">>
    BY <2>1, HeadIs
  <2>3. Becomes(Head(todo[p]), <<<<"call", "loadwallet", "own">>>>) /\ Becomes(Head(todo[p]), <<<<"call", "createwallet", "own">>>>)
    BY <2>2, Zenon DEF Becomes
  <2>5. Head(todo[p])[1] \notin {"run", "data dir", "call"}
    BY <2>1
  <2>6. CASE Daemons!Fail(p)
    BY <1>1, <2>1, <2>6, FailsStepped
  <2>7. CASE \E A : Becomes(Head(todo[p]), A) /\ Daemons!Then(p, A)
    BY <1>1, <2>1, <2>5, <2>7, Quietly
  <2> QED
    BY <1>3, <2>3, <2>6, <2>7
<1>4. \/ /\ Daemons!Is(p, "listwallets")
         /\ (IF daemon.state # "ready" THEN Daemons!Fail(p)
             ELSE Daemons!Then(p, IF "own" \in daemon.loaded THEN <<>> ELSE <<<<"listwalletdir">>>>))
      \/ /\ Daemons!Is(p, "listwalletdir")
         /\ (IF daemon.state # "ready" THEN Daemons!Fail(p)
             ELSE Daemons!Then(p, <<<<"call", IF "own" \in disk.wallets THEN "loadwallet" ELSE "createwallet", "own">>>>))
  BY Zenon DEF Daemons!check_or_create_daemon_wallet
<1>5. (IF "own" \in disk.wallets THEN "loadwallet" ELSE "createwallet") \in {"loadwallet", "createwallet"}
  OBVIOUS
<1> QED
  BY <1>2, <1>3, <1>4, <1>5

LEMMA NextIs ==
    ASSUME ShapeInv, Daemons!Next
    PROVE  (\E p \in Procs : Daemons!Begin(p) \/ Daemons!End(p) \/ Stepped(p)) \/ Daemons!DaemonGoesOn \/ Daemons!Fault
<1>1. CASE \E p \in Procs : Daemons!Begin(p) \/ Daemons!End(p)
  BY <1>1
<1>2. ASSUME NEW p \in Procs,
             \/ Daemons!start(p) \/ Daemons!run_cmd(p) \/ Daemons!wait_for_state(p) \/ Daemons!stop(p) \/ Daemons!sleep(p)
             \/ Daemons!Decide(p) \/ Daemons!create_data_dir(p) \/ Daemons!Call(p) \/ Daemons!client(p)
             \/ Daemons!check_or_create_daemon_wallet(p)
      PROVE  Stepped(p)
  BY <1>2, StartStepped, RunStepped, WaitStepped, StopStepped, SleepStepped, DecideStepped, DirStepped, CallStepped, ClientStepped,
     CheckStepped
<1> QED
  BY <1>1, <1>2 DEF Daemons!Next

(* The steps keep to the shape.                                            *)
LEMMA Advanced ==
    ASSUME ShapeInv, NEW p \in Procs, todo[p] # <<>>, NEW A, Becomes(Head(todo[p]), A),
           todo' = [todo EXCEPT ![p] = A \o Tail(@)]
    PROVE  /\ todo'[p] = A \o Tail(todo[p]) /\ Kept(chain.net, Head(todo[p]), Tail(todo[p]), todo'[p])
           /\ \A q \in Procs : q # p => todo'[q] = todo[q]
           /\ todo' = [q \in Procs |-> todo'[q]]
<1>1. todo = [q \in Procs |-> todo[q]]
  BY DEF ShapeInv
<1>2. /\ todo'[p] = A \o Tail(todo[p]) /\ \A q \in Procs : q # p => todo'[q] = todo[q]
      /\ todo' = [q \in Procs |-> todo'[q]]
  BY <1>1
<1>3. Kept(chain.net, Head(todo[p]), Tail(todo[p]), A \o Tail(todo[p]))
  <2>1. PICK s : s = Head(todo[p])
    OBVIOUS
  <2>2. PICK t : t = Tail(todo[p])
    OBVIOUS
  <2>3. s \in StepsOf(chain.net) /\ Fit(chain.net, t) /\ Follows(s, t) /\ Becomes(s, A) /\ chain.net \in {"mainnet", "regtest"}
    BY <2>1, <2>2, AtHead DEF ShapeInv
  <2>4. PICK kind \in {"mainnet", "regtest"} : kind = chain.net
    BY <2>3
  <2>5. Kept(kind, s, t, A \o t)
    BY <2>3, <2>4, StepsKeep
  <2> QED
    BY <2>1, <2>2, <2>4, <2>5
<1> QED
  BY <1>2, <1>3

LEMMA BlocksAre == \A x : Daemons!Blocks(x) \in {0, 1, 4} /\ Daemons!Blocks("block") = 1 /\ Daemons!Blocks("more blocks") = 4
BY DEF Daemons!Blocks

LEMMA EffectShape ==
    ASSUME ShapeInv, NEW s, Effect(s), chain' = chain
    PROVE  /\ daemon' \in [state : {"down", "launching", "warmup", "ready", "stopping"}, loaded : SUBSET Owners(chain.net)]
           /\ disk' \in [made : BOOLEAN, wallets : SUBSET Owners(chain.net), height : Nat, locked : BOOLEAN]
           /\ disk'.locked => daemon'.state # "down"
           /\ ~disk'.made => disk'.wallets = {}
<1>1. /\ daemon \in [state : {"down", "launching", "warmup", "ready", "stopping"}, loaded : SUBSET Owners(chain.net)]
      /\ disk \in [made : BOOLEAN, wallets : SUBSET Owners(chain.net), height : Nat, locked : BOOLEAN]
      /\ disk.locked => daemon.state # "down"
      /\ ~disk.made => disk.wallets = {}
  BY DEF ShapeInv
<1>2. /\ Stopped \in [state : {"down", "launching", "warmup", "ready", "stopping"}, loaded : SUBSET Owners(chain.net)]
      /\ Stopped.state = "stopping"
  BY <1>1 DEF Stopped
<1>3. CASE /\ s[1] \notin {"run", "data dir", "call"} /\ disk' = disk
           /\ daemon' = daemon \/ (s[1] = "stop" /\ daemon' = Stopped)
  BY <1>1, <1>2, <1>3
<1>4. CASE /\ s[1] = "run" /\ daemon' = [state |-> "launching", loaded |-> {}]
           /\ disk' = [disk EXCEPT !.locked = TRUE, !.made = TRUE]
  BY <1>1, <1>4
<1>5. CASE s[1] = "data dir" /\ daemon' = daemon /\ disk' \in {disk, Deleted}
  <2>1. /\ Deleted \in [made : BOOLEAN, wallets : SUBSET Owners(chain.net), height : Nat, locked : BOOLEAN]
        /\ Deleted.locked = FALSE /\ Deleted.wallets = {}
    BY DEF Deleted
  <2> QED
    BY <1>1, <1>5, <2>1
<1>6. ASSUME NEW u \in Owners(chain.net), daemon' = [daemon EXCEPT !.loaded = @ \union {u}],
             disk' = disk \/ disk' = [disk EXCEPT !.wallets = @ \union {u}, !.made = TRUE]
      PROVE  /\ daemon' \in [state : {"down", "launching", "warmup", "ready", "stopping"}, loaded : SUBSET Owners(chain.net)]
             /\ disk' \in [made : BOOLEAN, wallets : SUBSET Owners(chain.net), height : Nat, locked : BOOLEAN]
             /\ disk'.locked => daemon'.state # "down"
             /\ ~disk'.made => disk'.wallets = {}
  <2>1. /\ daemon' \in [state : {"down", "launching", "warmup", "ready", "stopping"}, loaded : SUBSET Owners(chain.net)]
        /\ daemon'.state = daemon.state
    BY <1>1, <1>6
  <2>2. CASE disk' = disk
    BY <1>1, <2>1, <2>2
  <2>3. CASE disk' = [disk EXCEPT !.wallets = @ \union {u}, !.made = TRUE]
    <3>1. /\ disk' \in [made : BOOLEAN, wallets : SUBSET Owners(chain.net), height : Nat, locked : BOOLEAN]
          /\ disk'.made = TRUE /\ disk'.locked = disk.locked
      BY <1>1, <2>3
    <3> QED
      BY <1>1, <2>1, <3>1
  <2> QED
    BY <1>6, <2>2, <2>3
<1>7. ASSUME NEW x, disk' = [disk EXCEPT !.height = @ + Daemons!Blocks(x)], daemon' = daemon
      PROVE  /\ daemon' \in [state : {"down", "launching", "warmup", "ready", "stopping"}, loaded : SUBSET Owners(chain.net)]
             /\ disk' \in [made : BOOLEAN, wallets : SUBSET Owners(chain.net), height : Nat, locked : BOOLEAN]
             /\ disk'.locked => daemon'.state # "down"
             /\ ~disk'.made => disk'.wallets = {}
  <2>1. PICK h \in Nat : h = disk.height + Daemons!Blocks(x)
    <3>1. disk.height \in Nat
      BY <1>1
    <3>2. \A k \in Nat, b \in {0, 1, 4} : k + b \in Nat
      OBVIOUS
    <3> QED
      BY <3>1, <3>2, BlocksAre
  <2>2. disk' = [disk EXCEPT !.height = h]
    BY <1>7, <2>1
  <2> QED
    BY <1>1, <1>7, <2>2
<1>8. CASE \E u \in Owners(chain.net) :
             /\ s \in LoadsOf(u) /\ daemon' = [daemon EXCEPT !.loaded = @ \union {u}]
             /\ \/ disk' = disk /\ u \in disk.wallets
                \/ s = <<"call", "createwallet", u>> /\ disk' = [disk EXCEPT !.wallets = @ \union {u}, !.made = TRUE]
  BY <1>6, <1>8
<1>9. CASE \E x \in Asked :
             /\ s = <<"call", x[1], x[2]>>
             /\ \/ x[1] = "stop" /\ daemon' = Stopped /\ disk' = disk
                \/ x[1] # "stop" /\ daemon' = daemon /\ disk' = [disk EXCEPT !.height = @ + Daemons!Blocks(x[1])]
  BY <1>1, <1>2, <1>7, <1>9
<1> QED
  BY <1>3, <1>4, <1>5, <1>8, <1>9, Zenon DEF Effect

LEMMA SteppedShape == ASSUME ShapeInv, NEW p \in Procs, Stepped(p) PROVE ShapeInv'
<1>1. pc[p] = "runs" /\ todo[p] # <<>> /\ UNCHANGED <<cmd, chain, faults, clean>>
  BY DEF Stepped
<1>2. CASE pc' = [pc EXCEPT ![p] = "failed"] /\ todo' = todo /\ daemon' = daemon /\ disk' \in {disk, Deleted}
  <2>1. pc' \in [Procs -> {"idle", "runs", "done", "failed", "killed"}]
    BY <1>2 DEF ShapeInv
  <2>2. /\ Deleted \in [made : BOOLEAN, wallets : SUBSET Owners(chain.net), height : Nat, locked : BOOLEAN]
        /\ Deleted.locked = FALSE /\ Deleted.wallets = {}
    BY DEF Deleted
  <2> QED
    BY <1>1, <1>2, <2>1, <2>2 DEF ShapeInv
<1>3. CASE /\ pc' = pc /\ Effect(Head(todo[p]))
           /\ \E A : Becomes(Head(todo[p]), A) /\ todo' = [todo EXCEPT ![p] = A \o Tail(@)]
  <2>1. /\ Fit(chain.net, todo'[p]) /\ (\A q \in Procs : q # p => todo'[q] = todo[q])
        /\ todo' = [q \in Procs |-> todo'[q]]
    BY <1>1, <1>3, Advanced DEF Kept, Grows
  <2>2. /\ daemon' \in [state : {"down", "launching", "warmup", "ready", "stopping"}, loaded : SUBSET Owners(chain.net)]
        /\ disk' \in [made : BOOLEAN, wallets : SUBSET Owners(chain.net), height : Nat, locked : BOOLEAN]
        /\ disk'.locked => daemon'.state # "down"
        /\ ~disk'.made => disk'.wallets = {}
    BY <1>1, <1>3, EffectShape
  <2> QED
    BY <1>1, <1>3, <2>1, <2>2 DEF ShapeInv
<1> QED
  BY <1>2, <1>3 DEF Stepped

LEMMA BeginShape ==
    ASSUME ShapeInv, Daemons!DaemonsAssumption, NEW p \in Procs, Daemons!Begin(p)
    PROVE  ShapeInv'
<1>1. PICK name \in Commands : /\ name \in Daemons!ClientNames <=> chain.net = "mainnet"
                               /\ cmd' = [cmd EXCEPT ![p] = name] /\ todo' = [todo EXCEPT ![p] = Daemons!Steps(name)]
  BY DEF Daemons!Begin
<1>2. name \in Daemons!CommandNames
  BY DEF Daemons!DaemonsAssumption
<1>3. Fit(chain.net, Daemons!Steps(name))
  <2>1. chain.net = IF name \in Daemons!ClientNames THEN "mainnet" ELSE "regtest"
    BY <1>1 DEF ShapeInv
  <2>2. Fit(IF name \in Daemons!ClientNames THEN "mainnet" ELSE "regtest", Daemons!Steps(name))
    BY <1>2, CommandFits
  <2> QED
    BY <2>1, <2>2
<1>4. pc[p] = "idle" /\ UNCHANGED <<daemon, disk, chain, faults>> /\ pc' = [pc EXCEPT ![p] = "runs"]
  BY DEF Daemons!Begin
<1>5. pc' \in [Procs -> {"idle", "runs", "done", "failed", "killed"}] /\ cmd' \in [Procs -> Daemons!CommandNames \union {""}]
  BY <1>1, <1>2, <1>4 DEF ShapeInv
<1>6. todo' = [q \in Procs |-> todo'[q]] /\ \A q \in Procs : Fit(chain.net, todo'[q])
  <2>1. todo = [q \in Procs |-> todo[q]] /\ \A q \in Procs : Fit(chain.net, todo[q])
    BY DEF ShapeInv
  <2> QED
    BY <1>1, <1>3, <2>1
<1>7. clean' \subseteq Procs
  BY DEF Daemons!Begin, Daemons!Running, ShapeInv
<1> QED
  BY <1>4, <1>5, <1>6, <1>7 DEF ShapeInv

LEMMA EndShape == ASSUME ShapeInv, NEW p \in Procs, Daemons!End(p) PROVE ShapeInv'
BY DEF ShapeInv, Daemons!End

LEMMA GoesOnShape == ASSUME ShapeInv, Daemons!DaemonGoesOn PROVE ShapeInv'
<1>1. UNCHANGED <<cmd, todo, pc, chain, faults, clean>>
  BY DEF Daemons!DaemonGoesOn
<1>2. \/ daemon' = [daemon EXCEPT !.state = "warmup"] /\ disk' = disk
      \/ daemon' = [daemon EXCEPT !.state = "ready"] /\ disk' = disk
      \/ daemon' = [state |-> "down", loaded |-> {}] /\ disk' = [disk EXCEPT !.locked = FALSE]
  BY DEF Daemons!DaemonGoesOn
<1>3. CASE daemon' = [daemon EXCEPT !.state = "warmup"] /\ disk' = disk
  BY <1>1, <1>3 DEF ShapeInv
<1>4. CASE daemon' = [daemon EXCEPT !.state = "ready"] /\ disk' = disk
  BY <1>1, <1>4 DEF ShapeInv
<1>5. CASE daemon' = [state |-> "down", loaded |-> {}] /\ disk' = [disk EXCEPT !.locked = FALSE]
  BY <1>1, <1>5 DEF ShapeInv
<1> QED
  BY <1>2, <1>3, <1>4, <1>5

LEMMA FaultShape == ASSUME ShapeInv, Daemons!Fault PROVE ShapeInv'
<1>1. UNCHANGED <<cmd, todo, chain>> /\ clean' = {} /\ faults' = faults + 1
  BY DEF Daemons!Fault
<1>2. faults' \in Nat
  <2>1. faults \in Nat
    BY DEF ShapeInv
  <2> QED
    BY <1>1, <2>1
<1>3. \/ \E p \in Procs : pc' = [pc EXCEPT ![p] = "killed"] /\ UNCHANGED <<daemon, disk>>
      \/ daemon' = [state |-> "down", loaded |-> {}] /\ disk' = [disk EXCEPT !.locked = FALSE] /\ pc' = pc
  BY DEF Daemons!Fault, Daemons!Running
<1>4. CASE \E p \in Procs : pc' = [pc EXCEPT ![p] = "killed"] /\ UNCHANGED <<daemon, disk>>
  BY <1>1, <1>2, <1>4 DEF ShapeInv
<1>5. CASE daemon' = [state |-> "down", loaded |-> {}] /\ disk' = [disk EXCEPT !.locked = FALSE] /\ pc' = pc
  BY <1>1, <1>2, <1>5 DEF ShapeInv
<1> QED
  BY <1>3, <1>4, <1>5

LEMMA InitShape == ASSUME Daemons!DaemonsAssumption, Daemons!Init PROVE ShapeInv
<1>1. chain.net \in {"mainnet", "regtest"}
  BY DEF Daemons!Init, Daemons!DaemonsAssumption
<1>2. PICK old \in BOOLEAN :
        /\ daemon = [state |-> IF chain.net = "mainnet" THEN "ready" ELSE "down", loaded |-> {}]
        /\ disk = [made |-> old \/ chain.net = "mainnet", height |-> IF old THEN 5 ELSE 0, locked |-> chain.net = "mainnet",
                   wallets |-> IF ~old THEN {} ELSE IF chain.net = "mainnet" THEN {"own"} ELSE Daemons!Users]
  BY DEF Daemons!Init
<1>3. /\ disk.made = (old \/ chain.net = "mainnet") /\ disk.locked = (chain.net = "mainnet")
      /\ disk.wallets = (IF ~old THEN {} ELSE IF chain.net = "mainnet" THEN {"own"} ELSE Daemons!Users)
      /\ disk.height = (IF old THEN 5 ELSE 0)
  BY <1>2
<1>4. disk.height \in Nat
  BY <1>3
<1>5. disk \in [made : BOOLEAN, wallets : SUBSET Owners(chain.net), height : Nat, locked : BOOLEAN]
  <2>1. (IF ~old THEN {} ELSE IF chain.net = "mainnet" THEN {"own"} ELSE Daemons!Users) \in SUBSET Owners(chain.net)
    BY DEF Owners
  <2>2. (IF old THEN 5 ELSE 0) \in Nat
    OBVIOUS
  <2>3. (old \/ chain.net = "mainnet") \in BOOLEAN /\ (chain.net = "mainnet") \in BOOLEAN
    OBVIOUS
  <2> QED
    BY <1>2, <2>1, <2>2, <2>3
<1>6. daemon \in [state : {"down", "launching", "warmup", "ready", "stopping"}, loaded : SUBSET Owners(chain.net)]
  BY <1>2
<1>7. (disk.locked => daemon.state # "down") /\ (~disk.made => disk.wallets = {})
  BY <1>1, <1>2, <1>3
<1>8. \A kind : Fit(kind, <<>>)
  BY EmptyFit
<1>9. /\ cmd = [p \in Procs |-> ""] /\ todo = [p \in Procs |-> <<>>] /\ pc = [p \in Procs |-> "idle"]
      /\ faults = 0 /\ clean = {}
  BY DEF Daemons!Init
<1>10. faults \in Nat
  BY <1>9
<1> QED
  BY <1>1, <1>5, <1>6, <1>7, <1>8, <1>9, <1>10 DEF ShapeInv

LEMMA NextShape == ASSUME ShapeInv, Daemons!DaemonsAssumption, [Daemons!Next]_(Daemons!daemonVars) PROVE ShapeInv'
<1>1. CASE UNCHANGED Daemons!daemonVars
  BY <1>1 DEF Daemons!daemonVars, ShapeInv
<1>2. CASE Daemons!Next
  BY <1>2, NextIs, BeginShape, EndShape, SteppedShape, GoesOnShape, FaultShape
<1> QED
  BY <1>1, <1>2

(* A wallet that the daemon has not loaded is still to be loaded by some   *)
(* command, or one has failed or was killed; so it is with the blocks.     *)
Gone(p) == pc[p] \in {"failed", "killed"}

Owes(p, S) == Gone(p) \/ (pc[p] = "runs" /\ Has(todo[p], S))

Serves == chain.net = "regtest" /\ daemon.state \in {"launching", "warmup", "ready"}

LoadInv ==
    Serves => \A u \in Daemons!Users : (u \in daemon.loaded /\ u \in disk.wallets) \/ \E p \in Procs : Owes(p, LoadsOf(u))

Some == disk.height >= 1

Enough == disk.height >= 5

Digging(p) == Gone(p) \/ (pc[p] = "runs" /\ (HasBlocks(todo[p]) \/ (Some /\ Has(todo[p], Digs("more blocks")))))

HeightInv == chain.net = "regtest" => Enough \/ disk.wallets = {} \/ \E p \in Procs : Digging(p)

ClientInv ==
    chain.net = "mainnet" /\ faults = 0 =>
        /\ daemon.state = "ready"
        /\ \A p \in Procs : pc[p] \in {"runs", "done"} =>
              /\ "own" \in daemon.loaded \/ Has(todo[p], OwnSteps)
              /\ Daemons!OwnChain(chain) \/ Has(todo[p], {<<"chain">>})
              /\ pc[p] = "done" => todo[p] = <<>>

(* What has become of the steps of a command that has made one.            *)
LEMMA StepsLeft ==
    ASSUME ShapeInv, NEW p \in Procs, todo[p] # <<>>, NEW A, Becomes(Head(todo[p]), A),
           todo' = [todo EXCEPT ![p] = A \o Tail(@)]
    PROVE  /\ \A W : Has(todo[p], W) => Head(todo[p]) \in W \/ Has(todo'[p], W)
           /\ HasBlocks(todo[p]) =>
                HasBlocks(todo'[p]) \/ (Head(todo[p]) \in Digs("block") /\ Has(todo'[p], Digs("more blocks")))
           /\ Head(todo[p])[1] # "call" =>
                /\ HasBlocks(todo[p]) => HasBlocks(todo'[p])
                /\ Has(todo[p], Digs("more blocks")) => Has(todo'[p], Digs("more blocks"))
                /\ \A u \in Daemons!Users : Has(todo[p], LoadsOf(u)) => Has(todo'[p], LoadsOf(u))
           /\ chain.net = "regtest" =>
                /\ Head(todo[p]) \in Starts => \A u \in Daemons!Users : Has(todo'[p], LoadsOf(u))
                /\ Head(todo[p]) \in Creates => HasBlocks(todo'[p])
<1>1. PICK s : s = Head(todo[p])
  OBVIOUS
<1>2. PICK t : t = Tail(todo[p])
  OBVIOUS
<1>3. /\ s \in StepsOf(chain.net) /\ t \in Seq(StepsOf(chain.net)) /\ todo[p] = <<s>> \o t /\ Follows(s, t)
  BY <1>1, <1>2, AtHead
<1>4. PICK l : l = todo'[p]
  OBVIOUS
<1>5. Kept(chain.net, s, t, l)
  BY <1>1, <1>2, <1>4, Advanced
<1>6. \A W : Has(todo[p], W) <=> s \in W \/ Has(t, W)
  BY <1>3, HasCons
<1>7. HasBlocks(todo[p]) <=> HasBlocks(t) \/ (s \in Digs("block") /\ Has(t, Digs("more blocks")))
  BY <1>3, HasBlocksCons
<1>8. (\A W : Has(t, W) => Has(l, W)) /\ (HasBlocks(t) => HasBlocks(l))
  BY <1>5 DEF Kept, Grows
<1>9. /\ s \in Starts => \A u \in Daemons!Users : Has(l, LoadsOf(u))
      /\ s \in Creates => HasBlocks(l)
  BY <1>3, <1>8 DEF Follows
<1>10. s[1] # "call" =>
         /\ HasBlocks(todo[p]) => HasBlocks(l)
         /\ Has(todo[p], Digs("more blocks")) => Has(l, Digs("more blocks"))
         /\ \A u \in Daemons!Users : Has(todo[p], LoadsOf(u)) => Has(l, LoadsOf(u))
  BY <1>3, <1>5 DEF Kept
<1>11. \A W : Has(todo[p], W) => s \in W \/ Has(l, W)
  BY <1>6, <1>8
<1>12. HasBlocks(todo[p]) => HasBlocks(l) \/ (s \in Digs("block") /\ Has(l, Digs("more blocks")))
  BY <1>7, <1>8
<1> QED
  BY <1>1, <1>4, <1>9, <1>10, <1>11, <1>12

LEMMA LoadWords ==
    /\ \A s, u : s \in LoadsOf(u) => s[1] = "call" /\ s[3] = u /\ s \notin Digs("block") /\ s \notin Digs("more blocks")
    /\ \A x \in Asked : \A u : <<"call", x[1], x[2]>> \notin LoadsOf(u)
<1>1. \A y, z : <<"call", y, z>>[1] = "call" /\ <<"call", y, z>>[2] = y /\ <<"call", y, z>>[3] = z /\ <<"rpc", y, z>>[1] = "rpc"
  OBVIOUS
<1>2. \A s, u : s \in LoadsOf(u) => s = <<"call", "loadwallet", u>> \/ s = <<"call", "createwallet", u>>
  BY Zenon DEF LoadsOf
<1>3. \A s, u : s \in LoadsOf(u) => s[1] = "call" /\ s[3] = u /\ s[2] \in {"loadwallet", "createwallet"}
  BY <1>1, <1>2
<1>4. \A s, x : s \in Digs(x) => s[1] = "rpc" \/ s[2] = x
  BY <1>1, DigWords
<1>5. \A s, u : s \in LoadsOf(u) => s \notin Digs("block") /\ s \notin Digs("more blocks")
  BY <1>3, <1>4
<1>6. \A x \in Asked : \A u : <<"call", x[1], x[2]>> \notin LoadsOf(u)
  BY <1>1, <1>3, AskedWords
<1> QED
  BY <1>3, <1>5, <1>6

LEMMA SteppedLoads == ASSUME ShapeInv, LoadInv, NEW p \in Procs, Stepped(p) PROVE LoadInv'
<1>1. pc[p] = "runs" /\ todo[p] # <<>> /\ UNCHANGED <<cmd, chain, faults, clean>>
  BY DEF Stepped
<1>2. CASE pc' = [pc EXCEPT ![p] = "failed"]
  <2>1. pc'[p] = "failed"
    BY <1>2 DEF ShapeInv
  <2> QED
    BY <2>1 DEF LoadInv, Owes, Gone
<1>3. ASSUME pc' = pc, Effect(Head(todo[p])), NEW A, Becomes(Head(todo[p]), A), todo' = [todo EXCEPT ![p] = A \o Tail(@)], Serves',
             NEW u \in Daemons!Users
      PROVE  (u \in daemon'.loaded /\ u \in disk'.wallets) \/ \E q \in Procs : Owes(q, LoadsOf(u))'
  <2>1. PICK s : s = Head(todo[p])
    OBVIOUS
  <2>2. chain.net = "regtest"
    BY <1>1, <1>3 DEF Serves
  <2>3. ASSUME Has(todo'[p], LoadsOf(u)) PROVE Owes(p, LoadsOf(u))'
    BY <1>1, <1>3, <2>3 DEF Owes
  <2>4. ASSUME NEW q \in Procs, q # p, Owes(q, LoadsOf(u)) PROVE Owes(q, LoadsOf(u))'
    <3>1. todo'[q] = todo[q]
      BY <1>1, <1>3, <2>4, Advanced
    <3> QED
      BY <1>3, <2>4, <3>1 DEF Owes, Gone
  <2>5. ASSUME Owes(p, LoadsOf(u)) PROVE s \in LoadsOf(u) \/ Owes(p, LoadsOf(u))'
    <3>1. Has(todo[p], LoadsOf(u))
      BY <1>1, <2>5 DEF Owes, Gone
    <3>2. s \in LoadsOf(u) \/ Has(todo'[p], LoadsOf(u))
      BY <1>1, <1>3, <2>1, <3>1, StepsLeft
    <3> QED
      BY <2>3, <3>2
  <2>6. s \in Starts => Owes(p, LoadsOf(u))'
    BY <1>1, <1>3, <2>1, <2>2, <2>3, StepsLeft
  <2>7. \A y \in Procs : Owes(y, LoadsOf(u)) => s \in LoadsOf(u) \/ \E q \in Procs : Owes(q, LoadsOf(u))'
    BY <2>4, <2>5
  <2>8. CASE disk'.wallets = disk.wallets /\ (daemon' = daemon \/ daemon' = Stopped) /\ s \notin LoadsOf(u)
    <3>1. daemon' # Stopped
      BY <1>3 DEF Stopped, Serves, ShapeInv
    <3>2. Serves
      BY <1>1, <1>3, <2>8, <3>1 DEF Serves
    <3> QED
      BY <2>7, <2>8, <3>1, <3>2 DEF LoadInv
  <2>9. CASE s[1] \in {"run", "data dir"}
    <3>1. s = <<s[1]>>
      BY <1>1, <2>1, <2>9, HeadIs
    <3>2. s \in Starts
      BY <2>9, <3>1 DEF Starts
    <3> QED
      BY <2>6, <3>2
  <2>10. CASE s[1] \notin {"run", "data dir", "call"} /\ disk' = disk /\ (daemon' = daemon \/ (s[1] = "stop" /\ daemon' = Stopped))
    <3>1. s \notin LoadsOf(u)
      BY <2>10, LoadWords
    <3> QED
      BY <2>8, <2>10, <3>1
  <2>11. ASSUME NEW k \in Owners(chain.net), s \in LoadsOf(k), daemon' = [daemon EXCEPT !.loaded = @ \union {k}],
                \/ disk' = disk /\ k \in disk.wallets
                \/ disk' = [disk EXCEPT !.wallets = @ \union {k}, !.made = TRUE]
         PROVE  (u \in daemon'.loaded /\ u \in disk'.wallets) \/ \E q \in Procs : Owes(q, LoadsOf(u))'
    <3>1. daemon'.loaded = daemon.loaded \union {k} /\ daemon'.state = daemon.state
      BY <2>11 DEF ShapeInv
    <3>2. k \in disk'.wallets /\ disk.wallets \subseteq disk'.wallets
      <4>1. CASE disk' = disk /\ k \in disk.wallets
        BY <4>1
      <4>2. CASE disk' = [disk EXCEPT !.wallets = @ \union {k}, !.made = TRUE]
        <5>1. disk'.wallets = disk.wallets \union {k}
          BY <4>2 DEF ShapeInv
        <5> QED
          BY <5>1
      <4> QED
        BY <2>11, <4>1, <4>2
    <3>3. CASE u = k
      BY <3>1, <3>2, <3>3
    <3>4. CASE u # k
      <4>1. s \notin LoadsOf(u)
        <5>1. s[3] = k
          BY <2>11, LoadWords
        <5>2. ASSUME s \in LoadsOf(u) PROVE s[3] = u
          BY <5>2, LoadWords
        <5> QED
          BY <3>4, <5>1, <5>2
      <4>2. Serves
        BY <1>1, <1>3, <3>1 DEF Serves
      <4> QED
        BY <2>7, <3>1, <3>2, <4>1, <4>2 DEF LoadInv
    <3> QED
      BY <3>3, <3>4
  <2>12. ASSUME NEW x \in Asked, s = <<"call", x[1], x[2]>>,
                \/ x[1] = "stop" /\ daemon' = Stopped /\ disk' = disk
                \/ x[1] # "stop" /\ daemon' = daemon /\ disk' = [disk EXCEPT !.height = @ + Daemons!Blocks(x[1])]
         PROVE  (u \in daemon'.loaded /\ u \in disk'.wallets) \/ \E q \in Procs : Owes(q, LoadsOf(u))'
    <3>1. s \notin LoadsOf(u)
      BY <2>12, LoadWords
    <3>2. disk'.wallets = disk.wallets
      BY <2>12 DEF ShapeInv
    <3> QED
      BY <2>8, <2>12, <3>1, <3>2
  <2>13. Effect(s)
    BY <1>3, <2>1
  <2> QED
    BY <2>9, <2>10, <2>11, <2>12, <2>13, Zenon DEF Effect
<1>4. CASE /\ pc' = pc /\ Effect(Head(todo[p]))
           /\ \E A : Becomes(Head(todo[p]), A) /\ todo' = [todo EXCEPT ![p] = A \o Tail(@)]
  BY <1>3, <1>4 DEF LoadInv
<1> QED
  BY <1>2, <1>4 DEF Stepped

LEMMA SteppedBlocks == ASSUME ShapeInv, HeightInv, NEW p \in Procs, Stepped(p) PROVE HeightInv'
<1>1. pc[p] = "runs" /\ todo[p] # <<>> /\ UNCHANGED <<cmd, chain, faults, clean>>
  BY DEF Stepped
<1>2. CASE pc' = [pc EXCEPT ![p] = "failed"]
  <2>1. pc'[p] = "failed"
    BY <1>2 DEF ShapeInv
  <2> QED
    BY <2>1 DEF HeightInv, Digging, Gone
<1>3. ASSUME pc' = pc, Effect(Head(todo[p])), NEW A, Becomes(Head(todo[p]), A), todo' = [todo EXCEPT ![p] = A \o Tail(@)],
             chain.net = "regtest"
      PROVE  Enough' \/ disk'.wallets = {} \/ \E q \in Procs : Digging(q)'
  <2>1. PICK s : s = Head(todo[p])
    OBVIOUS
  <2>2. Enough \/ disk.wallets = {} \/ \E q \in Procs : Digging(q)
    BY <1>3 DEF HeightInv
  <2>3. ASSUME HasBlocks(todo'[p]) \/ (Some' /\ Has(todo'[p], Digs("more blocks"))) PROVE Digging(p)'
    BY <1>1, <1>3, <2>3 DEF Digging
  <2>4. ASSUME NEW q \in Procs, q # p, Digging(q), Some => Some' PROVE Digging(q)'
    <3>1. todo'[q] = todo[q]
      BY <1>1, <1>3, <2>4, Advanced
    <3> QED
      BY <1>3, <2>4, <3>1 DEF Digging, Gone
  <2>5. Digging(p) => HasBlocks(todo[p]) \/ (Some /\ Has(todo[p], Digs("more blocks")))
    BY <1>1 DEF Digging, Gone
  <2>6. ASSUME Digging(p), Some => Some', (s \notin Digs("block") /\ s \notin Digs("more blocks")) \/ s[1] # "call"
        PROVE  Digging(p)'
    <3>1. HasBlocks(todo[p]) => HasBlocks(todo'[p])
      BY <1>1, <1>3, <2>1, <2>6, StepsLeft
    <3>2. Has(todo[p], Digs("more blocks")) => Has(todo'[p], Digs("more blocks"))
      BY <1>1, <1>3, <2>1, <2>6, StepsLeft
    <3> QED
      BY <2>3, <2>5, <2>6, <3>1, <3>2
  <2>7. ASSUME (Enough => Enough') /\ (Some => Some'), disk'.wallets = disk.wallets,
               (s \notin Digs("block") /\ s \notin Digs("more blocks")) \/ s[1] # "call"
        PROVE  Enough' \/ disk'.wallets = {} \/ \E q \in Procs : Digging(q)'
    BY <2>2, <2>4, <2>6, <2>7
  <2>8. CASE s[1] \notin {"run", "data dir", "call"} /\ disk' = disk
    BY <2>7, <2>8 DEF Enough, Some
  <2>9. CASE s[1] = "run" /\ disk' = [disk EXCEPT !.locked = TRUE, !.made = TRUE]
    <3>1. disk'.wallets = disk.wallets /\ disk'.height = disk.height
      BY <2>9 DEF ShapeInv
    <3> QED
      BY <2>7, <2>9, <3>1 DEF Enough, Some
  <2>10. CASE s[1] = "data dir" /\ disk' \in {disk, Deleted}
    <3>1. CASE disk' = disk
      BY <2>7, <2>10, <3>1 DEF Enough, Some
    <3>2. CASE disk' = Deleted
      BY <3>2 DEF Deleted
    <3> QED
      BY <2>10, <3>1, <3>2
  <2>11. ASSUME NEW k \in Owners(chain.net), s \in LoadsOf(k),
                \/ disk' = disk /\ k \in disk.wallets
                \/ s = <<"call", "createwallet", k>> /\ disk' = [disk EXCEPT !.wallets = @ \union {k}, !.made = TRUE]
         PROVE  Enough' \/ disk'.wallets = {} \/ \E q \in Procs : Digging(q)'
    <3>1. CASE disk' = disk
      <4>1. s \notin Digs("block") /\ s \notin Digs("more blocks")
        BY <2>11, LoadWords
      <4> QED
        BY <2>7, <3>1, <4>1 DEF Enough, Some
    <3>2. CASE s = <<"call", "createwallet", k>>
      <4>1. s \in Creates
        <5>1. k \in {"miner", "bob", "alice"}
          BY <1>3, UsersAre DEF Owners
        <5> QED
          BY <3>2, <5>1 DEF Creates
      <4>2. HasBlocks(todo'[p])
        BY <1>1, <1>3, <2>1, <4>1, StepsLeft
      <4> QED
        BY <2>3, <4>2
    <3> QED
      BY <2>11, <3>1, <3>2
  <2>12. ASSUME NEW x \in Asked, s = <<"call", x[1], x[2]>>, disk' = [disk EXCEPT !.height = @ + Daemons!Blocks(x[1])]
         PROVE  Enough' \/ disk'.wallets = {} \/ \E q \in Procs : Digging(q)'
    <3>1. PICK h \in Nat : h = disk.height
      BY DEF ShapeInv
    <3>2. PICK b \in {0, 1, 4} : /\ b = Daemons!Blocks(x[1])
                                 /\ x[1] = "block" => b = 1
                                 /\ x[1] = "more blocks" => b = 4
      BY BlocksAre
    <3>3. disk'.height = h + b /\ disk'.wallets = disk.wallets
      BY <2>12, <3>1, <3>2 DEF ShapeInv
    <3>4. /\ h >= 5 => h + b >= 5
          /\ h >= 1 => h + b >= 1
          /\ b = 1 => h + b >= 1
          /\ h >= 1 /\ b = 4 => h + b >= 5
      OBVIOUS
    <3>5. /\ Enough => Enough'
          /\ Some => Some'
          /\ x[1] = "block" => Some'
          /\ Some /\ x[1] = "more blocks" => Enough'
      BY <3>1, <3>2, <3>3, <3>4 DEF Enough, Some
    <3>6. /\ s \in Digs("block") => x[1] = "block"
          /\ s \in Digs("more blocks") => x[1] = "more blocks"
      BY <2>12, DigWords
    <3>7. CASE ~Digging(p)
      BY <2>2, <2>4, <3>3, <3>5, <3>7
    <3>8. CASE HasBlocks(todo[p])
      <4>1. HasBlocks(todo'[p]) \/ (s \in Digs("block") /\ Has(todo'[p], Digs("more blocks")))
        BY <1>1, <1>3, <2>1, <3>8, StepsLeft
      <4> QED
        BY <2>3, <3>5, <3>6, <4>1
    <3>9. CASE Some /\ Has(todo[p], Digs("more blocks"))
      <4>1. s \in Digs("more blocks") \/ Has(todo'[p], Digs("more blocks"))
        BY <1>1, <1>3, <2>1, <3>9, StepsLeft
      <4> QED
        BY <2>3, <3>5, <3>6, <3>9, <4>1
    <3> QED
      BY <2>5, <3>7, <3>8, <3>9
  <2>13. ASSUME NEW x \in Asked, s = <<"call", x[1], x[2]>>, x[1] = "stop", disk' = disk
         PROVE  Enough' \/ disk'.wallets = {} \/ \E q \in Procs : Digging(q)'
    <3>1. s \notin Digs("block") /\ s \notin Digs("more blocks")
      BY <2>13, DigWords
    <3> QED
      BY <2>7, <2>13, <3>1 DEF Enough, Some
  <2>14. Effect(s)
    BY <1>3, <2>1
  <2> QED
    BY <2>8, <2>9, <2>10, <2>11, <2>12, <2>13, <2>14, Zenon DEF Effect
<1>4. CASE /\ pc' = pc /\ Effect(Head(todo[p]))
           /\ \E A : Becomes(Head(todo[p]), A) /\ todo' = [todo EXCEPT ![p] = A \o Tail(@)]
  BY <1>1, <1>3, <1>4 DEF HeightInv
<1> QED
  BY <1>2, <1>4 DEF Stepped

LEMMA SteppedClients == ASSUME ShapeInv, ClientInv, NEW p \in Procs, Stepped(p) PROVE ClientInv'
<1>1. pc[p] = "runs" /\ todo[p] # <<>> /\ UNCHANGED <<cmd, chain, faults, clean>>
  BY DEF Stepped
<1>2. CASE pc' = [pc EXCEPT ![p] = "failed"] /\ todo' = todo /\ daemon' = daemon
  <2>1. \A q \in Procs : pc'[q] \in {"runs", "done"} => pc'[q] = pc[q]
    BY <1>2 DEF ShapeInv
  <2> QED
    BY <1>1, <1>2, <2>1 DEF ClientInv
<1>3. ASSUME pc' = pc, Effect(Head(todo[p])), NEW A, Becomes(Head(todo[p]), A), todo' = [todo EXCEPT ![p] = A \o Tail(@)],
             chain.net = "mainnet", faults = 0
      PROVE  ClientInv'
  <2>1. PICK s : s = Head(todo[p])
    OBVIOUS
  <2>2. /\ daemon.state = "ready"
        /\ "own" \in daemon.loaded \/ Has(todo[p], OwnSteps)
        /\ Daemons!OwnChain(chain) \/ Has(todo[p], {<<"chain">>})
    BY <1>1, <1>3 DEF ClientInv
  <2>3. s[1] \notin {"start", "run", "data dir", "start?", "stop?", "up?", "stop", "sleep", "wait", "rpc"}
    BY <1>1, <1>3, <2>1, HeadIs
  <2>4. \/ daemon' = daemon /\ s[1] # "call"
        \/ s \in LoadsOf("own") /\ daemon' = [daemon EXCEPT !.loaded = @ \union {"own"}]
    <3>1. Effect(s)
      BY <1>3, <2>1
    <3>2. CASE s[1] \notin {"run", "data dir", "call"} /\ (daemon' = daemon \/ s[1] = "stop")
      BY <2>3, <3>2
    <3>3. ASSUME NEW k \in Owners(chain.net), s \in LoadsOf(k), daemon' = [daemon EXCEPT !.loaded = @ \union {k}]
          PROVE  s \in LoadsOf("own") /\ daemon' = [daemon EXCEPT !.loaded = @ \union {"own"}]
      <4>1. k = "own"
        BY <1>3 DEF Owners
      <4> QED
        BY <3>3, <4>1
    <3>4. ASSUME NEW x \in Asked, s = <<"call", x[1], x[2]>> PROVE FALSE
      <4>1. s[1] = "call"
        BY <3>4
      <4>2. \E k \in Owners(chain.net) : s \in LoadsOf(k)
        BY <1>1, <1>3, <2>1, <4>1, HeadIs
      <4> QED
        BY <3>4, <4>2, LoadWords
    <3> QED
      BY <2>3, <3>1, <3>2, <3>3, <3>4 DEF Effect
  <2>5. daemon'.state = "ready" /\ daemon.loaded \subseteq daemon'.loaded
    <3>1. CASE daemon' = daemon
      BY <2>2, <3>1
    <3>2. CASE daemon' = [daemon EXCEPT !.loaded = @ \union {"own"}]
      BY <2>2, <3>2 DEF ShapeInv
    <3> QED
      BY <2>4, <3>1, <3>2
  <2>6. "own" \in daemon'.loaded \/ Has(todo'[p], OwnSteps)
    <3>1. CASE s \in LoadsOf("own")
      <4>1. s[1] = "call"
        BY <3>1, LoadWords
      <4>2. daemon' = [daemon EXCEPT !.loaded = @ \union {"own"}]
        BY <2>4, <4>1
      <4> QED
        BY <4>2 DEF ShapeInv
    <3>2. CASE s \notin OwnSteps
      <4>1. Has(todo[p], OwnSteps) => Has(todo'[p], OwnSteps)
        BY <1>1, <1>3, <2>1, <3>2, StepsLeft
      <4> QED
        BY <2>2, <2>5, <4>1
    <3>3. CASE s \in {<<"listwallets">>, <<"listwalletdir">>}
      <4>1. \/ "own" \in daemon.loaded
            \/ \E a \in OwnSteps : A = <<a>>
        <5>1. s[1] \in {"listwallets", "listwalletdir"}
          BY <3>3
        <5>2. /\ <<"start">>[1] = "start" /\ <<"stop">>[1] = "stop" /\ <<"start?">>[1] = "start?" /\ <<"stop?">>[1] = "stop?"
              /\ <<"listwallets">>[1] = "listwallets" /\ <<"listwalletdir">>[1] = "listwalletdir" /\ \A y, z : <<"rpc", y, z>>[1] = "rpc"
          OBVIOUS
        <5>3. \/ s[1] # "listwalletdir" /\ (s = <<"listwallets">> => "own" \in daemon.loaded)
              \/ A = <<<<"listwalletdir">>>>
              \/ A \in {<<<<"call", "loadwallet", "own">>>>, <<<<"call", "createwallet", "own">>>>}
          <6>1. Becomes(s, A)
            BY <1>3, <2>1
          <6>2. s # <<"start">> /\ s # <<"stop">> /\ s # <<"start?">> /\ s # <<"stop?">> /\ \A y, z : s # <<"rpc", y, z>>
            BY <5>1, <5>2
          <6> QED
            BY <6>1, <6>2, Zenon DEF Becomes
        <5>4. <<"listwalletdir">> \in OwnSteps /\ <<"call", "loadwallet", "own">> \in OwnSteps /\ <<"call", "createwallet", "own">> \in OwnSteps
          BY DEF OwnSteps, LoadsOf
        <5>5. CASE s[1] # "listwalletdir" /\ (s = <<"listwallets">> => "own" \in daemon.loaded)
          BY <3>3, <5>2, <5>5
        <5> QED
          BY <5>3, <5>4, <5>5
      <4>2. ASSUME NEW a \in OwnSteps, A = <<a>> PROVE Has(todo'[p], OwnSteps)
        <5>1. PICK t : t = Tail(todo[p])
          OBVIOUS
        <5>2. a \in ClientSteps /\ t \in Seq(ClientSteps)
          <6>1. StepsOf(chain.net) = ClientSteps
            BY <1>3, StepsAre
          <6> QED
            BY <1>1, <5>1, <6>1, AtHead DEF ClientSteps
        <5>3. Has(<<a>> \o t, OwnSteps)
          BY <5>2, HasCons
        <5>4. todo'[p] = <<a>> \o t
          BY <1>1, <1>3, <4>2, <5>1, Advanced
        <5> QED
          BY <5>3, <5>4
      <4> QED
        BY <2>5, <4>1, <4>2
    <3> QED
      BY <3>1, <3>2, <3>3 DEF OwnSteps
  <2>7. Daemons!OwnChain(chain) \/ Has(todo'[p], {<<"chain">>})
    <3>1. CASE s = <<"chain">>
      <4>1. <<"start">>[1] = "start" /\ <<"stop">>[1] = "stop" /\ <<"start?">>[1] = "start?" /\ <<"stop?">>[1] = "stop?" /\ <<"chain">>[1] = "chain"
            /\ <<"listwallets">>[1] = "listwallets" /\ <<"listwalletdir">>[1] = "listwalletdir" /\ \A y, z : <<"rpc", y, z>>[1] = "rpc"
        OBVIOUS
      <4>2. s # <<"start">> /\ s # <<"stop">> /\ s # <<"start?">> /\ s # <<"stop?">> /\ (\A y, z : s # <<"rpc", y, z>>)
            /\ s # <<"listwallets">> /\ s # <<"listwalletdir">>
        BY <3>1, <4>1
      <4>3. Becomes(s, A)
        BY <1>3, <2>1
      <4> QED
        BY <3>1, <4>2, <4>3, Zenon DEF Becomes
    <3>2. CASE s # <<"chain">>
      <4>1. s \notin {<<"chain">>}
        BY <3>2
      <4>2. Has(todo[p], {<<"chain">>}) => Has(todo'[p], {<<"chain">>})
        BY <1>1, <1>3, <2>1, <4>1, StepsLeft
      <4> QED
        BY <2>2, <4>2
    <3> QED
      BY <3>1, <3>2
  <2>8. ASSUME NEW q \in Procs, pc'[q] \in {"runs", "done"}
        PROVE  /\ "own" \in daemon'.loaded \/ Has(todo'[q], OwnSteps)
               /\ Daemons!OwnChain(chain) \/ Has(todo'[q], {<<"chain">>})
               /\ pc'[q] = "done" => todo'[q] = <<>>
    <3>1. CASE q = p
      BY <1>1, <1>3, <2>6, <2>7, <3>1
    <3>2. CASE q # p
      <4>1. todo'[q] = todo[q]
        BY <1>1, <1>3, <3>2, Advanced
      <4> QED
        BY <1>3, <2>5, <2>8, <3>2, <4>1 DEF ClientInv
    <3> QED
      BY <3>1, <3>2
  <2> QED
    BY <1>1, <2>5, <2>8 DEF ClientInv
<1>4. CASE /\ pc' = pc /\ Effect(Head(todo[p]))
           /\ \E A : Becomes(Head(todo[p]), A) /\ todo' = [todo EXCEPT ![p] = A \o Tail(@)]
  <2>1. CASE chain.net = "mainnet" /\ faults = 0
    BY <1>3, <1>4, <2>1
  <2>2. CASE ~(chain.net = "mainnet" /\ faults = 0)
    BY <1>1, <2>2 DEF ClientInv
  <2> QED
    BY <2>1, <2>2
<1> QED
  BY <1>2, <1>4 DEF Stepped

DaemonInv == LoadInv /\ HeightInv /\ ClientInv

LEMMA InitLoaded == ASSUME Daemons!DaemonsAssumption, Daemons!Init PROVE DaemonInv
<1>1. PICK old \in BOOLEAN :
        /\ daemon = [state |-> IF chain.net = "mainnet" THEN "ready" ELSE "down", loaded |-> {}]
        /\ disk = [made |-> old \/ chain.net = "mainnet", height |-> IF old THEN 5 ELSE 0, locked |-> chain.net = "mainnet",
                   wallets |-> IF ~old THEN {} ELSE IF chain.net = "mainnet" THEN {"own"} ELSE Daemons!Users]
  BY DEF Daemons!Init
<1>2. daemon.state = IF chain.net = "mainnet" THEN "ready" ELSE "down"
  BY <1>1
<1>3. LoadInv
  BY <1>2 DEF LoadInv, Serves
<1>4. HeightInv
  <2>1. CASE old
    <3>1. disk.height = 5
      BY <1>1, <2>1
    <3>2. Enough
      BY <3>1 DEF Enough
    <3> QED
      BY <3>2 DEF HeightInv
  <2>2. CASE ~old
    <3>1. disk.wallets = {}
      BY <1>1, <2>2
    <3> QED
      BY <3>1 DEF HeightInv
  <2> QED
    BY <2>1, <2>2
<1>5. \A p \in Procs : pc[p] = "idle"
  BY DEF Daemons!Init
<1>6. ClientInv
  BY <1>2, <1>5 DEF ClientInv
<1> QED
  BY <1>3, <1>4, <1>6 DEF DaemonInv

LEMMA BeginLoaded ==
    ASSUME ShapeInv, Daemons!DaemonsAssumption, DaemonInv, NEW p \in Procs, Daemons!Begin(p)
    PROVE  DaemonInv'
<1>1. PICK name \in Commands : /\ name \in Daemons!ClientNames <=> chain.net = "mainnet"
                               /\ cmd' = [cmd EXCEPT ![p] = name] /\ todo' = [todo EXCEPT ![p] = Daemons!Steps(name)]
  BY DEF Daemons!Begin
<1>2. pc[p] = "idle" /\ UNCHANGED <<daemon, disk, chain, faults>> /\ pc' = [pc EXCEPT ![p] = "runs"]
  BY DEF Daemons!Begin
<1>3. /\ \A q \in Procs : q # p => pc'[q] = pc[q] /\ todo'[q] = todo[q]
      /\ todo'[p] = Daemons!Steps(name) /\ pc'[p] = "runs"
  BY <1>1, <1>2 DEF ShapeInv
<1>4. LoadInv'
  <2>1. \A q \in Procs : \A S : Owes(q, S) => Owes(q, S)'
    BY <1>2, <1>3 DEF Owes, Gone
  <2> QED
    BY <1>2, <2>1 DEF LoadInv, DaemonInv, Serves
<1>5. HeightInv'
  <2>1. (Some <=> Some') /\ (Enough <=> Enough')
    BY <1>2 DEF Some, Enough
  <2>2. \A q \in Procs : Digging(q) => Digging(q)'
    BY <1>2, <1>3, <2>1 DEF Digging, Gone
  <2> QED
    BY <1>2, <2>1, <2>2 DEF HeightInv, DaemonInv
<1>6. ClientInv'
  <2>1. chain.net = "mainnet" => Has(Daemons!Steps(name), OwnSteps) /\ Has(Daemons!Steps(name), {<<"chain">>})
    BY <1>1, ClientServes DEF Daemons!ClientNames
  <2> QED
    BY <1>2, <1>3, <2>1 DEF ClientInv, DaemonInv
<1> QED
  BY <1>4, <1>5, <1>6 DEF DaemonInv

LEMMA EndLoaded == ASSUME ShapeInv, DaemonInv, NEW p \in Procs, Daemons!End(p) PROVE DaemonInv'
<1>1. pc[p] = "runs" /\ todo[p] = <<>> /\ pc' = [pc EXCEPT ![p] = "done"] /\ UNCHANGED <<cmd, todo, daemon, disk, chain, faults, clean>>
  BY DEF Daemons!End
<1>2. (\A q \in Procs : q # p => pc'[q] = pc[q]) /\ pc'[p] = "done"
  BY <1>1 DEF ShapeInv
<1>3. \A S : ~Has(todo[p], S)
  BY <1>1, EmptyFit
<1>4. ~HasBlocks(todo[p])
  <2>1. \A j \in DOMAIN <<>> : FALSE
    OBVIOUS
  <2> QED
    BY <1>1, <2>1 DEF HasBlocks
<1>5. LoadInv'
  <2>1. \A q \in Procs : \A S : Owes(q, S) => Owes(q, S)'
    BY <1>1, <1>2, <1>3 DEF Owes, Gone
  <2> QED
    BY <1>1, <2>1 DEF LoadInv, DaemonInv, Serves
<1>6. HeightInv'
  <2>1. (Some <=> Some') /\ (Enough <=> Enough')
    BY <1>1 DEF Some, Enough
  <2>2. \A q \in Procs : Digging(q) => Digging(q)'
    BY <1>1, <1>2, <1>3, <1>4, <2>1 DEF Digging, Gone
  <2> QED
    BY <1>1, <2>1, <2>2 DEF HeightInv, DaemonInv
<1>7. ClientInv'
  BY <1>1, <1>2 DEF ClientInv, DaemonInv
<1> QED
  BY <1>5, <1>6, <1>7 DEF DaemonInv

LEMMA GoesOnLoaded == ASSUME ShapeInv, DaemonInv, Daemons!DaemonGoesOn PROVE DaemonInv'
<1>1. UNCHANGED <<cmd, todo, pc, chain, faults, clean>>
  BY DEF Daemons!DaemonGoesOn
<1>2. \/ /\ daemon.state \in {"launching", "warmup"} /\ \E x : daemon' = [daemon EXCEPT !.state = x]
         /\ disk' = disk
      \/ daemon.state = "stopping" /\ daemon' = [state |-> "down", loaded |-> {}] /\ disk' = [disk EXCEPT !.locked = FALSE]
  BY DEF Daemons!DaemonGoesOn
<1>3. disk'.wallets = disk.wallets /\ disk'.height = disk.height
  BY <1>2 DEF ShapeInv
<1>4. Serves' => Serves /\ daemon'.loaded = daemon.loaded
  <2>1. CASE /\ daemon.state \in {"launching", "warmup"} /\ \E x : daemon' = [daemon EXCEPT !.state = x]
             /\ disk' = disk
    BY <1>1, <2>1 DEF Serves, ShapeInv
  <2>2. CASE daemon.state = "stopping" /\ daemon' = [state |-> "down", loaded |-> {}] /\ disk' = [disk EXCEPT !.locked = FALSE]
    BY <2>2 DEF Serves
  <2> QED
    BY <1>2, <2>1, <2>2
<1>5. LoadInv'
  <2>1. \A q \in Procs : \A S : Owes(q, S) => Owes(q, S)'
    BY <1>1 DEF Owes, Gone
  <2> QED
    BY <1>3, <1>4, <2>1 DEF LoadInv, DaemonInv
<1>6. HeightInv'
  <2>1. (Some <=> Some') /\ (Enough <=> Enough')
    BY <1>3 DEF Some, Enough
  <2>2. \A q \in Procs : Digging(q) => Digging(q)'
    BY <1>1, <2>1 DEF Digging, Gone
  <2> QED
    BY <1>1, <1>3, <2>1, <2>2 DEF HeightInv, DaemonInv
<1>7. ClientInv'
  <2>1. daemon.state # "ready"
    BY <1>2
  <2> QED
    BY <1>1, <2>1 DEF ClientInv, DaemonInv
<1> QED
  BY <1>5, <1>6, <1>7 DEF DaemonInv

LEMMA FaultLoaded == ASSUME ShapeInv, DaemonInv, Daemons!Fault PROVE DaemonInv'
<1>1. UNCHANGED <<cmd, todo, chain>> /\ faults' = faults + 1
  BY DEF Daemons!Fault
<1>2. faults' # 0
  <2>1. faults \in Nat
    BY DEF ShapeInv
  <2> QED
    BY <1>1, <2>1
<1>3. ClientInv'
  BY <1>2 DEF ClientInv
<1>4. CASE \E p \in Procs : pc' = [pc EXCEPT ![p] = "killed"] /\ UNCHANGED <<daemon, disk>>
  <2>1. PICK p \in Procs : pc' = [pc EXCEPT ![p] = "killed"] /\ UNCHANGED <<daemon, disk>>
    BY <1>4
  <2>2. pc'[p] = "killed"
    BY <2>1 DEF ShapeInv
  <2> QED
    BY <1>3, <2>2 DEF DaemonInv, LoadInv, HeightInv, Owes, Digging, Gone
<1>5. CASE daemon' = [state |-> "down", loaded |-> {}] /\ disk' = [disk EXCEPT !.locked = FALSE] /\ pc' = pc
  <2>1. ~Serves'
    BY <1>5 DEF Serves
  <2>2. disk'.wallets = disk.wallets /\ disk'.height = disk.height
    BY <1>5 DEF ShapeInv
  <2>3. (Some <=> Some') /\ (Enough <=> Enough')
    BY <2>2 DEF Some, Enough
  <2>4. \A q \in Procs : Digging(q) => Digging(q)'
    BY <1>1, <1>5, <2>3 DEF Digging, Gone
  <2>5. HeightInv'
    BY <1>1, <2>2, <2>3, <2>4 DEF HeightInv, DaemonInv
  <2> QED
    BY <1>3, <2>1, <2>5 DEF DaemonInv, LoadInv
<1> QED
  BY <1>4, <1>5 DEF Daemons!Fault, Daemons!Running

LEMMA NextLoaded ==
    ASSUME ShapeInv, Daemons!DaemonsAssumption, DaemonInv, [Daemons!Next]_(Daemons!daemonVars)
    PROVE  DaemonInv'
<1>1. CASE UNCHANGED Daemons!daemonVars
  BY <1>1 DEF Daemons!daemonVars, DaemonInv, LoadInv, HeightInv, ClientInv, Serves, Some, Enough, Owes, Digging, Gone
<1>2. ASSUME NEW p \in Procs, Stepped(p) PROVE DaemonInv'
  BY <1>2, SteppedLoads, SteppedBlocks, SteppedClients DEF DaemonInv
<1>3. CASE Daemons!Next
  BY <1>2, <1>3, NextIs, BeginLoaded, EndLoaded, GoesOnLoaded, FaultLoaded
<1> QED
  BY <1>1, <1>3

LEMMA LoadedSuffices == ShapeInv /\ DaemonInv => Daemons!AllLoaded
<1> SUFFICES ASSUME ShapeInv, DaemonInv, faults = 0, daemon.state = "ready", \A p \in Procs : pc[p] \in {"idle", "done"}
             PROVE  IF chain.net = "regtest"
                    THEN daemon.loaded = disk.wallets /\ daemon.loaded = Daemons!Users /\ disk.height >= 5
                    ELSE \A p \in Procs : pc[p] = "done" => "own" \in daemon.loaded /\ Daemons!OwnChain(chain)
  BY DEF Daemons!AllLoaded
<1>1. CASE chain.net = "regtest"
  <2>1. \A p \in Procs : ~Gone(p) /\ pc[p] # "runs"
    BY DEF Gone
  <2>2. \A u \in Daemons!Users : u \in daemon.loaded /\ u \in disk.wallets
    BY <1>1, <2>1 DEF DaemonInv, LoadInv, Serves, Owes
  <2>3. daemon.loaded \subseteq Daemons!Users /\ disk.wallets \subseteq Daemons!Users
    BY <1>1 DEF ShapeInv, Owners
  <2>4. disk.wallets # {}
    BY <2>2, UsersAre
  <2>5. Enough
    BY <1>1, <2>1, <2>4 DEF DaemonInv, HeightInv, Digging
  <2>6. daemon.loaded = Daemons!Users /\ disk.wallets = Daemons!Users
    BY <2>2, <2>3
  <2>7. disk.height >= 5
    BY <2>5 DEF Enough
  <2> QED
    BY <1>1, <2>6, <2>7
<1>2. CASE chain.net # "regtest"
  <2>1. chain.net = "mainnet"
    BY <1>2 DEF ShapeInv
  <2>2. ASSUME NEW p \in Procs, pc[p] = "done" PROVE "own" \in daemon.loaded /\ Daemons!OwnChain(chain)
    <3>1. todo[p] = <<>> /\ ("own" \in daemon.loaded \/ Has(todo[p], OwnSteps)) /\ (Daemons!OwnChain(chain) \/ Has(todo[p], {<<"chain">>}))
      BY <2>1, <2>2 DEF DaemonInv, ClientInv
    <3> QED
      BY <3>1, EmptyFit
  <2> QED
    BY <1>2, <2>2
<1> QED
  BY <1>1, <1>2

(* A command that has been alone from its start can make all its steps.    *)
Now(m) ==
    /\ disk.wallets = m.wallets
    /\ m.st = "absent" => daemon.state = "down" /\ ~disk.made
    /\ m.st = "down" => daemon.state = "down"
    /\ m.st = "starting" => daemon.state \in {"launching", "warmup", "ready"} /\ daemon.loaded = m.loaded
    /\ m.st = "ready" => daemon.state = "ready" /\ daemon.loaded = m.loaded
    /\ m.st = "stopping" => daemon.state \in {"stopping", "down"}

Ahead(p) == \E m \in Modes : Now(m) /\ Goes(m, todo[p])

Clear(p) ==
    /\ Daemons!set_auth = Daemons!Accepted /\ Daemons!OwnChain(chain)
    /\ chain.version <= Daemons!tested_version \/ cmd[p] = "client any version"

CleanInv ==
    \A p \in clean :
        /\ pc[p] \in {"runs", "done"}
        /\ pc[p] = "runs" => Daemons!Running = {p} /\ Ahead(p) /\ (chain.net = "mainnet" => Clear(p))

(* What a step leads to, by its first word.                                *)
Words(m, s, n) ==
    /\ s[1] = "start" => m.st \in {"absent", "down"} /\ n = Mode("ready", {}, m.wallets)
    /\ s[1] = "run" => m.st \in {"absent", "down"} /\ n = Mode("starting", {}, m.wallets)
    /\ s = <<"wait", "stopped">> => m.st \in {"absent", "down", "stopping"} /\ n = m
    /\ s = <<"wait", "ready">> => m.st \in {"starting", "ready"} /\ n = Mode("ready", m.loaded, m.wallets)
    /\ s[1] = "sleep" => m.st = "stopping" /\ n = m
    /\ s[1] = "stop" => (m.st = "down" /\ n = m) \/ (m.st = "ready" /\ n = Mode("stopping", m.loaded, m.wallets))
    /\ s[1] = "start?" => (m.st = "down" /\ m.wallets = Daemons!Users /\ n = AllReady) \/ (m = AllReady /\ n = m)
    /\ s[1] \in {"stop?", "data dir"} => m.st = "absent" /\ n = m
    /\ s[1] = "up?" => m.st = "ready" /\ n = m
    /\ s[1] = "rpc" => \/ m.st = "ready" /\ CallLeads(m, s[2], s[3], n)
                       \/ m.st = "down" /\ m.wallets = Daemons!Users /\ CallLeads(AllReady, s[2], s[3], n)
    /\ s[1] = "call" => CallLeads(m, s[2], s[3], n)
    /\ s[1] \in {"connect", "chain", "version"} => m.st = "ready" /\ n = m
    /\ s[1] \in {"listwallets", "listwalletdir"} =>
         /\ m.st = "ready"
         /\ \/ s[1] = "listwallets" /\ "own" \in m.loaded /\ n = m
            \/ "own" \notin m.loaded /\ n = Mode("ready", m.loaded \union {"own"}, m.wallets \union {"own"})

LEMMA LeadsWords == ASSUME NEW m, NEW s, NEW n, Leads(m, s, n) PROVE Words(m, s, n)
<1> USE DEF Words
<1>1. /\ <<"start?">>[1] = "start?" /\ <<"stop?">>[1] = "stop?" /\ <<"up?">>[1] = "up?" /\ <<"stop">>[1] = "stop"
      /\ <<"sleep">>[1] = "sleep" /\ <<"start">>[1] = "start" /\ <<"run">>[1] = "run" /\ <<"data dir">>[1] = "data dir"
      /\ <<"connect">>[1] = "connect" /\ <<"chain">>[1] = "chain" /\ <<"version">>[1] = "version"
      /\ <<"listwallets">>[1] = "listwallets" /\ <<"listwalletdir">>[1] = "listwalletdir"
  OBVIOUS
<1>2. /\ <<"wait", "ready">>[1] = "wait" /\ <<"wait", "stopped">>[1] = "wait" /\ <<"wait", "ready">> # <<"wait", "stopped">>
      /\ \A y, z : <<"call", y, z>>[1] = "call" /\ <<"call", y, z>>[2] = y /\ <<"call", y, z>>[3] = z
      /\ \A y, z : <<"rpc", y, z>>[1] = "rpc" /\ <<"rpc", y, z>>[2] = y /\ <<"rpc", y, z>>[3] = z
  OBVIOUS
<1>3. CASE s = <<"start">> /\ m.st \in {"absent", "down"} /\ n = Mode("ready", {}, m.wallets)
  BY <1>1, <1>2, <1>3
<1>4. CASE s = <<"run">> /\ m.st \in {"absent", "down"} /\ n = Mode("starting", {}, m.wallets)
  BY <1>1, <1>2, <1>4
<1>5. CASE s = <<"wait", "stopped">> /\ m.st \in {"absent", "down", "stopping"} /\ n = m
  BY <1>1, <1>2, <1>5
<1>6. CASE s = <<"wait", "ready">> /\ m.st \in {"starting", "ready"} /\ n = Mode("ready", m.loaded, m.wallets)
  BY <1>1, <1>2, <1>6
<1>7. CASE s = <<"sleep">> /\ m.st = "stopping" /\ n = m
  BY <1>1, <1>2, <1>7
<1>8. CASE s = <<"stop">> /\ ((m.st = "down" /\ n = m) \/ (m.st = "ready" /\ n = Mode("stopping", m.loaded, m.wallets)))
  BY <1>1, <1>2, <1>8
<1>9. CASE s = <<"start?">> /\ ((m.st = "down" /\ m.wallets = Daemons!Users /\ n = AllReady) \/ (m = AllReady /\ n = m))
  BY <1>1, <1>2, <1>9
<1>10. CASE s \in {<<"stop?">>, <<"data dir">>} /\ m.st = "absent" /\ n = m
  <2>1. s[1] \in {"stop?", "data dir"}
    BY <1>1, <1>10, Zenon
  <2>2. s # <<"wait", "ready">> /\ s # <<"wait", "stopped">>
    BY <1>2, <2>1
  <2> QED
    BY <1>10, <2>1, <2>2
<1>11. CASE s = <<"up?">> /\ m.st = "ready" /\ n = m
  BY <1>1, <1>2, <1>11
<1>12. CASE \E y, z : /\ s = <<"rpc", y, z>>
                      /\ \/ m.st = "ready" /\ CallLeads(m, y, z, n)
                         \/ m.st = "down" /\ m.wallets = Daemons!Users /\ CallLeads(AllReady, y, z, n)
  BY <1>1, <1>2, <1>12
<1>13. CASE \E y, z : s = <<"call", y, z>> /\ CallLeads(m, y, z, n)
  BY <1>1, <1>2, <1>13
<1>14. CASE s \in {<<"connect">>, <<"chain">>, <<"version">>} /\ m.st = "ready" /\ n = m
  <2>1. s[1] \in {"connect", "chain", "version"}
    BY <1>1, <1>14, Zenon
  <2>2. s # <<"wait", "ready">> /\ s # <<"wait", "stopped">>
    BY <1>2, <2>1
  <2> QED
    BY <1>14, <2>1, <2>2
<1>15. CASE /\ s \in {<<"listwallets">>, <<"listwalletdir">>} /\ m.st = "ready"
            /\ \/ s = <<"listwallets">> /\ "own" \in m.loaded /\ n = m
               \/ "own" \notin m.loaded /\ n = Mode("ready", m.loaded \union {"own"}, m.wallets \union {"own"})
  <2>1. s[1] \in {"listwallets", "listwalletdir"} /\ (s = <<"listwallets">> => s[1] = "listwallets")
    BY <1>1, <1>15, Zenon
  <2>2. s # <<"wait", "ready">> /\ s # <<"wait", "stopped">>
    BY <1>2, <2>1
  <2> QED
    BY <1>15, <2>1, <2>2
<1> QED
  BY <1>3, <1>4, <1>5, <1>6, <1>7, <1>8, <1>9, <1>10, <1>11, <1>12, <1>13, <1>14, <1>15, Zenon DEF Leads

LEMMA Going ==
    ASSUME ShapeInv, NEW p \in Procs, todo[p] # <<>>, NEW m \in Modes, Goes(m, todo[p])
    PROVE  \E n \in Modes : Leads(m, Head(todo[p]), n) /\ Goes(n, Tail(todo[p]))
<1>1. PICK s : s = Head(todo[p])
  OBVIOUS
<1>2. PICK t : t = Tail(todo[p])
  OBVIOUS
<1>3. s \in StepsOf(chain.net) /\ t \in Seq(StepsOf(chain.net)) /\ todo[p] = <<s>> \o t
  BY <1>1, <1>2, AtHead
<1>4. Goes(m, <<s>> \o t)
  BY <1>3
<1>5. \E n \in Modes : Leads(m, s, n) /\ Goes(n, t)
  BY <1>3, <1>4, GoesCons
<1> QED
  BY <1>1, <1>2, <1>5

LEMMA ThenIs ==
    ASSUME ShapeInv, NEW p \in Procs, todo[p] # <<>>, NEW A, Daemons!Then(p, A)
    PROVE  pc' = pc /\ todo'[p] = A \o Tail(todo[p]) /\ (A = <<>> => todo'[p] = Tail(todo[p]))
<1>1. pc' = pc /\ todo' = [todo EXCEPT ![p] = A \o Tail(@)]
  BY DEF Daemons!Then
<1>2. todo = [q \in Procs |-> todo[q]]
  BY DEF ShapeInv
<1>3. todo'[p] = A \o Tail(todo[p])
  BY <1>1, <1>2
<1>4. <<>> \o Tail(todo[p]) = Tail(todo[p])
  BY AtHead, EmptyCons
<1> QED
  BY <1>1, <1>3, <1>4

(* The mode at each step.                                                  *)
LEMMA ModeParts ==
    ASSUME NEW m \in Modes
    PROVE  /\ m.st \in {"absent", "down", "starting", "ready", "stopping"} /\ m.loaded \in SUBSET {"miner", "bob", "alice", "own"}
           /\ m.wallets \in SUBSET {"miner", "bob", "alice", "own"} /\ {} \in SUBSET {"miner", "bob", "alice", "own"}
BY DEF Modes

LEMMA NowOn == ASSUME NEW m, Now(m), disk' = disk, daemon' = daemon PROVE Now(m)'
BY DEF Now

LEMMA AheadOn == ASSUME NEW p, NEW n \in Modes, Now(n)', Goes(n, todo'[p]) PROVE Ahead(p)'
BY DEF Ahead

LEMMA StateIs ==
    ASSUME ShapeInv
    PROVE  /\ Daemons!state = "stopped" <=> daemon.state \in {"down", "launching", "stopping"}
           /\ Daemons!state = "ready" <=> daemon.state = "ready"
BY DEF Daemons!state, ShapeInv

LEMMA StartAhead ==
    ASSUME ShapeInv, NEW p \in Procs, NEW m \in Modes, Now(m), Goes(m, todo[p]), Daemons!start(p)
    PROVE  pc' = pc /\ Ahead(p)'
<1>1. todo[p] # <<>> /\ Head(todo[p])[1] = "start" /\ disk' = disk /\ daemon' = daemon
  BY DEF Daemons!start, Daemons!Is
<1>2. PICK n \in Modes : Leads(m, Head(todo[p]), n) /\ Goes(n, Tail(todo[p]))
  BY <1>1, Going
<1>3. m.st \in {"absent", "down"} /\ n = Mode("ready", {}, m.wallets)
  <2>1. PICK s : s = Head(todo[p])
    OBVIOUS
  <2>2. Leads(m, s, n) /\ s[1] = "start"
    BY <1>1, <1>2, <2>1
  <2>3. Words(m, s, n)
    BY <2>2, LeadsWords
  <2> QED
    BY <2>2, <2>3, Zenon DEF Words
<1>4. Daemons!state = "stopped"
  BY <1>3, StateIs DEF Now
<1>5. Daemons!Then(p, <<<<"wait", "stopped">>, <<"run">>, <<"wait", "ready">>>>)
  BY <1>4 DEF Daemons!start
<1>6. PICK t : t = Tail(todo[p])
  OBVIOUS
<1>7. chain.net = "regtest" /\ t \in Seq(RegtestSteps)
  <2>1. chain.net = "regtest"
    BY <1>1, HeadIs
  <2> QED
    BY <1>1, <1>6, <2>1, AtHead, StepsAre
<1>8. PICK s1 \in RegtestSteps, s2 \in RegtestSteps, s3 \in RegtestSteps :
         s1 = <<"wait", "stopped">> /\ s2 = <<"run">> /\ s3 = <<"wait", "ready">>
  BY StepsAre DEF Starts, Questions
<1>9. pc' = pc /\ todo'[p] = <<s1>> \o (<<s2>> \o (<<s3>> \o t))
  <2>1. PICK S : S = RegtestSteps
    OBVIOUS
  <2>2. t \in Seq(S) /\ s1 \in S /\ s2 \in S /\ s3 \in S
    BY <1>7, <2>1
  <2>3. ThreeAhead(s1, s2, s3, t)
    BY <2>2, Cons3
  <2>4. <<s1, s2, s3>> \o t = <<s1>> \o (<<s2>> \o (<<s3>> \o t))
    BY <2>3 DEF ThreeAhead
  <2> QED
    BY <1>1, <1>5, <1>6, <1>8, <2>4, ThenIs
<1>10. PICK k \in Modes : k = Mode("starting", {}, m.wallets) /\ k.st = "starting" /\ k.loaded = {} /\ k.wallets = m.wallets
  BY ModesAre, ModeParts
<1>11. Leads(m, s1, m) /\ Leads(m, s2, k) /\ Leads(k, s3, n)
  BY <1>3, <1>8, <1>10 DEF Leads
<1>12. Goes(k, <<s3>> \o t) /\ <<s3>> \o t \in Seq(RegtestSteps)
  BY <1>2, <1>6, <1>7, <1>11, GoesCons, ConsFacts
<1>13. Goes(m, <<s2>> \o (<<s3>> \o t)) /\ <<s2>> \o (<<s3>> \o t) \in Seq(RegtestSteps)
  BY <1>11, <1>12, GoesCons, ConsFacts
<1>14. Goes(m, todo'[p])
  BY <1>9, <1>11, <1>13, GoesCons
<1> QED
  BY <1>1, <1>9, <1>14, NowOn, AheadOn

LEMMA RunAhead ==
    ASSUME ShapeInv, NEW p \in Procs, NEW m \in Modes, Now(m), Goes(m, todo[p]), Daemons!run_cmd(p)
    PROVE  pc' = pc /\ Ahead(p)'
<1>1. todo[p] # <<>> /\ Head(todo[p])[1] = "run"
  BY DEF Daemons!run_cmd, Daemons!Is
<1>2. PICK n \in Modes : Leads(m, Head(todo[p]), n) /\ Goes(n, Tail(todo[p]))
  BY <1>1, Going
<1>3. m.st \in {"absent", "down"} /\ n = Mode("starting", {}, m.wallets)
  <2>1. PICK s : s = Head(todo[p])
    OBVIOUS
  <2>2. Leads(m, s, n) /\ s[1] = "run"
    BY <1>1, <1>2, <2>1
  <2>3. Words(m, s, n)
    BY <2>2, LeadsWords
  <2> QED
    BY <2>2, <2>3, Zenon DEF Words
<1>4. n.st = "starting" /\ n.loaded = {} /\ n.wallets = m.wallets
  BY <1>3 DEF Mode
<1>5. ~disk.locked
  BY <1>3 DEF Now, ShapeInv
<1>6. daemon' = [state |-> "launching", loaded |-> {}] /\ disk' = [disk EXCEPT !.locked = TRUE, !.made = TRUE] /\ Daemons!Then(p, <<>>)
  BY <1>5 DEF Daemons!run_cmd
<1>7. disk'.wallets = disk.wallets
  BY <1>6 DEF ShapeInv
<1>8. Now(n)'
  BY <1>4, <1>6, <1>7 DEF Now
<1>9. pc' = pc /\ todo'[p] = Tail(todo[p])
  BY <1>1, <1>6, ThenIs
<1> QED
  BY <1>2, <1>8, <1>9, AheadOn

LEMMA WaitAhead ==
    ASSUME ShapeInv, NEW p \in Procs, NEW m \in Modes, Now(m), Goes(m, todo[p]), Daemons!wait_for_state(p)
    PROVE  pc' = pc /\ Ahead(p)'
<1>1. todo[p] # <<>> /\ Head(todo[p])[1] = "wait" /\ disk' = disk /\ daemon' = daemon
  BY DEF Daemons!wait_for_state, Daemons!Is
<1>2. PICK n \in Modes : Leads(m, Head(todo[p]), n) /\ Goes(n, Tail(todo[p]))
  BY <1>1, Going
<1>3. CASE Head(todo[p]) = <<"wait", "ready">>
  <2>1. m.st \in {"starting", "ready"} /\ n = Mode("ready", m.loaded, m.wallets)
    BY <1>2, <1>3, LeadsWords DEF Words
  <2>2. n.st = "ready" /\ n.loaded = m.loaded /\ n.wallets = m.wallets
    BY <2>1 DEF Mode
  <2>3. Daemons!Arg(p, 2) = "ready"
    BY <1>3 DEF Daemons!Arg
  <2>4. daemon.state # "down" /\ daemon.loaded = m.loaded
    BY <2>1 DEF Now
  <2>5. Daemons!state = "ready" /\ Daemons!Then(p, <<>>)
    BY <2>3, <2>4 DEF Daemons!wait_for_state
  <2>6. Now(n)'
    BY <1>1, <2>2, <2>4, <2>5, StateIs DEF Now
  <2> QED
    BY <1>1, <1>2, <2>5, <2>6, ThenIs, AheadOn
<1>4. CASE Head(todo[p]) = <<"wait", "stopped">>
  <2>1. m.st \in {"absent", "down", "stopping"} /\ n = m
    BY <1>2, <1>4, LeadsWords DEF Words
  <2>2. Daemons!Arg(p, 2) = "stopped"
    BY <1>4 DEF Daemons!Arg
  <2>3. daemon.state # "ready"
    BY <2>1 DEF Now
  <2>4. Daemons!Then(p, <<>>)
    BY <2>2, <2>3 DEF Daemons!wait_for_state
  <2> QED
    BY <1>1, <1>2, <2>1, <2>4, NowOn, ThenIs, AheadOn
<1> QED
  BY <1>1, <1>3, <1>4, HeadIs

LEMMA StopAhead ==
    ASSUME ShapeInv, NEW p \in Procs, NEW m \in Modes, Now(m), Goes(m, todo[p]), Daemons!stop(p)
    PROVE  pc' = pc /\ Ahead(p)'
<1>1. todo[p] # <<>> /\ Head(todo[p])[1] = "stop" /\ disk' = disk
  BY DEF Daemons!stop, Daemons!Is
<1>2. PICK n \in Modes : Leads(m, Head(todo[p]), n) /\ Goes(n, Tail(todo[p]))
  BY <1>1, Going
<1>3. (m.st = "down" /\ n = m) \/ (m.st = "ready" /\ n = Mode("stopping", m.loaded, m.wallets))
  <2>1. PICK s : s = Head(todo[p])
    OBVIOUS
  <2>2. Leads(m, s, n) /\ s[1] = "stop"
    BY <1>1, <1>2, <2>1
  <2>3. Words(m, s, n)
    BY <2>2, LeadsWords
  <2> QED
    BY <2>2, <2>3, Zenon DEF Words
<1>4. CASE m.st = "down" /\ n = m
  <2>1. Daemons!state # "ready"
    BY <1>4, StateIs DEF Now
  <2>2. daemon' = daemon /\ Daemons!Then(p, <<>>)
    BY <2>1 DEF Daemons!stop
  <2> QED
    BY <1>1, <1>2, <1>4, <2>2, NowOn, ThenIs, AheadOn
<1>5. CASE m.st = "ready" /\ n = Mode("stopping", m.loaded, m.wallets)
  <2>1. n.st = "stopping" /\ n.wallets = m.wallets
    BY <1>5 DEF Mode
  <2>2. Daemons!state = "ready"
    BY <1>5, StateIs DEF Now
  <2>3. daemon' = Stopped /\ Daemons!Then(p, <<<<"wait", "stopped">>, <<"sleep">>>>)
    BY <2>2 DEF Daemons!stop, Stopped
  <2>4. daemon'.state = "stopping"
    BY <2>3 DEF Stopped, ShapeInv
  <2>5. Now(n)'
    BY <1>1, <2>1, <2>4 DEF Now
  <2>6. PICK t : t = Tail(todo[p])
    OBVIOUS
  <2>7. t \in Seq(RegtestSteps)
    <3>1. chain.net = "regtest"
      BY <1>1, HeadIs
    <3> QED
      BY <1>1, <2>6, <3>1, AtHead, StepsAre
  <2>8. PICK s1 \in RegtestSteps, s2 \in RegtestSteps : s1 = <<"wait", "stopped">> /\ s2 = <<"sleep">>
    BY StepsAre DEF Questions
  <2>9. pc' = pc /\ todo'[p] = <<s1>> \o (<<s2>> \o t)
    <3>1. PICK S : S = RegtestSteps
      OBVIOUS
    <3>2. t \in Seq(S) /\ s1 \in S /\ s2 \in S
      BY <2>7, <3>1
    <3>3. <<s1, s2>> \o t = <<s1>> \o (<<s2>> \o t)
      BY <3>2, Cons2
    <3> QED
      BY <1>1, <2>3, <2>6, <2>8, <3>3, ThenIs
  <2>10. Leads(n, s1, n) /\ Leads(n, s2, n)
    BY <2>1, <2>8 DEF Leads
  <2>11. Goes(n, <<s2>> \o t) /\ <<s2>> \o t \in Seq(RegtestSteps)
    BY <1>2, <2>6, <2>7, <2>10, GoesCons, ConsFacts
  <2>12. Goes(n, todo'[p])
    BY <2>9, <2>10, <2>11, GoesCons
  <2> QED
    BY <2>5, <2>9, <2>12, AheadOn
<1> QED
  BY <1>3, <1>4, <1>5

LEMMA SleepAhead ==
    ASSUME ShapeInv, NEW p \in Procs, NEW m \in Modes, Now(m), Goes(m, todo[p]), Daemons!sleep(p)
    PROVE  pc' = pc /\ Ahead(p)'
<1>1. todo[p] # <<>> /\ Head(todo[p])[1] = "sleep" /\ disk' = disk /\ daemon' = daemon /\ Daemons!Then(p, <<>>)
  BY DEF Daemons!sleep, Daemons!Is
<1>2. PICK n \in Modes : Leads(m, Head(todo[p]), n) /\ Goes(n, Tail(todo[p]))
  BY <1>1, Going
<1>3. n = m
  <2>1. PICK s : s = Head(todo[p])
    OBVIOUS
  <2>2. Leads(m, s, n) /\ s[1] = "sleep"
    BY <1>1, <1>2, <2>1
  <2>3. Words(m, s, n)
    BY <2>2, LeadsWords
  <2> QED
    BY <2>2, <2>3, Zenon DEF Words
<1> QED
  BY <1>1, <1>2, <1>3, NowOn, ThenIs, AheadOn

LEMMA DirAhead ==
    ASSUME ShapeInv, NEW p \in Procs, NEW m \in Modes, Now(m), Goes(m, todo[p]), Daemons!create_data_dir(p)
    PROVE  pc' = pc /\ Ahead(p)'
<1>1. todo[p] # <<>> /\ Head(todo[p])[1] = "data dir" /\ daemon' = daemon
  BY DEF Daemons!create_data_dir, Daemons!Is
<1>2. PICK n \in Modes : Leads(m, Head(todo[p]), n) /\ Goes(n, Tail(todo[p]))
  BY <1>1, Going
<1>3. m.st = "absent" /\ n = m
  <2>1. PICK s : s = Head(todo[p])
    OBVIOUS
  <2>2. Leads(m, s, n) /\ s[1] = "data dir"
    BY <1>1, <1>2, <2>1
  <2>3. Words(m, s, n)
    BY <2>2, LeadsWords
  <2> QED
    BY <2>2, <2>3, Zenon DEF Words
<1>4. ~disk.made
  BY <1>3 DEF Now
<1>5. disk' = disk /\ Daemons!Then(p, <<>>)
  BY <1>4 DEF Daemons!create_data_dir
<1> QED
  BY <1>1, <1>2, <1>3, <1>5, NowOn, ThenIs, AheadOn

LEMMA AtMode ==
    ASSUME ShapeInv, NEW p \in Procs, todo[p] # <<>>, NEW m \in Modes, Goes(m, todo[p])
    PROVE  \E n \in Modes : Words(m, Head(todo[p]), n) /\ Goes(n, Tail(todo[p]))
<1>1. PICK s : s = Head(todo[p])
  OBVIOUS
<1>2. PICK n \in Modes : Leads(m, s, n) /\ Goes(n, Tail(todo[p]))
  BY <1>1, Going
<1>3. Words(m, s, n)
  BY <1>2, LeadsWords
<1> QED
  BY <1>1, <1>2, <1>3

LEMMA SameMode ==
    ASSUME NEW m \in Modes
    PROVE  m = Mode(m.st, m.loaded, m.wallets)
BY DEF Modes, Mode

LEMMA DecideAhead ==
    ASSUME ShapeInv, NEW p \in Procs, NEW m \in Modes, Now(m), Goes(m, todo[p]), Daemons!Decide(p)
    PROVE  pc' = pc /\ Ahead(p)'
<1>1. disk' = disk /\ daemon' = daemon
  BY DEF Daemons!Decide
<1>2. todo[p] # <<>> /\ Head(todo[p])[1] \in {"start?", "stop?", "up?", "rpc"}
  BY DEF Daemons!Decide, Daemons!Is
<1>3. PICK s : s = Head(todo[p])
  OBVIOUS
<1>4. PICK n \in Modes : Words(m, s, n) /\ Goes(n, Tail(todo[p]))
  BY <1>2, <1>3, AtMode
<1>5. PICK t : t = Tail(todo[p])
  OBVIOUS
<1>6. Fit("regtest", t) /\ t \in Seq(RegtestSteps) /\ Goes(n, t)
  <2>1. chain.net = "regtest"
    BY <1>2, HeadIs
  <2> QED
    BY <1>2, <1>4, <1>5, <2>1, AtHead, StepsAre
<1>7. ASSUME Daemons!Then(p, <<>>), n = m PROVE pc' = pc /\ Ahead(p)'
  BY <1>1, <1>2, <1>4, <1>7, ThenIs, NowOn, AheadOn
<1>8. CASE Daemons!Is(p, "start?") /\ Daemons!Then(p, IF Daemons!state = "stopped" THEN Daemons!start_daemon ELSE <<>>)
  <2>1. s[1] = "start?"
    BY <1>3, <1>8 DEF Daemons!Is
  <2>2. (m.st = "down" /\ m.wallets = Daemons!Users /\ n = AllReady) \/ (m = AllReady /\ n = m)
    BY <1>4, <2>1, Zenon DEF Words
  <2>3. CASE m.st = "down" /\ m.wallets = Daemons!Users /\ n = AllReady
    <3>1. Daemons!Then(p, Daemons!start_daemon)
      BY <1>8, <2>3, StateIs DEF Now
    <3>2. Goes(Mode("down", m.loaded, {"miner", "bob", "alice"}), Daemons!start_daemon \o t)
      BY <1>6, <2>3, StartServes, ModeParts
    <3>3. m = Mode("down", m.loaded, {"miner", "bob", "alice"})
      BY <2>3, SameMode, UsersAre
    <3> QED
      BY <1>1, <1>2, <1>5, <3>1, <3>2, <3>3, ThenIs, NowOn, AheadOn
  <2>4. CASE m = AllReady /\ n = m
    <3>1. m.st = "ready"
      BY <2>4 DEF AllReady, Mode
    <3>2. Daemons!state # "stopped"
      BY <3>1, StateIs DEF Now
    <3> QED
      BY <1>7, <1>8, <2>4, <3>2
  <2> QED
    BY <2>2, <2>3, <2>4
<1>9. CASE Daemons!Is(p, "stop?") /\ Daemons!Then(p, IF Daemons!state # "stopped" THEN <<<<"rpc", "stop", "">>>> ELSE <<>>)
  <2>1. s[1] = "stop?"
    BY <1>3, <1>9 DEF Daemons!Is
  <2>2. m.st = "absent" /\ n = m
    BY <1>4, <2>1, Zenon DEF Words
  <2>3. Daemons!state = "stopped"
    BY <2>2, StateIs DEF Now
  <2> QED
    BY <1>7, <1>9, <2>2, <2>3
<1>10. CASE Daemons!Is(p, "up?") /\ (IF Daemons!state = "stopped" THEN Daemons!Fail(p) ELSE Daemons!Then(p, <<>>))
  <2>1. s[1] = "up?"
    BY <1>3, <1>10 DEF Daemons!Is
  <2>2. m.st = "ready" /\ n = m
    BY <1>4, <2>1, Zenon DEF Words
  <2>3. Daemons!state # "stopped"
    BY <2>2, StateIs DEF Now
  <2> QED
    BY <1>7, <1>10, <2>2, <2>3
<1>11. CASE /\ Daemons!Is(p, "rpc")
            /\ LET call == <<"call", Daemons!Arg(p, 2), Daemons!Arg(p, 3)>> IN
               Daemons!Then(p, IF Daemons!state = "stopped" THEN Append(Daemons!start_daemon, call) ELSE <<call>>)
  <2>1. s[1] = "rpc"
    BY <1>3, <1>11 DEF Daemons!Is
  <2>2. PICK x \in Asked : s = <<"rpc", x[1], x[2]>>
    BY <1>2, <1>3, <2>1, HeadIs
  <2>3. s[2] = x[1] /\ s[3] = x[2]
    BY <2>2
  <2>4. PICK c \in RegtestSteps : c = <<"call", x[1], x[2]>>
    BY RequestSteps
  <2>5. Daemons!Then(p, IF Daemons!state = "stopped" THEN Append(Daemons!start_daemon, c) ELSE <<c>>)
    BY <1>3, <1>11, <2>3, <2>4 DEF Daemons!Arg
  <2>6. \/ m.st = "ready" /\ CallLeads(m, s[2], s[3], n)
        \/ m.st = "down" /\ m.wallets = Daemons!Users /\ CallLeads(AllReady, s[2], s[3], n)
    BY <1>4, <2>1, Zenon DEF Words
  <2>7. CASE m.st = "ready" /\ CallLeads(m, s[2], s[3], n)
    <3>1. Leads(m, c, n)
      BY <2>3, <2>4, <2>7, Zenon DEF Leads
    <3>2. Daemons!Then(p, <<c>>)
      <4>1. Daemons!state # "stopped"
        BY <2>7, StateIs DEF Now
      <4> QED
        BY <2>5, <4>1
    <3>3. Goes(m, <<c>> \o t)
      BY <1>6, <3>1, GoesCons
    <3> QED
      BY <1>1, <1>2, <1>5, <3>2, <3>3, ThenIs, NowOn, AheadOn
  <2>8. CASE m.st = "down" /\ m.wallets = Daemons!Users /\ CallLeads(AllReady, s[2], s[3], n)
    <3>1. Leads(AllReady, c, n)
      BY <2>3, <2>4, <2>8, Zenon DEF Leads
    <3>2. Daemons!Then(p, Append(Daemons!start_daemon, c))
      <4>1. Daemons!state = "stopped"
        BY <2>8, StateIs DEF Now
      <4> QED
        BY <2>5, <4>1
    <3>3. Goes(AllReady, <<c>> \o t)
      BY <1>6, <3>1, GoesCons, ModesAre
    <3>4. Fit("regtest", <<c>> \o t)
      <4>1. c \in Requests
        BY <2>4 DEF Requests
      <4> QED
        BY <1>6, <4>1, NoStarts, PlainCons
    <3>5. Goes(Mode("down", m.loaded, {"miner", "bob", "alice"}), Daemons!start_daemon \o (<<c>> \o t))
      BY <3>3, <3>4, StartServes, ModeParts
    <3>6. m = Mode("down", m.loaded, {"miner", "bob", "alice"})
      BY <2>8, SameMode, UsersAre
    <3>7. Append(Daemons!start_daemon, c) \o t = Daemons!start_daemon \o (<<c>> \o t)
      BY <1>6, Appends
    <3>8. pc' = pc /\ todo'[p] = Append(Daemons!start_daemon, c) \o t
      BY <1>2, <1>5, <3>2, ThenIs
    <3> QED
      BY <1>1, <3>5, <3>6, <3>7, <3>8, NowOn, AheadOn
  <2> QED
    BY <2>6, <2>7, <2>8
<1> QED
  BY <1>8, <1>9, <1>10, <1>11 DEF Daemons!Decide

LEMMA CallAhead ==
    ASSUME ShapeInv, NEW p \in Procs, NEW m \in Modes, Now(m), Goes(m, todo[p]), Daemons!Call(p)
    PROVE  pc' = pc /\ Ahead(p)'
<1>1. todo[p] # <<>> /\ Head(todo[p])[1] = "call"
  BY DEF Daemons!Call, Daemons!Is
<1>2. PICK s : s = Head(todo[p])
  OBVIOUS
<1>3. PICK n \in Modes : Words(m, s, n) /\ Goes(n, Tail(todo[p]))
  BY <1>1, <1>2, AtMode
<1>4. PICK what, who : what = s[2] /\ who = s[3]
  OBVIOUS
<1>5. CallLeads(m, what, who, n)
  BY <1>1, <1>2, <1>3, <1>4, Zenon DEF Words
<1>6. m.st = "ready"
  BY <1>5 DEF CallLeads
<1>7. daemon.state = "ready" /\ daemon.loaded = m.loaded /\ disk.wallets = m.wallets
  BY <1>6 DEF Now
<1>8. Daemons!Arg(p, 2) = what /\ Daemons!Arg(p, 3) = who
  BY <1>2, <1>4 DEF Daemons!Arg
<1>9. ASSUME Daemons!Then(p, <<>>), Now(n)' PROVE pc' = pc /\ Ahead(p)'
  BY <1>1, <1>3, <1>9, ThenIs, AheadOn
<1>10. CASE what = "stop"
  <2>1. n = Mode("stopping", m.loaded, m.wallets)
    BY <1>5, <1>10 DEF CallLeads
  <2>2. n.st = "stopping" /\ n.wallets = m.wallets
    BY <2>1 DEF Mode
  <2>3. daemon' = [daemon EXCEPT !.state = "stopping"] /\ Daemons!Then(p, <<>>) /\ disk' = disk
    BY <1>7, <1>8, <1>10 DEF Daemons!Call
  <2>4. daemon'.state = "stopping"
    BY <2>3 DEF ShapeInv
  <2>5. Now(n)'
    BY <1>7, <2>2, <2>3, <2>4 DEF Now
  <2> QED
    BY <1>9, <2>3, <2>5
<1>11. CASE what = "loadwallet"
  <2>1. who \in m.wallets \ m.loaded /\ n = Mode("ready", m.loaded \union {who}, m.wallets)
    BY <1>5, <1>11 DEF CallLeads
  <2>2. n.st = "ready" /\ n.wallets = m.wallets /\ n.loaded = m.loaded \union {who}
    BY <2>1 DEF Mode
  <2>3. daemon' = [daemon EXCEPT !.loaded = @ \union {who}] /\ Daemons!Then(p, <<>>) /\ disk' = disk
    BY <1>7, <1>8, <1>11, <2>1 DEF Daemons!Call
  <2>4. daemon'.state = "ready" /\ daemon'.loaded = daemon.loaded \union {who}
    BY <1>7, <2>3 DEF ShapeInv
  <2>5. Now(n)'
    BY <1>7, <2>2, <2>3, <2>4 DEF Now
  <2> QED
    BY <1>9, <2>3, <2>5
<1>12. CASE what = "createwallet"
  <2>1. who \notin m.wallets /\ n = Mode("ready", m.loaded \union {who}, m.wallets \union {who})
    BY <1>5, <1>12 DEF CallLeads
  <2>2. n.st = "ready" /\ n.wallets = m.wallets \union {who} /\ n.loaded = m.loaded \union {who}
    BY <2>1 DEF Mode
  <2>3. /\ daemon' = [daemon EXCEPT !.loaded = @ \union {who}] /\ Daemons!Then(p, <<>>)
        /\ disk' = [disk EXCEPT !.wallets = @ \union {who}, !.made = TRUE]
    BY <1>7, <1>8, <1>12, <2>1 DEF Daemons!Call
  <2>4. daemon'.state = "ready" /\ daemon'.loaded = daemon.loaded \union {who}
    BY <1>7, <2>3 DEF ShapeInv
  <2>5. disk'.wallets = disk.wallets \union {who}
    BY <2>3 DEF ShapeInv
  <2>6. Now(n)'
    BY <1>7, <2>2, <2>4, <2>5 DEF Now
  <2> QED
    BY <1>9, <2>3, <2>6
<1>13. CASE what \notin {"stop", "loadwallet", "createwallet"}
  <2>1. who \in m.loaded /\ n = m
    BY <1>5, <1>13 DEF CallLeads
  <2>2. daemon' = daemon /\ Daemons!Then(p, <<>>) /\ disk' = [disk EXCEPT !.height = @ + Daemons!Blocks(what)]
    BY <1>7, <1>8, <1>13, <2>1 DEF Daemons!Call
  <2>3. disk'.wallets = disk.wallets
    BY <2>2 DEF ShapeInv
  <2>4. Now(n)'
    BY <1>6, <1>7, <2>1, <2>2, <2>3 DEF Now
  <2> QED
    BY <1>9, <2>2, <2>4
<1> QED
  BY <1>10, <1>11, <1>12, <1>13

LEMMA ClientAhead ==
    ASSUME ShapeInv, NEW p \in Procs, NEW m \in Modes, Now(m), Goes(m, todo[p]), Daemons!client(p), Clear(p)
    PROVE  pc' = pc /\ Ahead(p)'
<1>1. disk' = disk
  BY DEF Daemons!client
<1>2. todo[p] # <<>> /\ Head(todo[p])[1] \in {"connect", "chain", "version"}
  BY DEF Daemons!client, Daemons!Is
<1>3. PICK s : s = Head(todo[p])
  OBVIOUS
<1>4. PICK n \in Modes : Words(m, s, n) /\ Goes(n, Tail(todo[p]))
  BY <1>2, <1>3, AtMode
<1>5. m.st = "ready" /\ n = m
  BY <1>2, <1>3, <1>4, Zenon DEF Words
<1>6. daemon.state = "ready"
  BY <1>5 DEF Now
<1>7. Daemons!Then(p, <<>>) /\ daemon' = daemon
  BY <1>6 DEF Daemons!client, Clear
<1> QED
  BY <1>1, <1>2, <1>4, <1>5, <1>7, ThenIs, NowOn, AheadOn

LEMMA CheckAhead ==
    ASSUME ShapeInv, NEW p \in Procs, NEW m \in Modes, Now(m), Goes(m, todo[p]), Daemons!check_or_create_daemon_wallet(p)
    PROVE  pc' = pc /\ Ahead(p)'
<1>1. disk' = disk /\ daemon' = daemon
  BY DEF Daemons!check_or_create_daemon_wallet
<1>2. todo[p] # <<>> /\ Head(todo[p])[1] \in {"listwallets", "listwalletdir"}
  BY DEF Daemons!check_or_create_daemon_wallet, Daemons!Is
<1>3. PICK s : s = Head(todo[p])
  OBVIOUS
<1>4. PICK n \in Modes : Words(m, s, n) /\ Goes(n, Tail(todo[p]))
  BY <1>2, <1>3, AtMode
<1>5. PICK t : t = Tail(todo[p])
  OBVIOUS
<1>6. t \in Seq(ClientSteps) /\ Goes(n, t)
  <2>1. chain.net = "mainnet"
    BY <1>2, HeadIs
  <2> QED
    BY <1>2, <1>4, <1>5, <2>1, AtHead, StepsAre
<1>7. /\ m.st = "ready"
      /\ \/ s[1] = "listwallets" /\ "own" \in m.loaded /\ n = m
         \/ "own" \notin m.loaded /\ n = Mode("ready", m.loaded \union {"own"}, m.wallets \union {"own"})
  BY <1>2, <1>3, <1>4, Zenon DEF Words
<1>8. daemon.state = "ready" /\ daemon.loaded = m.loaded /\ disk.wallets = m.wallets
  BY <1>7 DEF Now
<1>9. ASSUME NEW c \in ClientSteps, Daemons!Then(p, <<c>>), Leads(m, c, n) PROVE pc' = pc /\ Ahead(p)'
  <2>1. Goes(m, <<c>> \o t)
    BY <1>6, <1>9, GoesCons
  <2> QED
    BY <1>1, <1>2, <1>5, <1>9, <2>1, ThenIs, NowOn, AheadOn
<1>10. CASE s[1] = "listwallets" /\ "own" \in m.loaded /\ n = m
  <2>1. Daemons!Then(p, <<>>)
    BY <1>3, <1>8, <1>10 DEF Daemons!check_or_create_daemon_wallet, Daemons!Is
  <2> QED
    BY <1>1, <1>2, <1>4, <1>10, <2>1, ThenIs, NowOn, AheadOn
<1>11. CASE "own" \notin m.loaded /\ n = Mode("ready", m.loaded \union {"own"}, m.wallets \union {"own"})
  <2>1. CASE s[1] = "listwallets"
    <3>1. Daemons!Then(p, <<<<"listwalletdir">>>>)
      BY <1>3, <1>8, <1>11, <2>1 DEF Daemons!check_or_create_daemon_wallet, Daemons!Is
    <3>2. <<"listwalletdir">> \in ClientSteps
      BY Zenon DEF ClientSteps, OwnSteps
    <3>3. Leads(m, <<"listwalletdir">>, n)
      BY <1>7, <1>11, Zenon DEF Leads
    <3> QED
      BY <1>9, <3>1, <3>2, <3>3
  <2>2. CASE s[1] = "listwalletdir"
    <3>1. Daemons!Then(p, <<<<"call", IF "own" \in disk.wallets THEN "loadwallet" ELSE "createwallet", "own">>>>)
      BY <1>3, <1>8, <2>2 DEF Daemons!check_or_create_daemon_wallet, Daemons!Is
    <3>2. <<"call", "loadwallet", "own">> \in ClientSteps /\ <<"call", "createwallet", "own">> \in ClientSteps
      BY Zenon DEF ClientSteps, OwnSteps, LoadsOf
    <3>3. CASE "own" \in disk.wallets
      <4>1. m.wallets \union {"own"} = m.wallets
        BY <1>8, <3>3
      <4>2. CallLeads(m, "loadwallet", "own", n)
        BY <1>7, <1>8, <1>11, <3>3, <4>1, Zenon DEF CallLeads
      <4>3. Leads(m, <<"call", "loadwallet", "own">>, n)
        BY <4>2, Zenon DEF Leads
      <4> QED
        BY <1>9, <3>1, <3>2, <3>3, <4>3
    <3>4. CASE "own" \notin disk.wallets
      <4>1. CallLeads(m, "createwallet", "own", n)
        BY <1>7, <1>8, <1>11, <3>4, Zenon DEF CallLeads
      <4>2. Leads(m, <<"call", "createwallet", "own">>, n)
        BY <4>1, Zenon DEF Leads
      <4> QED
        BY <1>9, <3>1, <3>2, <3>4, <4>2
    <3> QED
      BY <3>3, <3>4
  <2> QED
    BY <1>2, <1>3, <2>1, <2>2
<1> QED
  BY <1>7, <1>10, <1>11
(* The steps of a command that is running.                                 *)
StepOf(p) ==
    \/ Daemons!start(p) \/ Daemons!run_cmd(p) \/ Daemons!wait_for_state(p) \/ Daemons!stop(p) \/ Daemons!sleep(p)
    \/ Daemons!Decide(p) \/ Daemons!create_data_dir(p) \/ Daemons!Call(p) \/ Daemons!client(p)
    \/ Daemons!check_or_create_daemon_wallet(p)

LEMMA StepOfStepped == ASSUME ShapeInv, NEW p \in Procs, StepOf(p) PROVE Stepped(p)
BY StartStepped, RunStepped, WaitStepped, StopStepped, SleepStepped, DecideStepped, DirStepped, CallStepped,
   ClientStepped, CheckStepped DEF StepOf

LEMMA StepOfAhead ==
    ASSUME ShapeInv, NEW p \in Procs, StepOf(p), Ahead(p), chain.net = "mainnet" => Clear(p)
    PROVE  pc' = pc /\ Ahead(p)'
<1>1. PICK m \in Modes : Now(m) /\ Goes(m, todo[p])
  BY DEF Ahead
<1>2. CASE Daemons!client(p)
  <2>1. todo[p] # <<>> /\ Head(todo[p])[1] \in {"connect", "chain", "version"}
    BY <1>2 DEF Daemons!client, Daemons!Is
  <2>2. Clear(p)
    BY <2>1, HeadIs
  <2> QED
    BY <1>1, <1>2, <2>2, ClientAhead
<1>3. CASE ~Daemons!client(p)
  BY <1>1, <1>3, StartAhead, RunAhead, WaitAhead, StopAhead, SleepAhead, DecideAhead, DirAhead, CallAhead, CheckAhead DEF StepOf
<1> QED
  BY <1>2, <1>3

LEMMA SteppedClean ==
    ASSUME ShapeInv, CleanInv, NEW p \in Procs, StepOf(p)
    PROVE  CleanInv'
<1>1. Stepped(p)
  BY StepOfStepped
<1>2. pc[p] = "runs" /\ UNCHANGED <<cmd, chain, faults, clean>> /\ p \in Daemons!Running
  BY <1>1 DEF Stepped, Daemons!Running
<1>3. ASSUME NEW q \in clean, q # p PROVE pc[q] = "done" /\ pc'[q] = "done"
  <2>1. pc[q] # "runs"
    BY <1>2, <1>3 DEF CleanInv
  <2>2. q \in Procs /\ pc[q] = "done"
    BY <2>1 DEF CleanInv, ShapeInv
  <2>3. pc'[q] = pc[q]
    BY <1>1, <1>3, <2>2 DEF Stepped, ShapeInv
  <2> QED
    BY <2>2, <2>3
<1>4. CASE p \in clean
  <2>1. Daemons!Running = {p} /\ Ahead(p) /\ (chain.net = "mainnet" => Clear(p))
    BY <1>2, <1>4 DEF CleanInv
  <2>2. pc' = pc /\ Ahead(p)'
    BY <2>1, StepOfAhead
  <2>3. Daemons!Running' = {p}
    BY <2>1, <2>2 DEF Daemons!Running
  <2>4. chain'.net = "mainnet" => Clear(p)'
    BY <1>2, <2>1 DEF Clear, Daemons!set_auth, Daemons!Accepted, Daemons!FirstOf
  <2> QED
    BY <1>2, <1>3, <2>2, <2>3, <2>4 DEF CleanInv
<1>5. CASE p \notin clean
  BY <1>2, <1>3, <1>5 DEF CleanInv
<1> QED
  BY <1>4, <1>5

LEMMA RipeAhead ==
    ASSUME ShapeInv, NEW name \in Daemons!CommandNames, name \in Daemons!ClientNames <=> chain.net = "mainnet", Daemons!Ripe(name)
    PROVE  \E m \in Modes : Now(m) /\ Goes(m, Daemons!Steps(name))
<1>1. daemon.loaded \in SUBSET {"miner", "bob", "alice", "own"} /\ disk.wallets \in SUBSET {"miner", "bob", "alice", "own"}
  BY UsersAre DEF ShapeInv, Owners
<1>2. PICK M : M = SUBSET {"miner", "bob", "alice", "own"}
  OBVIOUS
<1>3. {} \in M /\ Daemons!Users \in M
  BY <1>2, UsersAre
<1>4. CASE name \in {"setup", "setup on"}
  <2>1. daemon.state = "down" /\ ~disk.made /\ disk.wallets = {}
    BY <1>4 DEF Daemons!Ripe, ShapeInv
  <2>2. Now(Mode("absent", {}, {}))
    BY <2>1 DEF Now, Mode
  <2> QED
    BY <1>2, <1>3, <1>4, <2>2, CommandServes, ModesAre
<1>5. CASE name \in {"start", "stop", "send", "balances", "generate"}
  <2>1. disk.wallets = Daemons!Users /\ Daemons!Settled /\ (name = "generate" => daemon.state = "ready")
    BY <1>5 DEF Daemons!Ripe
  <2>2. chain.net = "regtest"
    BY <1>5 DEF ShapeInv, Daemons!ClientNames
  <2>3. CASE daemon.state = "down"
    <3>1. Now(Mode("down", {}, Daemons!Users))
      BY <2>1, <2>3 DEF Now, Mode
    <3>2. name \in {"start", "stop", "send", "balances"}
      BY <1>5, <2>1, <2>3
    <3> QED
      BY <1>2, <1>3, <3>1, <3>2, CommandServes, ModesAre
  <2>4. CASE daemon.state = "ready"
    <3>1. daemon.loaded = Daemons!Users
      BY <2>1, <2>2, <2>4 DEF Daemons!Settled
    <3>2. Now(AllReady)
      BY <2>1, <2>4, <3>1 DEF Now, AllReady, Mode
    <3>3. Goes(AllReady, Daemons!Steps(name))
      BY <1>2, <1>3, <1>5, CommandServes
    <3> QED
      BY <3>2, <3>3, ModesAre
  <2> QED
    BY <2>1, <2>3, <2>4 DEF Daemons!Settled
<1>6. CASE name \in Daemons!ClientNames
  <2>1. daemon.state = "ready"
    BY <1>6 DEF Daemons!Ripe
  <2>2. Now(Mode("ready", daemon.loaded, disk.wallets))
    BY <2>1 DEF Now, Mode
  <2>3. Goes(Mode("ready", daemon.loaded, disk.wallets), Daemons!Steps(name))
    BY <1>1, <1>6, ClientServes DEF Daemons!ClientNames
  <2> QED
    BY <1>1, <2>2, <2>3, ModesAre
<1> QED
  BY <1>4, <1>5, <1>6 DEF Daemons!CommandNames, Daemons!ClientNames

(* With the user and password of the daemon, or none, a client is let in.  *)
LEMMA MatchingAccepted == Daemons!Matching => Daemons!set_auth = Daemons!Accepted
<1> SUFFICES ASSUME Daemons!Matching PROVE Daemons!set_auth = Daemons!Accepted
  OBVIOUS
<1>1. PICK a, b, c : a = chain.creds[1] /\ b = chain.creds[2] /\ c = chain.creds[3]
  OBVIOUS
<1>2. \A field \in {"user", "passwd"} : a[field] \in {"", c[field]} /\ b[field] \in {"", c[field]}
  <2>1. \A n \in 1 .. 2 : \A field \in {"user", "passwd"} : chain.creds[n][field] \in {"", chain.creds[3][field]}
    BY DEF Daemons!Matching
  <2>2. 1 \in 1 .. 2 /\ 2 \in 1 .. 2
    OBVIOUS
  <2> QED
    BY <1>1, <2>1, <2>2, Zenon
<1>3. \A field \in {"user", "passwd"} : Daemons!FirstOf(field) = c[field]
  BY <1>1, <1>2 DEF Daemons!FirstOf
<1>4. Daemons!FirstOf("user") = c.user /\ Daemons!FirstOf("passwd") = c.passwd
  BY <1>3
<1>5. Daemons!set_auth = IF c.user # "" /\ c.passwd # "" THEN [user |-> c.user, passwd |-> c.passwd]
                         ELSE [user |-> "cookie", passwd |-> "cookie"]
  BY <1>4 DEF Daemons!set_auth
<1> QED
  BY <1>1, <1>5 DEF Daemons!Accepted
LEMMA BeginClean ==
    ASSUME ShapeInv, Daemons!DaemonsAssumption, CleanInv, NEW p \in Procs, Daemons!Begin(p)
    PROVE  CleanInv'
<1>1. PICK name \in Commands : /\ name \in Daemons!ClientNames <=> chain.net = "mainnet"
                               /\ cmd' = [cmd EXCEPT ![p] = name] /\ todo' = [todo EXCEPT ![p] = Daemons!Steps(name)]
  BY DEF Daemons!Begin
<1>2. name \in Daemons!CommandNames
  BY DEF Daemons!DaemonsAssumption
<1>3. pc[p] = "idle" /\ UNCHANGED <<daemon, disk, chain, faults>> /\ pc' = [pc EXCEPT ![p] = "runs"]
  BY DEF Daemons!Begin
<1>4. p \notin clean /\ cmd'[p] = name /\ todo'[p] = Daemons!Steps(name) /\ pc'[p] = "runs"
  <2>1. todo = [q \in Procs |-> todo[q]] /\ cmd \in [Procs -> Daemons!CommandNames \union {""}]
    BY DEF ShapeInv
  <2>2. pc \in [Procs -> {"idle", "runs", "done", "failed", "killed"}]
    BY DEF ShapeInv
  <2> QED
    BY <1>1, <1>3, <2>1, <2>2 DEF CleanInv
<1>5. ASSUME NEW q \in clean, pc[q] # "runs" PROVE pc'[q] = "done"
  BY <1>3, <1>4, <1>5 DEF CleanInv, ShapeInv
<1>6. CASE Daemons!Running # {}
  <2>1. clean' = clean \ Daemons!Running
    BY <1>6 DEF Daemons!Begin
  <2>2. \A q \in clean' : q \in clean /\ pc[q] # "runs"
    BY <2>1 DEF Daemons!Running, ShapeInv
  <2> QED
    BY <1>5, <2>2 DEF CleanInv
<1>7. CASE Daemons!Running = {}
  <2>1. \A q \in clean : pc'[q] = "done"
    BY <1>5, <1>7 DEF CleanInv
  <2>2. Daemons!Running' = {p}
    <3>1. \A q \in Procs : pc[q] # "runs"
      BY <1>7 DEF Daemons!Running
    <3>2. pc' = [q \in Procs |-> IF q = p THEN "runs" ELSE pc[q]]
      BY <1>3 DEF ShapeInv
    <3>3. \A q \in Procs : pc'[q] = "runs" <=> q = p
      BY <3>1, <3>2
    <3> QED
      BY <3>3 DEF Daemons!Running
  <2>3. clean' = clean \/ (clean' = clean \union {p} /\ Daemons!Ripe(name))
    BY <1>4, <1>7 DEF Daemons!Begin
  <2>4. CASE clean' = clean
    BY <2>1, <2>4 DEF CleanInv
  <2>5. CASE clean' = clean \union {p} /\ Daemons!Ripe(name)
    <3>1. PICK m \in Modes : Now(m) /\ Goes(m, Daemons!Steps(name))
      BY <1>1, <1>2, <2>5, RipeAhead
    <3>2. Ahead(p)'
      BY <1>3, <1>4, <3>1, NowOn, AheadOn
    <3>3. ASSUME chain'.net = "mainnet" PROVE Clear(p)'
      <4>1. name \in Daemons!ClientNames
        BY <1>1, <1>3, <3>3
      <4>2. Daemons!OwnChain(chain) /\ Daemons!Matching /\ (chain.version <= Daemons!tested_version \/ name = "client any version")
        BY <2>5, <4>1 DEF Daemons!Ripe
      <4>3. Daemons!set_auth = Daemons!Accepted
        BY <4>2, MatchingAccepted
      <4>4. Daemons!set_auth' = Daemons!Accepted'
        BY <1>3, <4>3 DEF Daemons!set_auth, Daemons!Accepted, Daemons!FirstOf
      <4> QED
        BY <1>3, <1>4, <4>2, <4>4 DEF Clear
    <3> QED
      BY <1>4, <2>1, <2>2, <2>5, <3>2, <3>3 DEF CleanInv
  <2> QED
    BY <2>3, <2>4, <2>5
<1> QED
  BY <1>6, <1>7

LEMMA EndClean == ASSUME ShapeInv, CleanInv, NEW p \in Procs, Daemons!End(p) PROVE CleanInv'
<1>1. pc[p] = "runs" /\ pc' = [pc EXCEPT ![p] = "done"] /\ clean' = clean /\ p \in Daemons!Running
  BY DEF Daemons!End, Daemons!Running
<1>2. ASSUME NEW q \in clean PROVE pc'[q] = "done"
  <2>1. q \in Procs /\ (q # p => pc[q] = "done")
    BY <1>1, <1>2 DEF CleanInv, ShapeInv
  <2> QED
    BY <1>1, <2>1 DEF ShapeInv
<1> QED
  BY <1>1, <1>2 DEF CleanInv

LEMMA GoesOnClean == ASSUME ShapeInv, CleanInv, Daemons!DaemonGoesOn PROVE CleanInv'
<1>1. UNCHANGED <<cmd, todo, pc, chain, faults, clean>>
  BY DEF Daemons!DaemonGoesOn
<1>2. disk'.wallets = disk.wallets
  BY DEF Daemons!DaemonGoesOn, ShapeInv
<1>3. \/ daemon.state = "launching" /\ daemon'.state = "warmup" /\ daemon'.loaded = daemon.loaded
      \/ daemon.state = "warmup" /\ daemon'.state = "ready" /\ daemon'.loaded = daemon.loaded
      \/ daemon.state = "stopping" /\ daemon'.state = "down"
  <2>1. daemon = [state |-> daemon.state, loaded |-> daemon.loaded]
    BY DEF ShapeInv
  <2>2. \/ daemon.state = "launching" /\ daemon' = [daemon EXCEPT !.state = "warmup"]
        \/ daemon.state = "warmup" /\ daemon' = [daemon EXCEPT !.state = "ready"]
        \/ daemon.state = "stopping" /\ daemon' = [state |-> "down", loaded |-> {}]
    BY DEF Daemons!DaemonGoesOn
  <2>3. CASE daemon.state = "launching" /\ daemon' = [daemon EXCEPT !.state = "warmup"]
    BY <2>1, <2>3
  <2>4. CASE daemon.state = "warmup" /\ daemon' = [daemon EXCEPT !.state = "ready"]
    BY <2>1, <2>4
  <2>5. CASE daemon.state = "stopping" /\ daemon' = [state |-> "down", loaded |-> {}]
    BY <2>5
  <2> QED
    BY <2>2, <2>3, <2>4, <2>5
<1>4. ASSUME NEW m \in Modes, Now(m) PROVE Now(m)'
  BY <1>2, <1>3, <1>4 DEF Now
<1>5. \A p \in Procs : Ahead(p) => Ahead(p)'
  BY <1>1, <1>4 DEF Ahead
<1>6. \A p \in Procs : Clear(p) => Clear(p)'
  BY <1>1 DEF Clear, Daemons!set_auth, Daemons!Accepted, Daemons!FirstOf
<1>7. Daemons!Running' = Daemons!Running /\ clean \subseteq Procs
  BY <1>1 DEF Daemons!Running, ShapeInv
<1> QED
  BY <1>1, <1>5, <1>6, <1>7 DEF CleanInv

LEMMA NextClean ==
    ASSUME ShapeInv, Daemons!DaemonsAssumption, CleanInv, [Daemons!Next]_(Daemons!daemonVars)
    PROVE  CleanInv'
<1>1. CASE UNCHANGED Daemons!daemonVars
  <2>1. UNCHANGED <<cmd, todo, pc, daemon, disk, chain, clean>>
    BY <1>1 DEF Daemons!daemonVars
  <2>2. \A m \in Modes : Now(m) => Now(m)'
    BY <2>1 DEF Now
  <2>3. \A p \in Procs : Ahead(p) => Ahead(p)'
    BY <2>1, <2>2 DEF Ahead
  <2>4. \A p \in Procs : Clear(p) => Clear(p)'
    BY <2>1 DEF Clear, Daemons!set_auth, Daemons!Accepted, Daemons!FirstOf
  <2>5. Daemons!Running' = Daemons!Running /\ clean \subseteq Procs
    BY <2>1 DEF Daemons!Running, ShapeInv
  <2> QED
    BY <2>1, <2>3, <2>4, <2>5 DEF CleanInv
<1>2. CASE Daemons!Fault
  <2>1. clean' = {}
    BY <1>2 DEF Daemons!Fault
  <2> QED
    BY <2>1 DEF CleanInv
<1>3. ASSUME NEW p \in Procs, Daemons!Begin(p) \/ Daemons!End(p) \/ StepOf(p) PROVE CleanInv'
  BY <1>3, BeginClean, EndClean, SteppedClean
<1>4. CASE \E p \in Procs :
              \/ Daemons!Begin(p) \/ Daemons!End(p) \/ Daemons!start(p) \/ Daemons!run_cmd(p) \/ Daemons!wait_for_state(p)
              \/ Daemons!stop(p) \/ Daemons!sleep(p) \/ Daemons!Decide(p) \/ Daemons!create_data_dir(p) \/ Daemons!Call(p)
              \/ Daemons!client(p) \/ Daemons!check_or_create_daemon_wallet(p)
  BY <1>3, <1>4 DEF StepOf
<1> QED
  BY <1>1, <1>2, <1>4, GoesOnClean DEF Daemons!Next

LEMMA InitClean == Daemons!Init => CleanInv
BY DEF Daemons!Init, CleanInv

LEMMA CleanSuffices == CleanInv => Daemons!OnlyCrowdedFail
BY DEF CleanInv, Daemons!OnlyCrowdedFail
(* The ports and directories of each daemon, in full.                      *)
Daemon(x, y, z, s) == [coin |-> x, id |-> y, net |-> z, suite |-> s]

LEMMA DaemonParts ==
    \A x, y, z, s : /\ Daemon(x, y, z, s).coin = x /\ Daemon(x, y, z, s).id = y
                    /\ Daemon(x, y, z, s).net = z /\ Daemon(x, y, z, s).suite = s
BY DEF Daemon

SuiteDaemons ==
    {Daemon("BTC", "bitcoin_core", "mainnet", TRUE), Daemon("BTC", "bitcoin_core", "testnet", TRUE),
     Daemon("BCH", "bitcoin_cash_node", "mainnet", TRUE), Daemon("BCH", "bitcoin_cash_node", "testnet", TRUE),
     Daemon("LTC", "litecoin_core", "mainnet", TRUE), Daemon("LTC", "litecoin_core", "testnet", TRUE),
     Daemon("XMR", "monero", "mainnet", TRUE), Daemon("XMR", "monero", "testnet", TRUE),
     Daemon("ETH", "geth", "mainnet", TRUE), Daemon("ETH", "geth", "testnet", TRUE),
     Daemon("ETH", "reth", "mainnet", TRUE), Daemon("ETH", "reth", "testnet", TRUE),
     Daemon("ETC", "parity", "mainnet", TRUE), Daemon("ETC", "parity", "testnet", TRUE)}
RegtestDaemons ==
    {Daemon("BTC", "bitcoin_core", "regtest", TRUE), Daemon("BTC", "bitcoin_core", "regtest", FALSE),
     Daemon("BCH", "bitcoin_cash_node", "regtest", TRUE), Daemon("BCH", "bitcoin_cash_node", "regtest", FALSE),
     Daemon("LTC", "litecoin_core", "regtest", TRUE), Daemon("LTC", "litecoin_core", "regtest", FALSE)}

SuitePair(x) == x \in {<<"BTC", "bitcoin_core">>, <<"BCH", "bitcoin_cash_node">>, <<"LTC", "litecoin_core">>, <<"XMR", "monero">>,
               <<"ETH", "geth">>, <<"ETH", "reth">>, <<"ETC", "parity">>}
RegtestPair(x) == x \in {<<"BTC", "bitcoin_core">>, <<"BCH", "bitcoin_cash_node">>, <<"LTC", "litecoin_core">>}

IsSuite(x, z) == Daemon(x[1], x[2], z, TRUE) \in SuiteDaemons
IsRegtest(x, s) == Daemon(x[1], x[2], "regtest", s) \in RegtestDaemons

LEMMA SuiteOf == ASSUME NEW x, SuitePair(x) PROVE IsSuite(x, "mainnet") /\ IsSuite(x, "testnet")
<1>1. CASE x = <<"BTC", "bitcoin_core">>
  <2>1. x[1] = "BTC" /\ x[2] = "bitcoin_core"
    BY <1>1
  <2> QED
    BY <2>1, Zenon DEF SuiteDaemons, IsSuite
<1>2. CASE x = <<"BCH", "bitcoin_cash_node">>
  <2>1. x[1] = "BCH" /\ x[2] = "bitcoin_cash_node"
    BY <1>2
  <2> QED
    BY <2>1, Zenon DEF SuiteDaemons, IsSuite
<1>3. CASE x = <<"LTC", "litecoin_core">>
  <2>1. x[1] = "LTC" /\ x[2] = "litecoin_core"
    BY <1>3
  <2> QED
    BY <2>1, Zenon DEF SuiteDaemons, IsSuite
<1>4. CASE x = <<"XMR", "monero">>
  <2>1. x[1] = "XMR" /\ x[2] = "monero"
    BY <1>4
  <2> QED
    BY <2>1, Zenon DEF SuiteDaemons, IsSuite
<1>5. CASE x = <<"ETH", "geth">>
  <2>1. x[1] = "ETH" /\ x[2] = "geth"
    BY <1>5
  <2> QED
    BY <2>1, Zenon DEF SuiteDaemons, IsSuite
<1>6. CASE x = <<"ETH", "reth">>
  <2>1. x[1] = "ETH" /\ x[2] = "reth"
    BY <1>6
  <2> QED
    BY <2>1, Zenon DEF SuiteDaemons, IsSuite
<1>7. CASE x = <<"ETC", "parity">>
  <2>1. x[1] = "ETC" /\ x[2] = "parity"
    BY <1>7
  <2> QED
    BY <2>1, Zenon DEF SuiteDaemons, IsSuite
<1> QED
  BY <1>1, <1>2, <1>3, <1>4, <1>5, <1>6, <1>7, Zenon DEF SuitePair

LEMMA RegtestOf == ASSUME NEW x, RegtestPair(x) PROVE IsRegtest(x, TRUE) /\ IsRegtest(x, FALSE)
<1>1. CASE x = <<"BTC", "bitcoin_core">>
  <2>1. x[1] = "BTC" /\ x[2] = "bitcoin_core"
    BY <1>1
  <2> QED
    BY <2>1, Zenon DEF RegtestDaemons, IsRegtest
<1>2. CASE x = <<"BCH", "bitcoin_cash_node">>
  <2>1. x[1] = "BCH" /\ x[2] = "bitcoin_cash_node"
    BY <1>2
  <2> QED
    BY <2>1, Zenon DEF RegtestDaemons, IsRegtest
<1>3. CASE x = <<"LTC", "litecoin_core">>
  <2>1. x[1] = "LTC" /\ x[2] = "litecoin_core"
    BY <1>3
  <2> QED
    BY <2>1, Zenon DEF RegtestDaemons, IsRegtest
<1> QED
  BY <1>1, <1>2, <1>3, Zenon DEF RegtestPair

LEMMA KnownAre ==
    \A b \in Daemons!KnownDaemons :
        \/ \E z \in {"mainnet", "testnet"} : \E x : SuitePair(x) /\ b = Daemon(x[1], x[2], z, TRUE)
        \/ \E s \in BOOLEAN : \E x : RegtestPair(x) /\ b = Daemon(x[1], x[2], "regtest", s)
BY DEF Daemons!KnownDaemons, Daemon, SuitePair, RegtestPair

LEMMA DaemonsAre == \A b \in Daemons!KnownDaemons : b \in SuiteDaemons \union RegtestDaemons
<1>1. ASSUME NEW b, \E z \in {"mainnet", "testnet"} : \E x : SuitePair(x) /\ b = Daemon(x[1], x[2], z, TRUE)
      PROVE  b \in SuiteDaemons
  <2>1. PICK z \in {"mainnet", "testnet"} : \E x : SuitePair(x) /\ b = Daemon(x[1], x[2], z, TRUE)
    BY <1>1, Zenon
  <2>2. PICK x : SuitePair(x) /\ b = Daemon(x[1], x[2], z, TRUE)
    BY <2>1, Zenon
  <2>3. IsSuite(x, "mainnet") /\ IsSuite(x, "testnet")
    BY <2>2, SuiteOf, Zenon
  <2>4. IsSuite(x, z)
    BY <2>3, Zenon
  <2> QED
    BY <2>2, <2>4, Zenon DEF IsSuite
<1>2. ASSUME NEW b, \E s \in BOOLEAN : \E x : RegtestPair(x) /\ b = Daemon(x[1], x[2], "regtest", s)
      PROVE  b \in RegtestDaemons
  <2>1. PICK s \in BOOLEAN : \E x : RegtestPair(x) /\ b = Daemon(x[1], x[2], "regtest", s)
    BY <1>2, Zenon
  <2>2. PICK x : RegtestPair(x) /\ b = Daemon(x[1], x[2], "regtest", s)
    BY <2>1, Zenon
  <2>3. IsRegtest(x, TRUE) /\ IsRegtest(x, FALSE)
    BY <2>2, RegtestOf, Zenon
  <2>4. IsRegtest(x, s)
    BY <2>3, Zenon
  <2> QED
    BY <2>2, <2>4, Zenon DEF IsRegtest
<1> QED
  BY <1>1, <1>2, KnownAre
(* The daemon that has a port.                                             *)
OwnerOf(n) ==
    IF n = 9569 THEN Daemon("BTC", "bitcoin_core", "mainnet", TRUE)
    ELSE IF n = 19569 THEN Daemon("BTC", "bitcoin_core", "testnet", TRUE)
    ELSE IF n = 9669 THEN Daemon("BCH", "bitcoin_cash_node", "mainnet", TRUE)
    ELSE IF n = 19669 THEN Daemon("BCH", "bitcoin_cash_node", "testnet", TRUE)
    ELSE IF n = 10569 THEN Daemon("LTC", "litecoin_core", "mainnet", TRUE)
    ELSE IF n = 20569 THEN Daemon("LTC", "litecoin_core", "testnet", TRUE)
    ELSE IF n \in {19318, 20554} THEN Daemon("XMR", "monero", "mainnet", TRUE)
    ELSE IF n \in {39318, 40554} THEN Daemon("XMR", "monero", "testnet", TRUE)
    ELSE IF n \in {9982, 31740, 8751} THEN Daemon("ETH", "geth", "mainnet", TRUE)
    ELSE IF n \in {9992, 31750, 8761} THEN Daemon("ETH", "geth", "testnet", TRUE)
    ELSE IF n \in {10082, 31840, 8851} THEN Daemon("ETH", "reth", "mainnet", TRUE)
    ELSE IF n \in {10092, 31850, 8861} THEN Daemon("ETH", "reth", "testnet", TRUE)
    ELSE IF n \in {9882, 31640} THEN Daemon("ETC", "parity", "mainnet", TRUE)
    ELSE IF n \in {9892, 31650} THEN Daemon("ETC", "parity", "testnet", TRUE)
    ELSE IF n = 19680 THEN Daemon("BTC", "bitcoin_core", "regtest", TRUE)
    ELSE IF n = 18443 THEN Daemon("BTC", "bitcoin_core", "regtest", FALSE)
    ELSE IF n = 19780 THEN Daemon("BCH", "bitcoin_cash_node", "regtest", TRUE)
    ELSE IF n = 18543 THEN Daemon("BCH", "bitcoin_cash_node", "regtest", FALSE)
    ELSE IF n = 20680 THEN Daemon("LTC", "litecoin_core", "regtest", TRUE)
    ELSE IF n = 19443 THEN Daemon("LTC", "litecoin_core", "regtest", FALSE)
    ELSE Daemon("", "", "", FALSE)

Owned(b) == \A n \in Daemons!Ports(b) : OwnerOf(n) = b

LEMMA AllDaemonsAre ==
    /\ Daemons!all_daemons[1] = "openethereum" /\ Daemons!all_daemons[2] = "parity" /\ Daemons!all_daemons[3] = "geth"
    /\ Daemons!all_daemons[4] = "reth" /\ Daemons!all_daemons[5] = "erigon"
BY DEF Daemons!all_daemons

LEMMA AnyDaemon == \A n \in 1 .. 5 : n = 1 \/ n = 2 \/ n = 3 \/ n = 4 \/ n = 5
OBVIOUS

LEMMA NoEthereum ==
    ASSUME NEW b, b.id \in {"bitcoin_core", "bitcoin_cash_node", "litecoin_core", "monero"}
    PROVE  ~Daemons!IsEthereum(b)
<1>1. \A n \in 1 .. 5 : Daemons!all_daemons[n] \in {"openethereum", "parity", "geth", "reth", "erigon"}
  BY AllDaemonsAre, AnyDaemon, Zenon
<1> QED
  BY <1>1 DEF Daemons!IsEthereum

NumberOf(b) == CHOOSE n \in 1 .. 5 : Daemons!all_daemons[n] = b.id

LEMMA EthereumNumbers ==
    ASSUME NEW b
    PROVE  /\ b.id = "parity" => Daemons!IsEthereum(b) /\ NumberOf(b) = 2
           /\ b.id = "geth" => Daemons!IsEthereum(b) /\ NumberOf(b) = 3
           /\ b.id = "reth" => Daemons!IsEthereum(b) /\ NumberOf(b) = 4
<1>1. 2 \in 1 .. 5 /\ 3 \in 1 .. 5 /\ 4 \in 1 .. 5
  OBVIOUS
<1>2. ASSUME NEW k \in 1 .. 5, Daemons!all_daemons[k] = b.id, \A n \in 1 .. 5 : Daemons!all_daemons[n] = b.id => n = k
      PROVE  Daemons!IsEthereum(b) /\ NumberOf(b) = k
  BY <1>2 DEF Daemons!IsEthereum, NumberOf
<1>3. \A n \in 1 .. 5 : /\ Daemons!all_daemons[n] = "parity" => n = 2
                        /\ Daemons!all_daemons[n] = "geth" => n = 3
                        /\ Daemons!all_daemons[n] = "reth" => n = 4
  BY AllDaemonsAre, AnyDaemon, Zenon
<1> QED
  BY <1>1, <1>2, <1>3, AllDaemonsAre

LEMMA NoOffset == ASSUME NEW b, ~Daemons!IsEthereum(b) PROVE Daemons!port_offset(b) = 0
BY DEF Daemons!port_offset

LEMMA Offset ==
    ASSUME NEW b, Daemons!IsEthereum(b), b.suite
    PROVE  Daemons!port_offset(b) = 100 * (NumberOf(b) - 1) + Daemons!network_offset(b.net)
BY DEF Daemons!port_offset, NumberOf

LEMMA Adjusted == ASSUME NEW b, b.suite PROVE Daemons!ps_adj(b) = 1237
BY DEF Daemons!ps_adj

LEMMA Unadjusted == ASSUME NEW b, ~b.suite PROVE Daemons!ps_adj(b) = 0
BY DEF Daemons!ps_adj

LEMMA AnyPorts ==
    ASSUME NEW b, b.id \in {"bitcoin_core", "bitcoin_cash_node", "litecoin_core"}, NEW n \in Nat, Daemons!rpc_ports(b) = n,
           NEW k \in Nat, Daemons!ps_adj(b) = k
    PROVE  Daemons!Ports(b) = {n + k}
<1>1. ~Daemons!IsEthereum(b)
  BY NoEthereum
<1>2. Daemons!p2p_ports(b) = {} /\ Daemons!authrpc_ports(b) = {}
  BY <1>1 DEF Daemons!p2p_ports, Daemons!authrpc_ports
<1>3. Daemons!port_offset(b) = 0
  BY <1>1, NoOffset
<1>4. Daemons!rpc_port(b) = n + k
  BY <1>3 DEF Daemons!rpc_port
<1> QED
  BY <1>2, <1>4 DEF Daemons!Ports

LEMMA PlainPorts ==
    ASSUME NEW b, b.id \in {"bitcoin_core", "bitcoin_cash_node", "litecoin_core"}, b.suite, NEW n \in Nat, Daemons!rpc_ports(b) = n
    PROVE  Daemons!Ports(b) = {n + 1237}
<1>1. PICK k \in Nat : k = 1237
  OBVIOUS
<1>2. Daemons!ps_adj(b) = k
  BY <1>1, Adjusted
<1> QED
  BY <1>1, <1>2, AnyPorts

LEMMA OwnPorts ==
    ASSUME NEW b, b.id \in {"bitcoin_core", "bitcoin_cash_node", "litecoin_core"}, ~b.suite, NEW n \in Nat, Daemons!rpc_ports(b) = n
    PROVE  Daemons!Ports(b) = {n}
<1>1. PICK k \in Nat : k = 0
  OBVIOUS
<1>2. Daemons!ps_adj(b) = k
  BY <1>1, Unadjusted
<1>3. Daemons!Ports(b) = {n + k}
  BY <1>2, AnyPorts
<1> QED
  BY <1>1, <1>3

LEMMA MoneroPorts ==
    ASSUME NEW b, b.id = "monero", b.suite, b.net # "regtest", NEW n \in Nat, Daemons!rpc_ports(b) = n
    PROVE  Daemons!Ports(b) = {n + 1237, n + 2473}
<1>1. ~Daemons!IsEthereum(b)
  BY NoEthereum
<1>2. Daemons!port_offset(b) = 0 /\ Daemons!ps_adj(b) = 1237
  BY <1>1, NoOffset, Adjusted
<1>3. Daemons!rpc_port(b) = n + 0 + 1237
  BY <1>2 DEF Daemons!rpc_port
<1>4. Daemons!p2p_ports(b) = {n + 0 + 1237 - 1 + 1237} /\ Daemons!authrpc_ports(b) = {}
  BY <1>2, <1>3 DEF Daemons!p2p_ports, Daemons!authrpc_ports
<1>5. n + 0 + 1237 = n + 1237 /\ n + 0 + 1237 - 1 + 1237 = n + 2473
  OBVIOUS
<1> QED
  BY <1>3, <1>4, <1>5 DEF Daemons!Ports

LEMMA EthereumPorts ==
    ASSUME NEW b, b.suite, b.net # "regtest", Daemons!IsEthereum(b), NEW n \in Nat, Daemons!port_offset(b) = n,
           b.id \notin {"bitcoin_core", "bitcoin_cash_node", "litecoin_core", "monero"}
    PROVE  /\ b.id \in {"geth", "reth"} => Daemons!Ports(b) = {n + 9782, n + 31540, n + 8551}
           /\ b.id \notin {"geth", "reth"} => Daemons!Ports(b) = {n + 9782, n + 31540}
<1>1. Daemons!ps_adj(b) = 1237
  BY Adjusted
<1>2. Daemons!rpc_port(b) = 8545 + n + 1237
  BY <1>1 DEF Daemons!rpc_port, Daemons!rpc_ports
<1>3. Daemons!p2p_ports(b) = {30303 + n + 1237}
  BY <1>1 DEF Daemons!p2p_ports
<1>4. /\ b.id \in {"geth", "reth"} => Daemons!authrpc_ports(b) = {8551 + n}
      /\ b.id \notin {"geth", "reth"} => Daemons!authrpc_ports(b) = {}
  BY DEF Daemons!authrpc_ports
<1>5. 8545 + n + 1237 = n + 9782 /\ 30303 + n + 1237 = n + 31540 /\ 8551 + n = n + 8551
  OBVIOUS
<1> QED
  BY <1>2, <1>3, <1>4, <1>5 DEF Daemons!Ports

LEMMA PlainOwned ==
    ASSUME NEW b, b.id \in {"bitcoin_core", "bitcoin_cash_node", "litecoin_core"}, b.suite, NEW n \in Nat, Daemons!rpc_ports(b) = n,
           OwnerOf(n + 1237) = b
    PROVE  Owned(b)
BY PlainPorts DEF Owned

LEMMA OwnOwned ==
    ASSUME NEW b, b.id \in {"bitcoin_core", "bitcoin_cash_node", "litecoin_core"}, ~b.suite, NEW n \in Nat, Daemons!rpc_ports(b) = n,
           OwnerOf(n) = b
    PROVE  Owned(b)
BY OwnPorts DEF Owned

LEMMA MoneroOwned ==
    ASSUME NEW b, b.id = "monero", b.suite, b.net # "regtest", NEW n \in Nat, Daemons!rpc_ports(b) = n,
           OwnerOf(n + 1237) = b, OwnerOf(n + 2473) = b
    PROVE  Owned(b)
BY MoneroPorts DEF Owned

LEMMA EthereumOwned ==
    ASSUME NEW b, b.suite, b.net # "regtest", b.id \in {"parity", "geth", "reth"}, NEW k \in Nat, NumberOf(b) = k,
           NEW o \in Nat, Daemons!network_offset(b.net) = o, NEW n \in Nat, n = 100 * (k - 1) + o,
           OwnerOf(n + 9782) = b, OwnerOf(n + 31540) = b, b.id # "parity" => OwnerOf(n + 8551) = b
    PROVE  Owned(b)
<1>1. Daemons!IsEthereum(b)
  BY EthereumNumbers
<1>2. Daemons!port_offset(b) = n
  BY <1>1, Offset
<1>3. CASE b.id = "parity"
  BY <1>1, <1>2, <1>3, EthereumPorts DEF Owned
<1>4. CASE b.id \in {"geth", "reth"}
  BY <1>1, <1>2, <1>4, EthereumPorts DEF Owned
<1> QED
  BY <1>3, <1>4

LEMMA SuiteOwned == \A b \in SuiteDaemons : Owned(b)
<1>1. Owned(Daemon("BTC", "bitcoin_core", "mainnet", TRUE))
  <2>1. PICK b : b = Daemon("BTC", "bitcoin_core", "mainnet", TRUE)
    OBVIOUS
  <2>2. b.id = "bitcoin_core" /\ b.net = "mainnet" /\ b.suite
    BY <2>1 DEF Daemon
  <2>3. Daemons!rpc_ports(b) = 8332
    BY <2>2 DEF Daemons!rpc_ports, Daemons!On
  <2>4. PICK n \in Nat : n = 8332
    OBVIOUS
  <2>5. OwnerOf(n + 1237) = b
    BY <2>1, <2>4 DEF OwnerOf
  <2>6. Owned(b)
    BY <2>2, <2>3, <2>4, <2>5, PlainOwned
  <2> QED
    BY <2>1, <2>6, Zenon
<1>2. Owned(Daemon("BTC", "bitcoin_core", "testnet", TRUE))
  <2>1. PICK b : b = Daemon("BTC", "bitcoin_core", "testnet", TRUE)
    OBVIOUS
  <2>2. b.id = "bitcoin_core" /\ b.net = "testnet" /\ b.suite
    BY <2>1 DEF Daemon
  <2>3. Daemons!rpc_ports(b) = 18332
    BY <2>2 DEF Daemons!rpc_ports, Daemons!On
  <2>4. PICK n \in Nat : n = 18332
    OBVIOUS
  <2>5. OwnerOf(n + 1237) = b
    BY <2>1, <2>4 DEF OwnerOf
  <2>6. Owned(b)
    BY <2>2, <2>3, <2>4, <2>5, PlainOwned
  <2> QED
    BY <2>1, <2>6, Zenon
<1>3. Owned(Daemon("BCH", "bitcoin_cash_node", "mainnet", TRUE))
  <2>1. PICK b : b = Daemon("BCH", "bitcoin_cash_node", "mainnet", TRUE)
    OBVIOUS
  <2>2. b.id = "bitcoin_cash_node" /\ b.net = "mainnet" /\ b.suite
    BY <2>1 DEF Daemon
  <2>3. Daemons!rpc_ports(b) = 8432
    BY <2>2 DEF Daemons!rpc_ports, Daemons!On
  <2>4. PICK n \in Nat : n = 8432
    OBVIOUS
  <2>5. OwnerOf(n + 1237) = b
    BY <2>1, <2>4 DEF OwnerOf
  <2>6. Owned(b)
    BY <2>2, <2>3, <2>4, <2>5, PlainOwned
  <2> QED
    BY <2>1, <2>6, Zenon
<1>4. Owned(Daemon("BCH", "bitcoin_cash_node", "testnet", TRUE))
  <2>1. PICK b : b = Daemon("BCH", "bitcoin_cash_node", "testnet", TRUE)
    OBVIOUS
  <2>2. b.id = "bitcoin_cash_node" /\ b.net = "testnet" /\ b.suite
    BY <2>1 DEF Daemon
  <2>3. Daemons!rpc_ports(b) = 18432
    BY <2>2 DEF Daemons!rpc_ports, Daemons!On
  <2>4. PICK n \in Nat : n = 18432
    OBVIOUS
  <2>5. OwnerOf(n + 1237) = b
    BY <2>1, <2>4 DEF OwnerOf
  <2>6. Owned(b)
    BY <2>2, <2>3, <2>4, <2>5, PlainOwned
  <2> QED
    BY <2>1, <2>6, Zenon
<1>5. Owned(Daemon("LTC", "litecoin_core", "mainnet", TRUE))
  <2>1. PICK b : b = Daemon("LTC", "litecoin_core", "mainnet", TRUE)
    OBVIOUS
  <2>2. b.id = "litecoin_core" /\ b.net = "mainnet" /\ b.suite
    BY <2>1 DEF Daemon
  <2>3. Daemons!rpc_ports(b) = 9332
    BY <2>2 DEF Daemons!rpc_ports, Daemons!On
  <2>4. PICK n \in Nat : n = 9332
    OBVIOUS
  <2>5. OwnerOf(n + 1237) = b
    BY <2>1, <2>4 DEF OwnerOf
  <2>6. Owned(b)
    BY <2>2, <2>3, <2>4, <2>5, PlainOwned
  <2> QED
    BY <2>1, <2>6, Zenon
<1>6. Owned(Daemon("LTC", "litecoin_core", "testnet", TRUE))
  <2>1. PICK b : b = Daemon("LTC", "litecoin_core", "testnet", TRUE)
    OBVIOUS
  <2>2. b.id = "litecoin_core" /\ b.net = "testnet" /\ b.suite
    BY <2>1 DEF Daemon
  <2>3. Daemons!rpc_ports(b) = 19332
    BY <2>2 DEF Daemons!rpc_ports, Daemons!On
  <2>4. PICK n \in Nat : n = 19332
    OBVIOUS
  <2>5. OwnerOf(n + 1237) = b
    BY <2>1, <2>4 DEF OwnerOf
  <2>6. Owned(b)
    BY <2>2, <2>3, <2>4, <2>5, PlainOwned
  <2> QED
    BY <2>1, <2>6, Zenon
<1>7. Owned(Daemon("XMR", "monero", "mainnet", TRUE))
  <2>1. PICK b : b = Daemon("XMR", "monero", "mainnet", TRUE)
    OBVIOUS
  <2>2. b.id = "monero" /\ b.net = "mainnet" /\ b.suite
    BY <2>1 DEF Daemon
  <2>3. Daemons!rpc_ports(b) = 18081
    BY <2>2 DEF Daemons!rpc_ports, Daemons!On
  <2>4. PICK n \in Nat : n = 18081
    OBVIOUS
  <2>5. OwnerOf(n + 1237) = b /\ OwnerOf(n + 2473) = b
    BY <2>1, <2>4 DEF OwnerOf
  <2>6. Owned(b)
    BY <2>2, <2>3, <2>4, <2>5, MoneroOwned
  <2> QED
    BY <2>1, <2>6, Zenon
<1>8. Owned(Daemon("XMR", "monero", "testnet", TRUE))
  <2>1. PICK b : b = Daemon("XMR", "monero", "testnet", TRUE)
    OBVIOUS
  <2>2. b.id = "monero" /\ b.net = "testnet" /\ b.suite
    BY <2>1 DEF Daemon
  <2>3. Daemons!rpc_ports(b) = 38081
    BY <2>2 DEF Daemons!rpc_ports, Daemons!On
  <2>4. PICK n \in Nat : n = 38081
    OBVIOUS
  <2>5. OwnerOf(n + 1237) = b /\ OwnerOf(n + 2473) = b
    BY <2>1, <2>4 DEF OwnerOf
  <2>6. Owned(b)
    BY <2>2, <2>3, <2>4, <2>5, MoneroOwned
  <2> QED
    BY <2>1, <2>6, Zenon
<1>9. Owned(Daemon("ETH", "geth", "mainnet", TRUE))
  <2>1. PICK b : b = Daemon("ETH", "geth", "mainnet", TRUE)
    OBVIOUS
  <2>2. b.id = "geth" /\ b.net = "mainnet" /\ b.suite
    BY <2>1 DEF Daemon
  <2>3. Daemons!network_offset(b.net) = 0 /\ NumberOf(b) = 3
    BY <2>2, EthereumNumbers DEF Daemons!network_offset
  <2>4. PICK n \in Nat : n = 200
    OBVIOUS
  <2>5. OwnerOf(n + 9782) = b /\ OwnerOf(n + 31540) = b /\ OwnerOf(n + 8551) = b
    BY <2>1, <2>4 DEF OwnerOf
  <2>6. Owned(b)
    BY <2>2, <2>3, <2>4, <2>5, EthereumOwned
  <2> QED
    BY <2>1, <2>6, Zenon
<1>10. Owned(Daemon("ETH", "geth", "testnet", TRUE))
  <2>1. PICK b : b = Daemon("ETH", "geth", "testnet", TRUE)
    OBVIOUS
  <2>2. b.id = "geth" /\ b.net = "testnet" /\ b.suite
    BY <2>1 DEF Daemon
  <2>3. Daemons!network_offset(b.net) = 10 /\ NumberOf(b) = 3
    BY <2>2, EthereumNumbers DEF Daemons!network_offset
  <2>4. PICK n \in Nat : n = 210
    OBVIOUS
  <2>5. OwnerOf(n + 9782) = b /\ OwnerOf(n + 31540) = b /\ OwnerOf(n + 8551) = b
    BY <2>1, <2>4 DEF OwnerOf
  <2>6. Owned(b)
    BY <2>2, <2>3, <2>4, <2>5, EthereumOwned
  <2> QED
    BY <2>1, <2>6, Zenon
<1>11. Owned(Daemon("ETH", "reth", "mainnet", TRUE))
  <2>1. PICK b : b = Daemon("ETH", "reth", "mainnet", TRUE)
    OBVIOUS
  <2>2. b.id = "reth" /\ b.net = "mainnet" /\ b.suite
    BY <2>1 DEF Daemon
  <2>3. Daemons!network_offset(b.net) = 0 /\ NumberOf(b) = 4
    BY <2>2, EthereumNumbers DEF Daemons!network_offset
  <2>4. PICK n \in Nat : n = 300
    OBVIOUS
  <2>5. OwnerOf(n + 9782) = b /\ OwnerOf(n + 31540) = b /\ OwnerOf(n + 8551) = b
    BY <2>1, <2>4 DEF OwnerOf
  <2>6. Owned(b)
    BY <2>2, <2>3, <2>4, <2>5, EthereumOwned
  <2> QED
    BY <2>1, <2>6, Zenon
<1>12. Owned(Daemon("ETH", "reth", "testnet", TRUE))
  <2>1. PICK b : b = Daemon("ETH", "reth", "testnet", TRUE)
    OBVIOUS
  <2>2. b.id = "reth" /\ b.net = "testnet" /\ b.suite
    BY <2>1 DEF Daemon
  <2>3. Daemons!network_offset(b.net) = 10 /\ NumberOf(b) = 4
    BY <2>2, EthereumNumbers DEF Daemons!network_offset
  <2>4. PICK n \in Nat : n = 310
    OBVIOUS
  <2>5. OwnerOf(n + 9782) = b /\ OwnerOf(n + 31540) = b /\ OwnerOf(n + 8551) = b
    BY <2>1, <2>4 DEF OwnerOf
  <2>6. Owned(b)
    BY <2>2, <2>3, <2>4, <2>5, EthereumOwned
  <2> QED
    BY <2>1, <2>6, Zenon
<1>13. Owned(Daemon("ETC", "parity", "mainnet", TRUE))
  <2>1. PICK b : b = Daemon("ETC", "parity", "mainnet", TRUE)
    OBVIOUS
  <2>2. b.id = "parity" /\ b.net = "mainnet" /\ b.suite
    BY <2>1 DEF Daemon
  <2>3. Daemons!network_offset(b.net) = 0 /\ NumberOf(b) = 2
    BY <2>2, EthereumNumbers DEF Daemons!network_offset
  <2>4. PICK n \in Nat : n = 100
    OBVIOUS
  <2>5. OwnerOf(n + 9782) = b /\ OwnerOf(n + 31540) = b
    BY <2>1, <2>4 DEF OwnerOf
  <2>6. Owned(b)
    BY <2>2, <2>3, <2>4, <2>5, EthereumOwned
  <2> QED
    BY <2>1, <2>6, Zenon
<1>14. Owned(Daemon("ETC", "parity", "testnet", TRUE))
  <2>1. PICK b : b = Daemon("ETC", "parity", "testnet", TRUE)
    OBVIOUS
  <2>2. b.id = "parity" /\ b.net = "testnet" /\ b.suite
    BY <2>1 DEF Daemon
  <2>3. Daemons!network_offset(b.net) = 10 /\ NumberOf(b) = 2
    BY <2>2, EthereumNumbers DEF Daemons!network_offset
  <2>4. PICK n \in Nat : n = 110
    OBVIOUS
  <2>5. OwnerOf(n + 9782) = b /\ OwnerOf(n + 31540) = b
    BY <2>1, <2>4 DEF OwnerOf
  <2>6. Owned(b)
    BY <2>2, <2>3, <2>4, <2>5, EthereumOwned
  <2> QED
    BY <2>1, <2>6, Zenon
<1> QED
  BY <1>1, <1>2, <1>3, <1>4, <1>5, <1>6, <1>7, <1>8, <1>9, <1>10, <1>11, <1>12, <1>13, <1>14, Zenon DEF SuiteDaemons

LEMMA RegtestOwned == \A b \in RegtestDaemons : Owned(b)
<1>1. Owned(Daemon("BTC", "bitcoin_core", "regtest", TRUE))
  <2>1. PICK b : b = Daemon("BTC", "bitcoin_core", "regtest", TRUE)
    OBVIOUS
  <2>2. b.id = "bitcoin_core" /\ b.net = "regtest" /\ b.suite
    BY <2>1 DEF Daemon
  <2>3. Daemons!rpc_ports(b) = 18443
    BY <2>2 DEF Daemons!rpc_ports, Daemons!On
  <2>4. PICK n \in Nat : n = 18443
    OBVIOUS
  <2>5. OwnerOf(n + 1237) = b
    BY <2>1, <2>4 DEF OwnerOf
  <2>6. Owned(b)
    BY <2>2, <2>3, <2>4, <2>5, PlainOwned
  <2> QED
    BY <2>1, <2>6, Zenon
<1>2. Owned(Daemon("BTC", "bitcoin_core", "regtest", FALSE))
  <2>1. PICK b : b = Daemon("BTC", "bitcoin_core", "regtest", FALSE)
    OBVIOUS
  <2>2. b.id = "bitcoin_core" /\ b.net = "regtest" /\ ~b.suite
    BY <2>1 DEF Daemon
  <2>3. Daemons!rpc_ports(b) = 18443
    BY <2>2 DEF Daemons!rpc_ports, Daemons!On
  <2>4. PICK n \in Nat : n = 18443
    OBVIOUS
  <2>5. OwnerOf(n) = b
    BY <2>1, <2>4 DEF OwnerOf
  <2>6. Owned(b)
    BY <2>2, <2>3, <2>4, <2>5, OwnOwned
  <2> QED
    BY <2>1, <2>6, Zenon
<1>3. Owned(Daemon("BCH", "bitcoin_cash_node", "regtest", TRUE))
  <2>1. PICK b : b = Daemon("BCH", "bitcoin_cash_node", "regtest", TRUE)
    OBVIOUS
  <2>2. b.id = "bitcoin_cash_node" /\ b.net = "regtest" /\ b.suite
    BY <2>1 DEF Daemon
  <2>3. Daemons!rpc_ports(b) = 18543
    BY <2>2 DEF Daemons!rpc_ports, Daemons!On
  <2>4. PICK n \in Nat : n = 18543
    OBVIOUS
  <2>5. OwnerOf(n + 1237) = b
    BY <2>1, <2>4 DEF OwnerOf
  <2>6. Owned(b)
    BY <2>2, <2>3, <2>4, <2>5, PlainOwned
  <2> QED
    BY <2>1, <2>6, Zenon
<1>4. Owned(Daemon("BCH", "bitcoin_cash_node", "regtest", FALSE))
  <2>1. PICK b : b = Daemon("BCH", "bitcoin_cash_node", "regtest", FALSE)
    OBVIOUS
  <2>2. b.id = "bitcoin_cash_node" /\ b.net = "regtest" /\ ~b.suite
    BY <2>1 DEF Daemon
  <2>3. Daemons!rpc_ports(b) = 18543
    BY <2>2 DEF Daemons!rpc_ports, Daemons!On
  <2>4. PICK n \in Nat : n = 18543
    OBVIOUS
  <2>5. OwnerOf(n) = b
    BY <2>1, <2>4 DEF OwnerOf
  <2>6. Owned(b)
    BY <2>2, <2>3, <2>4, <2>5, OwnOwned
  <2> QED
    BY <2>1, <2>6, Zenon
<1>5. Owned(Daemon("LTC", "litecoin_core", "regtest", TRUE))
  <2>1. PICK b : b = Daemon("LTC", "litecoin_core", "regtest", TRUE)
    OBVIOUS
  <2>2. b.id = "litecoin_core" /\ b.net = "regtest" /\ b.suite
    BY <2>1 DEF Daemon
  <2>3. Daemons!rpc_ports(b) = 19443
    BY <2>2 DEF Daemons!rpc_ports, Daemons!On
  <2>4. PICK n \in Nat : n = 19443
    OBVIOUS
  <2>5. OwnerOf(n + 1237) = b
    BY <2>1, <2>4 DEF OwnerOf
  <2>6. Owned(b)
    BY <2>2, <2>3, <2>4, <2>5, PlainOwned
  <2> QED
    BY <2>1, <2>6, Zenon
<1>6. Owned(Daemon("LTC", "litecoin_core", "regtest", FALSE))
  <2>1. PICK b : b = Daemon("LTC", "litecoin_core", "regtest", FALSE)
    OBVIOUS
  <2>2. b.id = "litecoin_core" /\ b.net = "regtest" /\ ~b.suite
    BY <2>1 DEF Daemon
  <2>3. Daemons!rpc_ports(b) = 19443
    BY <2>2 DEF Daemons!rpc_ports, Daemons!On
  <2>4. PICK n \in Nat : n = 19443
    OBVIOUS
  <2>5. OwnerOf(n) = b
    BY <2>1, <2>4 DEF OwnerOf
  <2>6. Owned(b)
    BY <2>2, <2>3, <2>4, <2>5, OwnOwned
  <2> QED
    BY <2>1, <2>6, Zenon
<1> QED
  BY <1>1, <1>2, <1>3, <1>4, <1>5, <1>6, Zenon DEF RegtestDaemons
(* A daemon's name and its coin's; its directory.                          *)
IdFor(c) ==
    IF c = "BTC" THEN "bitcoin_core" ELSE IF c = "BCH" THEN "bitcoin_cash_node" ELSE IF c = "LTC" THEN "litecoin_core"
    ELSE IF c = "XMR" THEN "monero" ELSE "parity"
NamedBy(c, i) == (c # "ETH" => i = IdFor(c)) /\ (c = "ETH" => i \in {"geth", "reth"})
InSuite(b) == b = Daemon(b.coin, b.id, b.net, TRUE) /\ b.suite /\ NamedBy(b.coin, b.id)
InRegtest(b) == b = Daemon(b.coin, b.id, "regtest", FALSE) /\ ~b.suite /\ NamedBy(b.coin, b.id)

LEMMA PairsNamed == ASSUME NEW x, SuitePair(x) \/ RegtestPair(x) PROVE NamedBy(x[1], x[2])
<1>1. \A i, j : x = <<i, j>> => x[1] = i /\ x[2] = j
  OBVIOUS
<1>2. \/ x = <<"BTC", "bitcoin_core">> \/ x = <<"BCH", "bitcoin_cash_node">> \/ x = <<"LTC", "litecoin_core">>
      \/ x = <<"XMR", "monero">> \/ x = <<"ETH", "geth">> \/ x = <<"ETH", "reth">> \/ x = <<"ETC", "parity">>
  BY Zenon DEF SuitePair, RegtestPair
<1>3. NamedBy("BTC", "bitcoin_core") /\ NamedBy("BCH", "bitcoin_cash_node") /\ NamedBy("LTC", "litecoin_core")
  BY DEF NamedBy, IdFor
<1>4. NamedBy("XMR", "monero") /\ NamedBy("ETH", "geth") /\ NamedBy("ETH", "reth") /\ NamedBy("ETC", "parity")
  BY DEF NamedBy, IdFor
<1> QED
  BY <1>1, <1>2, <1>3, <1>4, Zenon

LEMMA DaemonIn ==
    ASSUME NEW c, NEW i, NEW z, NamedBy(c, i)
    PROVE  InSuite(Daemon(c, i, z, TRUE)) /\ InRegtest(Daemon(c, i, "regtest", FALSE))
<1>1. PICK b : b = Daemon(c, i, z, TRUE)
  OBVIOUS
<1>2. b.coin = c /\ b.id = i /\ b.net = z /\ b.suite
  BY <1>1 DEF Daemon
<1>3. InSuite(b)
  BY <1>1, <1>2, Zenon DEF InSuite
<1>4. PICK e : e = Daemon(c, i, "regtest", FALSE)
  OBVIOUS
<1>5. e.coin = c /\ e.id = i /\ ~e.suite
  BY <1>4 DEF Daemon
<1>6. InRegtest(e)
  BY <1>4, <1>5, Zenon DEF InRegtest
<1> QED
  BY <1>1, <1>3, <1>4, <1>6, Zenon

LEMMA KnownIn == \A b \in Daemons!KnownDaemons : InSuite(b) \/ InRegtest(b)
<1>1. ASSUME NEW b, \E z \in {"mainnet", "testnet"} : \E x : SuitePair(x) /\ b = Daemon(x[1], x[2], z, TRUE)
      PROVE  InSuite(b)
  BY <1>1, PairsNamed, DaemonIn, Zenon
<1>2. ASSUME NEW b, \E s \in BOOLEAN : \E x : RegtestPair(x) /\ b = Daemon(x[1], x[2], "regtest", s)
      PROVE  InSuite(b) \/ InRegtest(b)
  BY <1>2, PairsNamed, DaemonIn, Zenon
<1> QED
  BY <1>1, <1>2, KnownAre

LEMMA SuiteDirs ==
    ASSUME NEW b, InSuite(b)
    PROVE  /\ Daemons!datadir(b) = <<"test/daemons", b.coin, b.net, IF Daemons!IsEthereum(b) THEN b.id ELSE "">>
           /\ Daemons!datadir(b)[1] = "test/daemons" /\ Daemons!datadir(b)[2] = b.coin /\ Daemons!datadir(b)[3] = b.net
           /\ Daemons!IsEthereum(b) => Daemons!datadir(b)[4] = b.id
           /\ b.coin = "ETH" => Daemons!IsEthereum(b)
<1>1. Daemons!datadir(b) = <<"test/daemons", b.coin, b.net, IF Daemons!IsEthereum(b) THEN b.id ELSE "">>
  BY Zenon DEF Daemons!datadir, InSuite
<1>2. PICK e : e = IF Daemons!IsEthereum(b) THEN b.id ELSE ""
  OBVIOUS
<1>3. PICK f, c, k : f = Daemons!datadir(b) /\ c = b.coin /\ k = b.net
  OBVIOUS
<1>4. f = <<"test/daemons", c, k, e>> /\ (Daemons!IsEthereum(b) => e = b.id)
  BY <1>1, <1>2, <1>3, Zenon
<1>5. f[1] = "test/daemons" /\ f[2] = c /\ f[3] = k /\ f[4] = e
  BY <1>4
<1>6. b.coin = "ETH" => Daemons!IsEthereum(b)
  BY EthereumNumbers DEF InSuite, NamedBy
<1> QED
  BY <1>1, <1>3, <1>4, <1>5, <1>6, Zenon

LEMMA RegtestDirs ==
    ASSUME NEW b, InRegtest(b)
    PROVE  Daemons!datadir(b)[1] = "regtest" /\ Daemons!datadir(b)[2] = b.coin
<1>1. Daemons!datadir(b) = <<"regtest", b.coin>>
  BY Zenon DEF Daemons!datadir, InRegtest
<1>2. PICK f, c : f = Daemons!datadir(b) /\ c = b.coin
  OBVIOUS
<1>3. f = <<"regtest", c>>
  BY <1>1, <1>2, Zenon
<1>4. f[1] = "regtest" /\ f[2] = c
  BY <1>3
<1> QED
  BY <1>2, <1>4, Zenon

LEMMA RegtestEthereum == \A b \in Daemons!KnownDaemons : InRegtest(b) => b.coin # "ETH"
<1>1. ASSUME NEW b, \E z \in {"mainnet", "testnet"} : \E x : SuitePair(x) /\ b = Daemon(x[1], x[2], z, TRUE), InRegtest(b)
      PROVE  FALSE
  <2>1. InSuite(b)
    BY <1>1, PairsNamed, DaemonIn, Zenon
  <2> QED
    BY <1>1, <2>1 DEF InSuite, InRegtest
<1>2. ASSUME NEW b, \E s \in BOOLEAN : \E x : RegtestPair(x) /\ b = Daemon(x[1], x[2], "regtest", s)
      PROVE  b.coin # "ETH"
  <2>1. PICK s \in BOOLEAN : \E x : RegtestPair(x) /\ b = Daemon(x[1], x[2], "regtest", s)
    BY <1>2, Zenon
  <2>2. PICK x : RegtestPair(x) /\ b = Daemon(x[1], x[2], "regtest", s)
    BY <2>1, Zenon
  <2>3. b.coin = x[1]
    BY <2>2 DEF Daemon
  <2>4. \A i, j : x = <<i, j>> => x[1] = i
    OBVIOUS
  <2>5. x[1] \in {"BTC", "BCH", "LTC"}
    BY <2>2, <2>4, Zenon DEF RegtestPair
  <2> QED
    BY <2>3, <2>5
<1> QED
  BY <1>1, <1>2, KnownAre

LEMMA DirsApart ==
    ASSUME NEW x \in Daemons!KnownDaemons, NEW y \in Daemons!KnownDaemons, Daemons!datadir(x) = Daemons!datadir(y)
    PROVE  x = y
<1>1. CASE InSuite(x) /\ InSuite(y)
  <2>1. x.coin = y.coin /\ x.net = y.net
    BY <1>1, SuiteDirs
  <2>2. x.id = y.id
    <3>1. CASE x.coin = "ETH"
      BY <1>1, <2>1, <3>1, SuiteDirs
    <3>2. CASE x.coin # "ETH"
      BY <1>1, <2>1, <3>2 DEF InSuite, NamedBy
    <3> QED
      BY <3>1, <3>2
  <2>3. x = Daemon(x.coin, x.id, x.net, TRUE) /\ y = Daemon(y.coin, y.id, y.net, TRUE)
    BY <1>1, Zenon DEF InSuite
  <2> QED
    BY <2>1, <2>2, <2>3, Zenon
<1>2. CASE InRegtest(x) /\ InRegtest(y)
  <2>1. x.coin = y.coin /\ x.coin # "ETH"
    BY <1>2, RegtestDirs, RegtestEthereum
  <2>2. x.id = y.id
    BY <1>2, <2>1 DEF InRegtest, NamedBy
  <2>3. x = Daemon(x.coin, x.id, "regtest", FALSE) /\ y = Daemon(y.coin, y.id, "regtest", FALSE)
    BY <1>2, Zenon DEF InRegtest
  <2> QED
    BY <2>1, <2>2, <2>3, Zenon
<1>3. ASSUME NEW s, NEW t, InSuite(s), InRegtest(t) PROVE Daemons!datadir(s) # Daemons!datadir(t)
  <2>1. Daemons!datadir(s)[1] = "test/daemons" /\ Daemons!datadir(t)[1] = "regtest"
    BY <1>3, SuiteDirs, RegtestDirs
  <2> QED
    BY <2>1
<1> QED
  BY <1>1, <1>2, <1>3, KnownIn

LEMMA PortsAreApart == Daemons!PortsApart
<1> SUFFICES ASSUME NEW x \in Daemons!KnownDaemons, NEW y \in Daemons!KnownDaemons, x # y
             PROVE  Daemons!Ports(x) \intersect Daemons!Ports(y) = {} /\ Daemons!datadir(x) # Daemons!datadir(y)
  BY DEF Daemons!PortsApart
<1>1. Owned(x) /\ Owned(y)
  <2>1. x \in SuiteDaemons \union RegtestDaemons /\ y \in SuiteDaemons \union RegtestDaemons
    BY DaemonsAre
  <2> QED
    BY <2>1, SuiteOwned, RegtestOwned
<1>2. Daemons!Ports(x) \intersect Daemons!Ports(y) = {}
  BY <1>1 DEF Owned
<1> QED
  BY <1>2, DirsApart

AllServed == ShapeInv /\ DaemonInv /\ CleanInv

LEMMA DaemonsStart == ASSUME Daemons!DaemonsAssumption PROVE Daemons!Init => AllServed
BY InitShape, InitLoaded, InitClean DEF AllServed

LEMMA DaemonsStep ==
    ASSUME Daemons!DaemonsAssumption
    PROVE  AllServed /\ [Daemons!Next]_(Daemons!daemonVars) => AllServed'
BY NextShape, NextLoaded, NextClean DEF AllServed

LEMMA DaemonsSuffice == AllServed => Daemons!DaemonsRight
BY PortsAreApart, LoadedSuffices, CleanSuffices DEF AllServed, Daemons!DaemonsRight

(* Whatever commands run at a time, and the daemon and they die when they  *)
(* may: a command beside which nothing else happened never failed, and     *)
(* when all have ended well the daemon has its wallets loaded.  The ports  *)
(* and directories of the daemons that may run at once are all different.  *)
THEOREM DaemonsServe == ASSUME Daemons!DaemonsAssumption PROVE Daemons!Spec => []Daemons!DaemonsRight
BY DaemonsStart, DaemonsStep, DaemonsSuffice, PTL DEF Daemons!Spec

(* What the run states of the dump and of the daemon, of the subjects as   *)
(* it composes them (MCTrackingWallet), for any entries, networks, chains  *)
(* and commands: a dump restores the wallet (TwDump), and a command beside *)
(* which nothing else happens has its daemon and the wallets it needs      *)
(* (CoinDaemons).                                                          *)
THEOREM DumpsAndDaemons == MCSpec => []DumpRestores
<1> DEFINE I == (subject = "dump" => ImportInv) /\ (subject = "daemon" => AllServed)
<1>1. MCInit => I
  <2>1. MCInit /\ subject = "dump" => Dump!Init
    BY DEF MCInit, OthersInit
  <2>2. MCInit /\ subject = "daemon" => Daemons!Init
    BY DEF MCInit, OthersInit
  <2> QED
    BY <2>1, <2>2, ImportStarts, DaemonsStart, DumpConstants, DaemonConstants
<1>2. I /\ [MCNext]_allVars => I'
  <2> SUFFICES ASSUME I, [MCNext]_allVars PROVE I'
    OBVIOUS
  <2>1. subject' = subject
    BY DEF MCNext, allVars
  <2>2. subject = "dump" => [Dump!Next]_Dump!vars
    BY DEF MCNext, OthersNext, allVars, others, dumpVars, Dump!vars
  <2>3. subject = "daemon" => [Daemons!Next]_(Daemons!daemonVars)
    BY DEF MCNext, OthersNext, allVars, others, daemonVars, Daemons!daemonVars
  <2>4. subject = "dump" => ImportInv'
    BY <2>2, ImportStep, DumpConstants
  <2>5. subject = "daemon" => AllServed'
    BY <2>3, DaemonsStep, DaemonConstants
  <2> QED
    BY <2>1, <2>4, <2>5
<1>3. I => DumpRestores
  BY ImportRestores, DaemonsSuffice DEF DumpRestores
<1> QED
  BY <1>1, <1>2, <1>3, PTL DEF MCSpec
=============================================================================
