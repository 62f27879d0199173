------------------------------- MODULE TwStore -------------------------------
(***************************************************************************)
(* The tracking wallet with a store (tw/store.py), the JSON file that      *)
(* several commands of one user open, change and write back, each at a     *)
(* time of its own.  A process loads the file once and works on its copy.  *)
(* Only the check made before each write (fileutil.py) keeps processes     *)
(* apart, and the write itself truncates the file first.  The text of the  *)
(* file is abstracted to the wallet it encodes.                            *)
(***************************************************************************)
EXTENDS Naturals, FiniteSets

CONSTANTS Procs, Addrs, Ids,       \* processes, coin addresses, MMGen IDs
          NoFile, Empty, Garbage,  \* the texts of the file that are not a wallet
          None, Plain,             \* no entry, and the ID of a non-MMGen address
          MaxRuns, MaxOps          \* bounds: processes started, operations of each

Comments == {"", "label"}
Balances == {0, 1}
Entry == [mmid : Ids \cup {Plain}, comment : Comments, bal : Balances]
Imported == [mmid |-> Plain, comment |-> "", bal |-> 0]
Book == [Addrs -> Entry \cup {None}]
Wallet == [version : {"old", "new"}, book : Book]
Current == [version : {"new"}, book : Book]
NoBook == [a \in Addrs |-> None]
InitEmpty == [version |-> "new", book |-> NoBook]

ASSUME TwConstants ==
  /\ NoFile \notin {Empty, Garbage} /\ Plain \notin Ids
  /\ None \notin Entry \cup Wallet /\ {NoFile, Empty, Garbage} \cap Wallet = {}
  /\ MaxRuns \in Nat /\ MaxOps \in Nat

VARIABLES file,   \* the text of the file
          w,      \* each process: the TwCtl object and where the program is
          runs,   \* processes started
          base,   \* history: the last wallet written completely
          raced,  \* history: two writes have overlapped
          broke   \* history: a write was cut short
vars == <<file, w, runs, base, raced, broke>>

(* "forced" is the mode force_write() saves; "next" is where a write       *)
(* returns to, "off" for the write made by __del__.  "mine" and "touched"  *)
(* (history) are the entries this process has changed and whether another  *)
(* one has written since it started; "shown" is the balance reported as    *)
(* refreshed, until the next operation.                                    *)
Off(out) == [pc |-> "off", mode |-> "r", forced |-> FALSE, next |-> "off",
             orig |-> Empty, data |-> InitEmpty, sess |-> {}, ops |-> 0,
             failed |-> FALSE, mine |-> {}, touched |-> FALSE,
             shown |-> None, out |-> out]

Init ==
  /\ \/ file = NoFile /\ base = None
     \/ /\ file \in [version : {"old", "new"}, book : [Addrs -> {Imported, None}]]
        /\ base = file
  /\ w = [p \in Procs |-> Off("ok")]
  /\ runs = 0 /\ raced = FALSE /\ broke = FALSE

(***************************************************************************)
(* Writing                                                                 *)
(***************************************************************************)
Window == {"truncate", "put"}
Writing(p) == w[p].pc \in Window
Text(f) == IF f = NoFile THEN Empty ELSE f

\* write(): nothing to do if the data are what was read or written last.
Write(r, next) ==
  IF r.data # r.orig THEN [r EXCEPT !.pc = "check", !.next = next]
                     ELSE [r EXCEPT !.pc = next]

\* An exception.  The object is destroyed on the way out, so __del__ comes
\* next; an exception in __del__ itself is ignored.
Fail(r) ==
  IF r.next = "off" THEN Off(IF r.failed THEN "error" ELSE "ok")
                    ELSE [r EXCEPT !.pc = "closing", !.failed = TRUE, !.shown = None]

\* Mutants: no check; no check if there was no file.
NeverChecked(p) == TRUE
CheckedIfRead(p) == w[p].orig = Empty \/ Text(file) = w[p].orig
Unaltered(p) == Text(file) = w[p].orig

\* Mutant: the file is opened for writing before it is compared.
OpenFirst(p) ==
  /\ w[p].pc = "check"
  /\ file' = Empty
  /\ IF Unaltered(p)
     THEN w' = [w EXCEPT ![p].pc = "truncate"]
     ELSE w' = [w EXCEPT ![p] = Fail(@)]
  /\ UNCHANGED <<runs, base, raced, broke>>

Check(p) ==
  /\ w[p].pc = "check"
  /\ IF Unaltered(p)
     THEN /\ w' = [w EXCEPT ![p].pc = "truncate"]
          /\ raced' = (raced \/ \E q \in Procs \ {p} : Writing(q))
     ELSE w' = [w EXCEPT ![p] = Fail(@)] /\ UNCHANGED raced
  /\ UNCHANGED <<file, runs, base, broke>>

Touch(p) == [q \in Procs |-> IF q # p /\ w[q].pc # "off" THEN [w[q] EXCEPT !.touched = TRUE]
                                                         ELSE w[q]]

Truncate(p) ==
  /\ w[p].pc = "truncate"
  /\ file' = Empty
  /\ w' = [Touch(p) EXCEPT ![p].pc = "put"]
  /\ UNCHANGED <<runs, base, raced, broke>>

\* Mutant: the text written is not remembered.
WrittenForgotten(r) ==
  IF r.next = "off" THEN Off(IF r.failed THEN "error" ELSE "ok")
  ELSE [r EXCEPT !.pc = r.next, !.forced = FALSE]

\* The object once its write is complete.
Written(r) ==
  IF r.next = "off" THEN Off(IF r.failed THEN "error" ELSE "ok")
  ELSE [r EXCEPT !.pc = r.next, !.orig = r.data, !.forced = FALSE]

\* Two processes that have the file open write over each other.
Put(p) ==
  /\ w[p].pc = "put"
  /\ \/ file' = w[p].data
     \/ raced /\ file' = Garbage
  /\ base' = w[p].data
  /\ w' = [Touch(p) EXCEPT ![p] = Written(@)]
  /\ UNCHANGED <<runs, raced, broke>>

\* The disk is full: nothing or a part of the text is written.
PutFails(p) ==
  /\ w[p].pc = "put"
  /\ file' \in {Empty, Garbage}
  /\ w' = [w EXCEPT ![p] = Fail(@)]
  /\ broke' = TRUE
  /\ UNCHANGED <<runs, base, raced>>

(***************************************************************************)
(* Opening and closing                                                     *)
(***************************************************************************)
Opened(m) == [Off("ok") EXCEPT !.pc = "ready", !.mode = m, !.next = "ready"]

\* Mutant: an old wallet is used as it is.
LoadedAsIs(r, f) == [r EXCEPT !.orig = f, !.data = f]

Loaded(r, f) ==
  LET s == [r EXCEPT !.orig = f, !.data = [f EXCEPT !.version = "new"]]
  IN  Write([s EXCEPT !.forced = (f.version = "old")], "ready")

\* init_from_wallet_file(): unreadable text is an error, an old wallet is
\* upgraded and written, in read-only mode too.
Open(p, m) ==
  /\ w[p].pc = "off" /\ runs < MaxRuns
  /\ runs' = runs + 1
  /\ w' = [w EXCEPT ![p] =
             CASE file = NoFile             -> [Opened(m) EXCEPT !.pc = "stat"]
               [] file \in {Empty, Garbage} -> Off("error")
               [] OTHER                     -> Loaded(Opened(m), file)]
  /\ UNCHANGED <<file, base, raced, broke>>

\* The read has failed: if there still is no file, one is created.
Stat(p) ==
  /\ w[p].pc = "stat"
  /\ w' = [w EXCEPT ![p] = IF file = NoFile THEN Write([@ EXCEPT !.forced = TRUE], "ready")
                                            ELSE Off("error")]
  /\ UNCHANGED <<file, runs, base, raced, broke>>

\* The program ends, or the user stops it with an interrupt.
Exit(p) ==
  /\ w[p].pc = "ready"
  /\ w' = [w EXCEPT ![p] = [@ EXCEPT !.pc = "closing", !.shown = None]]
  /\ UNCHANGED <<file, runs, base, raced, broke>>

\* __del__(): the object is written if it is in write mode.
WritesAtEnd(r) == r.mode = "w" \/ r.forced
End(r) == IF WritesAtEnd(r) /\ r.data # r.orig THEN Write(r, "off")
          ELSE Off(IF r.failed THEN "error" ELSE "ok")

Close(p) ==
  /\ w[p].pc = "closing"
  /\ w' = [w EXCEPT ![p] = End(@)]
  /\ UNCHANGED <<file, runs, base, raced, broke>>

\* Killed, or the machine goes down: the file stays as it is.
Kill(p) ==
  /\ w[p].pc # "off"
  /\ w' = [w EXCEPT ![p] = Off("killed")]
  /\ broke' = (broke \/ w[p].pc = "put")
  /\ UNCHANGED <<file, runs, base, raced>>

(***************************************************************************)
(* Operations on the copy                                                  *)
(***************************************************************************)
Ready(p) == w[p].pc = "ready" /\ w[p].ops < MaxOps
WriteMode(p) == Ready(p) /\ w[p].mode = "w"

\* The object with entry a replaced, one operation counted.
Set(r, a, e) == [r EXCEPT !.data.book[a] = e, !.mine = @ \cup {a}, !.ops = @ + 1,
                          !.shown = None]
Step(p, r) == w' = [w EXCEPT ![p] = r] /\ UNCHANGED <<file, runs, base, raced, broke>>

\* Mutant: no check of the ID.
NoConflict(e, i) == FALSE

\* check_import_mmid(): only the ID of a non-MMGen address may be replaced.
Conflict(e, i) == i # e.mmid /\ e.mmid # Plain

ImportAddress(p, a, i, c) ==
  /\ WriteMode(p)
  /\ LET e == w[p].data.book[a] IN
     Step(p, CASE e = None       -> Set(w[p], a, [mmid |-> i, comment |-> c, bal |-> 0])
               [] e # None /\ Conflict(e, i) -> Fail(w[p])
               [] OTHER -> Set(w[p], a, [e EXCEPT !.mmid = i,
                                                  !.comment = IF c = "" THEN @ ELSE c]))

RemoveAddress(p, a) ==
  /\ WriteMode(p) /\ w[p].data.book[a] # None
  /\ Step(p, Write(Set(w[p], a, None), "ready"))

SetLabel(p, a, c) ==
  /\ WriteMode(p) /\ w[p].data.book[a] # None
  /\ Step(p, Write(Set(w[p], a, [w[p].data.book[a] EXCEPT !.comment = c]), "ready"))

\* Import of a dump, into a wallet without entries.
LoadDump(p, a, i) ==
  /\ WriteMode(p) /\ w[p].data.book = NoBook
  /\ Step(p, Write(Set(w[p], a, [mmid |-> i, comment |-> "", bal |-> 1]), "ready"))

\* cache_balance(): only the first balance seen in a session is kept.
CacheBalance(r, a, b) ==
  IF a \in r.sess THEN r
  ELSE [Set(r, a, [r.data.book[a] EXCEPT !.bal = b]) EXCEPT !.sess = @ \cup {a}]

\* get_balance() as the view is filled: the node is asked once a session.
GetBalance(p, a, b) ==
  /\ Ready(p) /\ w[p].data.book[a] # None /\ a \notin w[p].sess
  /\ Step(p, CacheBalance(w[p], a, b))

\* The user asks for a new balance, get_balance(force_rpc = True).
Refresh(p, a, b) ==
  /\ WriteMode(p) /\ w[p].data.book[a] # None
  /\ Step(p, [CacheBalance(w[p], a, b) EXCEPT !.ops = w[p].ops + 1,
                                           !.shown = <<a, b>>])

Operate(p) ==
  \E a \in Addrs :
    \/ \E i \in Ids \cup {Plain}, c \in Comments : ImportAddress(p, a, i, c)
    \/ RemoveAddress(p, a)
    \/ \E c \in Comments : SetLabel(p, a, c)
    \/ \E i \in Ids : LoadDump(p, a, i)
    \/ \E b \in Balances : GetBalance(p, a, b) \/ Refresh(p, a, b)

Process(p) ==
  \/ \E m \in {"r", "w"} : Open(p, m)
  \/ Stat(p) \/ Exit(p) \/ Close(p) \/ Kill(p)
  \/ Check(p) \/ Truncate(p) \/ Put(p) \/ PutFails(p)
  \/ Operate(p)

Next == \E p \in Procs : Process(p)
Spec == Init /\ [][Next]_vars

(***************************************************************************)
(* Properties                                                              *)
(***************************************************************************)
Object ==
  [pc : {"off", "stat", "ready", "closing", "check", "truncate", "put"},
   mode : {"r", "w"}, forced : BOOLEAN, next : {"ready", "off"},
   orig : Wallet \cup {Empty}, data : Current, sess : SUBSET Addrs, ops : 0 .. MaxOps,
   failed : BOOLEAN, mine : SUBSET Addrs, touched : BOOLEAN,
   shown : (Addrs \X Balances) \cup {None}, out : {"ok", "error", "killed"}]

\* The type of the state.
TypeOK ==
  /\ file \in Wallet \cup {NoFile, Empty, Garbage}
  /\ w \in [Procs -> Object]
  /\ runs \in 0 .. MaxRuns
  /\ base \in Wallet \cup {None}
  /\ raced \in BOOLEAN /\ broke \in BOOLEAN

Sound == ~raced /\ ~broke

\* A process that is about to replace the file has in its own copy started
\* from the last complete wallet (write_data_to_file() compares the file
\* with orig_data), unless two writes overlap or one was cut short.
CheckedBase ==
  Sound => \A p \in Procs : Writing(p) => w[p].orig = (IF base = None THEN Empty ELSE base)

\* A write never undoes what another process has written: entries that the
\* writer has not changed itself stay as they were (TwCtlWithStore.write).
NoLostUpdate ==
  [][Sound' /\ base # None =>
       \A p \in Procs : w[p].pc = "put" /\ base' # base =>
         \A a \in Addrs \ w[p].mine : base'.book[a] = base.book[a]]_vars

\* The MMGen ID an address is stored under is never replaced by another,
\* not even by a process that was started before it was stored
\* (check_import_mmid).
IdsKept ==
  [][Sound' /\ base # None =>
       \A a \in Addrs :
         LET e == base.book[a]  f == base'.book[a]
         IN  (e # None /\ f # None) => (e.mmid \in Ids => f.mmid = e.mmid)]_vars

\* Nobody is left with a file that cannot be read, unless a write was cut
\* short or two overlapped: a check that fails leaves the file alone
\* (init_from_wallet_file ends every later command on such a file).
Readable ==
  Sound /\ file \in {Empty, Garbage} => \E p \in Procs : w[p].pc = "put"

\* A program that ends without an error while nobody else writes has saved
\* all it did, whatever the order of its operations and writes
\* (__del__, write: the check has no false alarm).  One that opened the
\* wallet to read it may create or upgrade the file and changes nothing
\* else in it (force_write).
SavesItsOwn(p) ==
  (w[p].pc \notin {"off", "stat"} /\ w'[p].pc = "off" /\ w'[p].out # "killed"
     /\ ~w[p].touched /\ w[p].mode = "w") => base'.book = w[p].data.book

ReaderKeeps(p) ==
  w[p].pc = "put" /\ w[p].mode = "r" /\ base' # base =>
    base'.book = (IF base = None THEN NoBook ELSE base.book)

EachSavesItsOwn == [][Sound' => \A p \in Procs : SavesItsOwn(p) /\ ReaderKeeps(p)]_vars

\* A balance that the view reports as refreshed is the one kept and stored
\* from then on (i_balance_refresh).
RefreshTakesEffect ==
  \A p \in Procs : w[p].shown # None =>
    \E a \in Addrs, b \in Balances : w[p].shown = <<a, b>> /\ w[p].data.book[a].bal = b
=============================================================================
