------------------------------- MODULE XmrOps -------------------------------
(* Operations on Monero wallets by way of the wallet daemon                *)
(* (xmrwallet/ops): creating, dumping and restoring wallets, new accounts  *)
(* and addresses, labels, sweeps and transfers, and the files transactions *)
(* pass through (xmrwallet/file/tx.py).  A wallet is its accounts, an      *)
(* account its addresses, an address its label: Monero derives addresses   *)
(* from the keys, so address <<w, a, i>> is the same in every wallet file  *)
(* of wallet w.  Accounts and addresses count from 0.                      *)
EXTENDS Integers, Sequences, FiniteSets, Functions

CONSTANTS
    Jobs,           \* what the user asks for
    Worlds,         \* the wallet files there are to begin with
    Labels,         \* the labels of addresses
    NewLabel,       \* the label of a new address
    MaxCommands, MaxFiles, MaxFails     \* bounds

VARIABLES
    wallets,        \* the wallet files, <<index, watch-only>>; << >> where there is none
    dumps,          \* the dump files, by the wallet file's name
    opened,         \* the wallet the daemon has open
    job, pc, todo,  \* the command, and the wallets it has to process
    seen,           \* wallet data as last asked for of the source wallet
    dest, chk,      \* where to sweep to, and what that must be
    tx, files,      \* the transaction made, and the transaction files
    before,         \* history: the wallets when the command began
    count           \* commands, failures

opVars == <<wallets, dumps, opened, job, pc, todo, seen, dest, chk, tx, files, before, count>>

None == -1
NoneOpen == <<0, FALSE>>
NoAddr == <<0, None, None>>
NoTx == [op |-> "none", from |-> NoneOpen, source |-> <<0, 0>>, dest |-> NoAddr, addr |-> NoAddr, spends |-> {}]
At(seq, i) == seq[i + 1]
Sweeps == {"sweep", "sweep_all"}
SpecOps == Sweeps \union {"transfer", "new", "label"}

Source == <<job.src, job.watch>>
(* A sweep without a destination goes to the source wallet.                *)
DestWallet == IF job.dest = 0 THEN Source ELSE <<job.dest, job.watch>>
Needed(j) == IF j.op \in SpecOps THEN {<<j.src, j.watch>>} \union (IF j.dest = 0 THEN {} ELSE {<<j.dest, j.watch>>})
             ELSE {<<w, j.watch>> : w \in Range(j.walls)}

HasAcct(data, a) == a \in 0 .. Len(data) - 1
HasAddr(data, a, i) == HasAcct(data, a) /\ i \in 0 .. Len(At(data, a)) - 1
LastAddr(w, data, a) == <<w[1], a, Len(At(data, a)) - 1>>
create_address(data, a, label) == [data EXCEPT ![a + 1] = Append(@, label)]
create_account(data, label) == Append(data, <<label>>)
label_address(data, a, i, label) == [data EXCEPT ![a + 1] = [@ EXCEPT ![i + 1] = label]]

(* The wallet files there may be.  Every account has an address.           *)
Walls == UNION {DOMAIN world : world \in Worlds}
Data == Seq(Seq(Labels) \ {<<>>})

OpsAssumption ==
    /\ {"", "Primary account", NewLabel} \subseteq Labels
    /\ Worlds \subseteq [Walls -> Data]
    /\ \A w \in Walls : w[1] # 0 /\ w \in {<<w[1], TRUE>>, <<w[1], FALSE>>} /\ {<<w[1], TRUE>>, <<w[1], FALSE>>} \subseteq Walls
    /\ \A j \in Jobs :
        /\ j.op \in SpecOps \union {"create", "dump", "restore"}
        /\ Needed(j) \subseteq Walls /\ (j.op \notin SpecOps => j.walls \in Seq({w[1] : w \in Walls}) \ {<<>>})
        /\ {j.acct, j.dacct, j.idx} \subseteq Int /\ j.label \in Labels /\ {j.watch, j.norelay} \subseteq BOOLEAN
        /\ j.dest = 0 => j.dacct = None

Rest == <<dumps, job, todo, files, before, count>>
Goto(l) == pc' = l
End(how) == pc' = how

-------------------------------------------------------------------------------
(* Wallets to be created must not exist, all others must.  The daemon is   *)
(* restarted.                                                              *)
Begin == pc \in {"idle", "done", "died", "refused", "crashed"} /\ count[1] < MaxCommands /\
    \E j \in Jobs :
        LET new == j.op \in {"create", "restore"} IN
        /\ job' = j /\ before' = wallets /\ opened' = NoneOpen
        /\ count' = <<count[1] + 1, count[2]>>
        /\ todo' = IF j.op \in SpecOps THEN <<>> ELSE [i \in DOMAIN j.walls |-> <<j.walls[i], j.watch>>]
        /\ pc' = IF \E w \in Needed(j) : (wallets[w] = <<>>) # new THEN "died"
                 ELSE IF j.op \in SpecOps THEN "open" ELSE "process"
        /\ seen' = <<>> /\ dest' = NoAddr /\ chk' = NoAddr /\ tx' = NoTx
        /\ UNCHANGED <<wallets, dumps, files>>

(* The source wallet is opened and its data asked for; an account or       *)
(* address it has not got is refused, but for that of a new address, which *)
(* is looked up in the data.                                               *)
open_wallet == pc = "open" /\
    LET data == wallets[Source] IN
    /\ opened' = Source /\ seen' = data
    /\ pc' = IF job.op = "new" THEN IF job.acct = None \/ HasAcct(data, job.acct) THEN "new" ELSE "crashed"
             ELSE IF ~HasAcct(data, job.acct) THEN "refused"
             ELSE IF job.op = "label" THEN IF HasAddr(data, job.acct, job.idx) THEN "label" ELSE "refused"
             ELSE IF job.op = "transfer" THEN "make" ELSE "dest"
    /\ UNCHANGED <<wallets, dest, chk, tx, Rest>>

(* The prompts are before the calls, each of which may be declined.        *)
Decline == pc \in {"dest", "dest?", "new", "label", "relay"} /\ End("done")
    /\ UNCHANGED <<wallets, opened, seen, dest, chk, tx, Rest>>

NewOp == pc = "new" /\
    /\ wallets' = [wallets EXCEPT ![opened] =
            IF job.acct = None THEN create_account(@, job.label) ELSE create_address(@, job.acct, job.label)]
    /\ End("done") /\ UNCHANGED <<opened, seen, dest, chk, tx, Rest>>

LabelOp == pc = "label" /\
    /\ wallets' = [wallets EXCEPT ![opened] = label_address(@, job.acct, job.idx, job.label)]
    /\ End("done") /\ UNCHANGED <<opened, seen, dest, chk, tx, Rest>>

-------------------------------------------------------------------------------
(* Where a sweep goes.  To the same account: a new address or the last.    *)
SweepToSame == pc = "dest" /\ job.dest = 0 /\
    /\ \/ /\ wallets' = [wallets EXCEPT ![opened] = create_address(@, job.acct, NewLabel)]
          /\ seen' = wallets'[opened]
          /\ chk' = LastAddr(opened, seen', job.acct)
       \/ UNCHANGED <<wallets, seen, chk>>
    /\ dest' = LastAddr(opened, seen', job.acct)
    /\ Goto("make") /\ UNCHANGED <<opened, tx, Rest>>

(* To a wallet: a new account, or the last address of the last account,    *)
(* which must be that account's base address.                              *)
SweepToWallet == pc = "dest" /\ job.dest # 0 /\ job.dacct = None /\
    LET data == wallets[DestWallet]
        last == Len(data) - 1 IN
    /\ \/ /\ wallets' = [wallets EXCEPT ![DestWallet] = create_account(@, NewLabel)]
          /\ dest' = <<job.dest, Len(data), 0>> /\ UNCHANGED chk
       \/ /\ dest' = LastAddr(DestWallet, data, last) /\ chk' = <<job.dest, last, 0>>
          /\ UNCHANGED wallets
    /\ opened' = Source
    /\ pc' = IF chk' \in {NoAddr, dest'} THEN "make" ELSE "crashed"
    /\ UNCHANGED <<seen, tx, Rest>>

(* To an account: it is the source account that is looked for there.       *)
check_account_exists(data) == HasAcct(data, job.acct)

OpenDest == pc = "dest" /\ job.dest # 0 /\ job.dacct # None /\
    LET data == wallets[DestWallet] IN
    /\ opened' = DestWallet
    /\ pc' = IF ~check_account_exists(data) THEN "refused" ELSE IF HasAcct(data, job.dacct) THEN "dest?" ELSE "crashed"
    /\ UNCHANGED <<wallets, seen, dest, chk, tx, Rest>>

(* A slip: the destination wallet stays open.                              *)
NotReopened == pc = "dest?" /\
    /\ dest' = LastAddr(opened, wallets[opened], job.dacct)
    /\ Goto("make") /\ UNCHANGED <<wallets, opened, chk, seen, tx, Rest>>

SweepToAccount == pc = "dest?" /\
    /\ \/ /\ wallets' = [wallets EXCEPT ![opened] = create_address(@, job.dacct, NewLabel)]
          /\ chk' = LastAddr(opened, wallets'[opened], job.dacct)
       \/ UNCHANGED <<wallets, chk>>
    /\ dest' = LastAddr(opened, wallets'[opened], job.dacct)
    /\ opened' = Source
    /\ Goto("make") /\ UNCHANGED <<seen, tx, Rest>>

(* The wallet that is open makes the transaction: of every address of the  *)
(* account for sweep_all, else of one of the daemon's choosing.            *)
make_tx == pc = "make" /\
    /\ tx' = [op |-> job.op, from |-> opened, source |-> <<job.src, job.acct>>,
              dest |-> IF job.op = "transfer" THEN NoAddr ELSE <<DestWallet[1], dest[2], dest[3]>>,
              addr |-> IF job.op = "transfer" THEN job.addr ELSE dest,
              spends |-> IF job.op = "sweep_all" THEN 0 .. Len(At(seen, job.acct)) - 1 ELSE {}]
    /\ Goto("write") /\ UNCHANGED <<wallets, opened, seen, dest, chk, Rest>>

-------------------------------------------------------------------------------
(* Transaction files.  Each class of the ones that are written sets the    *)
(* times and transaction sets it is about and keeps the rest.              *)
File(ext, id, body, sign, submit, unsigned, signed, complete) ==
    [ext |-> ext, id |-> id, tx |-> body, sign |-> sign, submit |-> submit,
     unsigned |-> unsigned, signed |-> signed, complete |-> complete]
NewUnsigned(id, body) == File("rawtx", id, body, FALSE, FALSE, TRUE, FALSE, FALSE)
NewSigned(id, body) == File("sigtx", id, body, TRUE, FALSE, FALSE, FALSE, TRUE)
NewColdSigned(f) == [f EXCEPT !.ext = "sigtx", !.sign = TRUE, !.unsigned = FALSE, !.signed = TRUE]
NewSubmitted(f) == [f EXCEPT !.ext = "subtx", !.submit = TRUE, !.complete = TRUE]

(* What each class of the ones that are read insists on.                   *)
Reads(class, f) ==
    \/ class = "Unsigned" /\ f.ext = "rawtx" /\ f.unsigned /\ ~f.sign /\ ~f.signed
    \/ class = "Signed" /\ f.ext = "sigtx" /\ f.sign /\ ~f.signed /\ ~f.unsigned
    \/ class = "ColdSigned" /\ f.ext = "sigtx" /\ f.sign /\ f.signed
    \/ class = "Submitted" /\ f.ext = "subtx" /\ f.sign /\ f.signed

WriteTx == pc = "write" /\ Cardinality(files) < MaxFiles /\
    LET id == count[1]  f == IF job.watch THEN NewUnsigned(id, tx) ELSE NewSigned(id, tx) IN
    /\ files' = files \union {f}
    /\ pc' = IF job.norelay THEN "done" ELSE "relay"
    /\ UNCHANGED <<wallets, opened, seen, dest, chk, tx, dumps, job, todo, before, count>>

(* With a relay daemon of its own the source wallet is opened anew.        *)
relay_tx == pc = "relay" /\ opened' = Source /\ End("done")
    /\ UNCHANGED <<wallets, seen, dest, chk, tx, Rest>>

(* Signing offline, submitting, and again; and relaying what an online     *)
(* wallet signed.                                                          *)
FileOp == pc \in {"idle", "done", "died"} /\
    \E f \in files :
        /\ \/ Reads("Unsigned", f) /\ files' = files \union {NewColdSigned(f)}
           \/ Reads("ColdSigned", f) /\ files' = files \union {NewSubmitted(f)}
        /\ UNCHANGED <<wallets, dumps, opened, job, pc, todo, seen, dest, chk, tx, before, count>>

-------------------------------------------------------------------------------
(* The operations on one wallet after another.                             *)
w0 == Head(todo)
Processed == todo' = Tail(todo) /\ pc' = IF todo' = <<>> THEN "done" ELSE "process"
Fixed == UNCHANGED <<job, chk, tx, files, before, count>>

Fresh == <<<<"Primary account">>>>

CreateOp == pc = "process" /\ job.op = "create" /\
    /\ wallets' = [wallets EXCEPT ![w0] = Fresh] /\ Processed
    /\ UNCHANGED <<dumps, opened, seen, dest>> /\ Fixed

DumpOp == pc = "process" /\ job.op = "dump" /\
    /\ opened' = w0 /\ dumps' = [dumps EXCEPT ![w0] = wallets[w0]] /\ Processed
    /\ UNCHANGED <<wallets, seen, dest>> /\ Fixed

(* Restoring: the wallet is created and opened, then the dump file is      *)
(* looked for, that of the watch-only wallet first.                        *)
DumpFor(w) == IF dumps[<<w[1], TRUE>>] # <<>> THEN dumps[<<w[1], TRUE>>] ELSE dumps[<<w[1], FALSE>>]

RestoreNew == pc = "process" /\ job.op = "restore" /\
    /\ wallets' = [wallets EXCEPT ![w0] = Fresh] /\ opened' = w0
    /\ IF DumpFor(w0) = <<>> THEN End("died") /\ UNCHANGED seen
       ELSE Goto("accounts") /\ seen' = DumpFor(w0)
    /\ UNCHANGED <<dumps, todo, dest>> /\ Fixed

(* Accounts come with a first address.                                     *)
restore_accounts == pc = "accounts" /\
    /\ wallets' = [wallets EXCEPT ![opened] = @ \o [a \in 1 .. Len(seen) - 1 |-> <<"">>]]
    /\ Goto("subaddresses") /\ UNCHANGED <<dumps, opened, todo, seen, dest>> /\ Fixed

restore_subaddresses == pc = "subaddresses" /\
    /\ wallets' = [wallets EXCEPT ![opened] =
            [a \in DOMAIN @ |-> @[a] \o [i \in 1 .. Len(seen[a]) - 1 |-> ""]]]
    /\ Goto("labels") /\ UNCHANGED <<dumps, opened, todo, seen, dest>> /\ Fixed

restore_labels == pc = "labels" /\
    /\ wallets' = [wallets EXCEPT ![opened] =
            [a \in DOMAIN @ |-> [i \in DOMAIN @[a] |-> IF a \in DOMAIN seen /\ i \in DOMAIN seen[a] THEN seen[a][i] ELSE @[a][i]]]]
    /\ Goto("check") /\ UNCHANGED <<dumps, opened, todo, seen, dest>> /\ Fixed

check_restored_data == pc = "check" /\
    /\ IF wallets[opened] = seen THEN Processed ELSE End("died") /\ UNCHANGED todo
    /\ UNCHANGED <<wallets, dumps, opened, seen, dest>> /\ Fixed

(* Any call of the daemon may fail, which ends the command; the daemon     *)
(* saves what has been done when it is stopped.                            *)
Fail == pc \notin {"idle", "done", "died", "refused", "crashed"} /\ count[2] < MaxFails
    /\ count' = <<count[1], count[2] + 1>> /\ End("died") /\ opened' = NoneOpen
    /\ UNCHANGED <<wallets, dumps, job, todo, seen, dest, chk, tx, files, before>>

Init ==
    /\ wallets \in Worlds /\ dumps = [w \in DOMAIN wallets |-> <<>>] /\ opened = NoneOpen
    /\ job = [op |-> "none", src |-> 0, acct |-> None, dest |-> 0, dacct |-> None, idx |-> None, label |-> "",
              addr |-> NoAddr, watch |-> FALSE, norelay |-> FALSE, walls |-> <<>>]
    /\ pc = "idle" /\ todo = <<>> /\ seen = <<>> /\ dest = NoAddr /\ chk = NoAddr /\ tx = NoTx /\ files = {}
    /\ before = wallets /\ count = <<0, 0>>

Next ==
    \/ Begin \/ open_wallet \/ Decline \/ NewOp \/ LabelOp
    \/ SweepToSame \/ SweepToWallet \/ OpenDest \/ SweepToAccount \/ make_tx \/ WriteTx \/ relay_tx \/ FileOp
    \/ CreateOp \/ DumpOp \/ RestoreNew \/ restore_accounts \/ restore_subaddresses \/ restore_labels \/ check_restored_data
    \/ Fail

Spec == Init /\ [][Next]_opVars

-------------------------------------------------------------------------------
(* A transaction is made by the wallet, and goes to the address, that the  *)
(* user told; what its file says of the destination is where it goes; and  *)
(* sweep_all leaves out no address there was.                              *)
SpendsAsTold ==
    tx # NoTx =>
        /\ tx.from = Source /\ tx.source = <<job.src, job.acct>>
        /\ job.op \in Sweeps =>
            /\ tx.addr = tx.dest
            /\ tx.addr[1] = DestWallet[1]
            /\ job.dest = 0 => tx.addr[2] = job.acct
            /\ job.dacct # None => tx.addr[2] = job.dacct
            /\ HasAddr(wallets[DestWallet], tx.addr[2], tx.addr[3])
        /\ job.op = "sweep_all" => 0 .. Len(At(before[Source], job.acct)) - 1 \subseteq tx.spends

Added(w, a, i) == ~(a \in DOMAIN before[w] /\ i \in DOMAIN before[w][a])

(* No command takes away an account or address, or changes a label but the *)
(* one it was asked to change; at most one address or account is added.    *)
KeepsAddresses ==
    \A w \in DOMAIN before : before[w] # <<>> =>
        /\ \A a \in DOMAIN before[w] : \A i \in DOMAIN before[w][a] :
            /\ a \in DOMAIN wallets[w] /\ i \in DOMAIN wallets[w][a]
            /\ \/ wallets[w][a][i] = before[w][a][i]
               \/ job.op = "label" /\ w = Source /\ a = job.acct + 1 /\ i = job.idx + 1
        /\ \A a, b \in DOMAIN wallets[w] : \A i \in DOMAIN wallets[w][a], j \in DOMAIN wallets[w][b] :
            Added(w, a, i) /\ Added(w, b, j) => a = b /\ i = j

(* A wallet restored to the end has the accounts, addresses and labels of  *)
(* its dump.                                                               *)
RestoredAsDumped ==
    job.op = "restore" /\ pc = "done" =>
        \A w \in Needed(job) : wallets[w] = DumpFor(w)

(* A transaction file can be read by the operation that is next for it and *)
(* by no other.                                                            *)
Classes == {"Unsigned", "Signed", "ColdSigned", "Submitted"}

ReadByOne == \A f \in files : \E c \in Classes : Reads(c, f) /\ \A d \in Classes : Reads(d, f) => c = d

OpsRight == SpendsAsTold /\ KeepsAddresses /\ RestoredAsDumped /\ ReadByOne

(* help/xmrwallet.py: the sweep goes "into a newly created account in DEST, *)
(* or the last existing account of DEST, if requested by the user", or     *)
(* "into ACCOUNT of DEST": one that there is is not refused.               *)
SweepsAsAsked ==
    job.op \in Sweeps /\ HasAcct(before[Source], job.acct) /\ (job.dacct = None \/ HasAcct(before[DestWallet], job.dacct))
    => pc \notin {"refused", "crashed"}
=============================================================================
