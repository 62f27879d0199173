# A TLA+ development of MMGen Wallet

MMGen Wallet is a suite of command-line programs for cold storage of
cryptocurrency. Keys live on an offline machine; an online machine follows the
coins with a tracking wallet and a coin daemon; transactions go back and forth on
a removable device. Much of its difficulty lies between its programs: they
share no memory and no locks, only files (the removable device's, the tracking
wallet's JSON file, wallet files), daemons, and a status LED. The rest is in long
sequences of conversions, each of which must undo another exactly, and in
interactive loops that go on until amounts fit. This project models these states and
the programs that change them, checks the models with TLC and proves the main
safety properties of the shared state for all parameters with TLAPS.

All source paths below are relative to `src/mmgen/`.

## 1. Inventory

| Component | State it keeps | Operations | Interacts with | What makes it correct |
|---|---|---|---|---|
| Online transaction commands (`main_txcreate.py`, `main_txbump.py`, `main_txsend.py`, `tx/online.py`, `tx/util.py`) | none of its own between runs; files on the device, the network's view of a transaction | create, bump, send, mark-sent, abort, status | device files, coin daemon or proxy site | one transaction in flight; a sent record is true and stays; the user is never stuck |
| Offline signing and cleaning (`autosign.py`: `Signable.*`, `sign_all`, `clean_old_files`) | signed files, shredded files | sign, clean | device files | nothing signed twice, nothing unsent lost |
| Setup and swap space (`autosign.py`: `setup`, `gen_key`, `SwapMgr`) | key on the device, wallet files in RAM, swaps switched off | setup, gen_key, wipe_key, disable and enable swap | device, wait loop | no key on disk; wallet and key list of one setup |
| Wait loop and signal handling (`autosign.py`: `main_loop`, `do_sign`, `at_exit`) | mounted or not, previous sample, session | poll, mount, unlock, sign, unmount, exit | LED, device, signals | each insertion served, device returned, exit is final |
| Status LED (`led.py`) | thread, Event, LED and trigger files | set, stop, blink | called from the wait loop and from a signal handler inside itself | one blinker, LED handed back |
| Tracking wallet store (`tw/store.py`, `tw/ctl.py`, `fileutil.py`) | JSON file, a process's copy of it | open, upgrade, import, remove, label, cache balance, load dump, write, exit | other processes with the same file open | no lost update, file readable, no false alarm |
| Tracking wallet views (`tw/view.py`, `tw/prune.py`, `tw/addresses.py`, `tw/txhistory.py`, `tw/unspent.py`, `tw/bal.py`) | sort order, scroll position, prune set | key commands, lists | store, coin daemon | the entry named is the entry shown; the list says what the node said |
| Dump and import (`tw/json.py`) | JSON file with checksums | dump, prune, import | daemon's wallets, store | what was dumped is restored, or nothing |
| Monero wallets (`xmrwallet/`, `autosign.py`) | watch-only wallets, signing wallets, outputs files, wallet daemons | create, restore, transfer, sweep, export, import key images, submit, sign, setup | device files, one daemon port on each machine, Monero network | outputs before transactions, right wallet open, right daemon relays, records true |
| Daemons and RPC (`daemon.py`, `proto/*/daemon.py`, `proto/btc/regtest.py`, `rpc/`) | process on a port, pid file, loaded wallets | start, stop, restart, load or create a wallet | every program that needs a daemon | the daemon used is the one started; wallets are loaded |
| Transaction creation (`tx/new.py`, `tx/base.py`, `tx/bump.py`, `proto/*/tx/*`) | inputs, outputs, fee of one session | prompts, selection, fee and change loop, replacement | tracking wallet, daemon | inputs = outputs + fee; fee in bounds; what the user asked for |
| Transaction files and signing (`tx/file.py`, `tx/completed.py`, `tx/keys.py`, `proto/*/tx/unsigned.py`) | serialized transaction and its file | write, read, find keys, sign | daemon, wallets | what is signed and sent is what was shown |
| Sending (`tx/online.py`, `tx/tx_proxy.py`, `proto/*/tx/status.py`) | sent record | send, status, receipt | node, proxy | a status is true; two parts in order |
| Swaps (`swap/`, `tx/new_swap.py`) | quote and its expiry | quote, memo, refresh, bump | Thornode | memo decodes to what was asked; the quote shown is the one used |
| Messages (`msg.py`, `main_msg.py`) | message file | create, sign, verify, export | wallets | every address signed or reported |
| Sub-seeds and seed splitting (`subseed.py`, `seedsplit.py`) | cached lists of derived seeds | generate, look up, join | pure | unique IDs, lookup independent of order, join restores |
| Wallets and encryption (`wallet/`, `crypto.py`, `main_wallet.py`, `sha2.py`, `altcoin/util.py`, `tool/fileutil.py`) | wallet files | generate, convert, change passphrase, encrypt, search | user, file system | opens to its seed and to nothing else; a file to open is always left |
| Mnemonics, HD, address lists, addresses (`bip39.py`, `baseconv.py`, `mn_entry.py`, `xmrseed.py`, `bip_hd/`, `addr*.py`, `key*.py`, `protocol.py`) | none | derivation, encoding, parsing, entry | each other's texts | round trips; a text is read as what it is or refused |
| Configuration, terminal, values (`cfg.py`, `opts.py`, `cfgfile.py`, `ui.py`, `term.py`, `amt.py`, `obj.py`) | options, configuration files, terminal mode | parse, ask, read, write, compute | every program | precedence of sources; a question is answered once it is read; amounts exact |
| Word lists, chain parameters, help, licence | - | - | - | tables and texts |

Components and their status are in `PROJECT.json` in the same terms. The hard
behaviours, each at its line, are its `hazards`: interleavings of commands that
list the device early and write to it late, crashes between truncating and
writing, between broadcasting and recording, between shredding one file and the
next; Python signal handlers running inside the code they interrupt; a write
that checks and then truncates; state that says what a daemon has open
without asking it; lists put together from answers of different moments; and quotes,
fees and change that are computed again and again while the user decides.

## 2. Modules

    AutosignDevice ──┬── OnlineTx ─────┐
                     ├── OfflineSign ──┴─ TxAutosign ──(refines)── TxLifecycle
                     │                      ├── TxAutosign_proofs
                     │                      └── MCTransactions ··· ChangeAddr TxCreate TxFile TxSign TxSend
                     │                               │               EthTx Swaps MsgSign AutosignSetup Config Prompts
                     │                               ├── Transactions_proofs
                     │                               └── Signing_proofs
                     └── XmrAutosign (INSTANCE) ── MCMonero ··· WalletDaemon XmrOps
                                                      └── XmrAutosign_proofs
    StatusLed ── AutosignWait ── AutosignWait_proofs
    TwStore ── MCTrackingWallet ··· TwView Listings TwDump CoinDaemons
                  └── TwStore_proofs
    SubSeeds ── MCSeeds ··· SeedShares Wallets Ciphers HdPath Mnemonics AddrLists Addresses Values
                   └── SubSeeds_proofs

A dotted line is an INSTANCE. The modules after it do not share state with one another; so
that each is checked with a few configurations, a host module (`MCTransactions`, `MCMonero`,
`MCTrackingWallet`, `MCSeeds`) has a variable `subject` that says which module a behaviour is about. A run of a
host is thus one run of each of its modules; the variables a module does not use stay 0. Modules of one host
that have a variable of one name share it, as `job` and `step`; in MCSeeds those no theorem is about take `v1`, `v2` ... under
their own names. What an instance is proved about takes its parameters from constants of the host, and the small worlds of each
module (jobs, wallets, texts) are definitions of the host, given to those constants in its configuration:
so the proofs, whose modules EXTEND the host, are about any worlds, and the runs about these.

### The removable device: AutosignDevice, OnlineTx, OfflineSign, TxAutosign, TxLifecycle
**AutosignDevice**: three files per transaction (`raw`, `sig`, `sub`), each absent,
partial or full, where the device is plugged in and whether it is mounted, and what has
been written since the last sync. The listings (`Unsigned`, `Unsent`, `UnsentRaw`,
`Submitted`, `CreateOk`, `Abortable`) are `Signable.base._unprocessed` and
`automount_transaction`: they look at names only. `Open`/`Complete` are the two halves of
`write_data_to_file`, `Overwrite`/`Remove` those of `shred_file`.
**OnlineTx**: one process per terminal. A command mounts (`Start`), lists once, and then goes
on from what it saw, while the user and the network take their time:
`StartCreate`/`StartBump`, `Compose`, `WroteRaw`; `StartSend`, `Send`, `OpenSub`,
`WroteSub`; `StartAbort`, `Confirm`, `ShredRaw`, `ShredSig`, `Erased`; `Status`;
`Exit` is the atexit unmount. `SendUnmarked` covers a lost answer and a user who
declines to mark; `MarkSent` the user's own claim. `Kill` and `OnlinePowerLoss`
end a command anywhere.
**OfflineSign**: the signer (`StartSign`, `Sign`, `WroteSig`, `SignUmount`) and the cleaner
(`StartClean`, `CleanFiles` for the three passes of `clean_files()`, one file at a time). Their order matters: `Lifecycle` fails if a signed file goes before the raw file it answers.
`NoKeys` are transactions the offline wallet has no keys for.
**TxAutosign** composes the two machines, the user who carries the device, and at most
`MaxFaults` crashes. **TxLifecycle** is the promise: each transaction goes
none → unsigned → signed → sent, back to none by abort, and none is created
while another is in flight. `lifeBar` reads the stage off the listings by which the commands go: a sent transaction whose raw file were left without
its signed one would be unsigned again.

### A transaction from end to end: TxCreate, ChangeAddr, TxSign, TxFile, TxSend, EthTx
**TxCreate**: the loop of `tx/new.py` with its prompts: outputs of the command line, inputs, fee,
change (`UpdateChange`, which deletes or reduces the change output), serialization by a daemon that
is not believed (`CreateSerialized`), and fee bumps. An amount is a small number, a size a number of
inputs and outputs, so fee and size depend on each other as in the code. **ChangeAddr** is the bisection
of `tw/addresses.py`, compared with a search of the whole list. **TxSign**: six calls of
`add_keys()` per transaction, several transactions in one command, with the list of
seed sources they share. **TxFile**: a serialized transaction is a sequence of cells, of which daemons and disk may change any;
`Alter` changes one item of a file: the data, the locktime, either ID, anything in an input or an output. The amounts and types of inputs and the change
flag are compared with nothing, and `coin_txid` only with the network's answer, when the transaction is out. **TxSend**: the network moves
(`Network`) between any two of the questions of which a status is put together. **EthTx**:
RLP with smaller constants (`Str` for 128, `Few` for 56), encoded and parsed, and the three commands'
checks of a file of which any one item was altered before or after it was signed. The signer compares sender, recipient and amount with the
file's other mention of them, and nothing else: `Unnoticed` and `UnnoticedPlaces` name what the other items (`chainId`, `nonce`, gas and its price, the code and value of a contract, the
decimals of a token, memo, vault, expiry and gas of a swap's second part) change in what is sent, and `EthSentAsAsked` says that all the rest is what was asked for, in both parts of a swap.

### Swaps, MsgSign, AutosignSetup, Config, Prompts
**Swaps**: quotes arrive and grow old (`Tick`), are refreshed by hand (`update_vault_output`) or by age (`check_age`);
memo integers with their exponents are compared with what was written (`IntsRight`). A replacement chooses the output that is to pay (`choose_output`), gets its quote
for what the original sends (`create_feebump`), and is asked for the fee after that (`bump_fee`): a vault output that pays gets less than its quote is for, and a quote that has grown old
meanwhile is not got again. **MsgSign**: a file signed by one wallet
after another, verified and exported, altered at most once. **AutosignSetup**: one terminal with the commands, another with the loop, a device
that is pulled out and put in, power cuts. **Config**: option names are sequences of syllables, so abbreviation
is a prefix; line by line through command line and files, killed in between. **Prompts**: a keyboard that repeats while a key is held,
a clock that moves while the program waits, another program that makes files.

### StatusLed, AutosignWait
StatusLed is `LEDControl` at the granularity at which a signal handler can
interrupt: between setting the Event, joining the thread, clearing the Event,
creating and starting the next thread. Two frames, `main` and `handler`, may be
inside it at once, the handler on top. The Event's lock is the one non-reentrant lock of
CPython's `threading.Event`, which a handler cannot get if the interrupted frame
holds it (`evLock = "suspended"`). AutosignWait adds the main loop and the
signing session with every exit: wrong key, no device, busy device, exceptions
caught by `except:` and not caught, and signals at each point.

### TwStore, TwView, Listings, TwDump, CoinDaemons
**TwStore**: each process is a `TwCtl` object: `Open` reads or creates, `Stat`/`force_write` upgrades,
operations change the copy, `Check`, `Truncate` and `Put` are the three steps of a write
(compare with `orig_data`, open for writing, write), `Close` is `__del__`. History
variables: `base`, the last wallet written whole; `raced`, whether two writes
overlapped; `broke`, whether one was cut short; and in each process what it
has changed itself. Properties hold while neither `raced` nor `broke`; the code has
no defence once they are set, and the windows are exactly `{truncate, put}`.
**TwView**: one action per key, and `Outside` for what other commands do to the wallet meanwhile; the dialogue of `tw/prune.py` is
compared with what its answers mean taken together. **Listings**: one action per question to the node,
`Outside` between them (a block, a new label); sorting, filtering and column widths. **TwDump**: a checksum is what it was made from; the
dump may be changed, the import killed. **CoinDaemons**: a command is the sequence of
steps it has left (`todo`); a daemon starts and stops in steps of its own (`DaemonGoesOn`).

### XmrAutosign, WalletDaemon, XmrOps
**XmrAutosign**: the watch-only wallets of the online machine (`seen`, `kis`), the signing wallets of
the offline one (`imp`), the chain (`recv`, `spent`, `net`), one wallet daemon on
each side, and on the device outputs files and transactions. Outputs are
numbered as a wallet receives them; the outputs file exporting the first n of
wallet w is `<<w, n>>`. On the online side one action per step of a command: `RestartDaemon`, `OpenWallet`,
`WriteTx`, `UnlinkStale`, `WriteOutputs`, `ImportKeyImages`, `RelayDaemon`,
`SubmitTransfer`, `WriteSub`, `Exit`. On the offline side `List`, `Pick` (with
`need_daemon_restart`), `OpenSigning`, `ImportOutputs`, `SignTransfer`, `Wrote`, and `Setup`.
AutosignDevice is instantiated with outputs files as further names.
**WalletDaemon**: several commands that restart, use and stop the daemon of one port, found by
connecting to it and killed by the number in its pid file. **XmrOps**: what the commands do with wallets, call by call, any of which may fail.

### SubSeeds, SeedShares, Wallets, Ciphers
**SubSeeds** is `SubSeedList`: a request (`Ask`, by index or by Seed ID) is answered from the
list or starts `_generate()`, one `Try` per nonce. `scramble_seed()` is an arbitrary function:
each value is chosen when it is first used and the same for ever after. **SeedShares** is
`SeedShareList` built in one session after another: `Master` for the master share's nonces,
`AddShare` for `_generate()`, `Last` for the XOR share and the restart after a collision.
A seed is a set of bits there, so that XOR and joining are exact. The sessions stand for runs of
a program; they share no state in the code, and the properties say that they agree all the same.
**Wallets**: a key is `<<passphrase, salt, preset>>` and decryption with another gives something else; every format with its checksum,
and the steps of walletgen, walletconv and passchg with `Crash` between any two. **Ciphers**: encryption of files with the user's own entropy, keystores,
hash functions fed piece by piece (`update`, `digest`), the threads and queues of `rand2file` and the search of `find_incog_data`.

### Mnemonics, HdPath, AddrLists, Addresses, Values
Conversions, compared with their inverses and with definitions that look at everything: **Mnemonics** types a
phrase key by key in each mode; **HdPath** derives in steps or at once, privately or publicly, in a group of small order; **AddrLists** generates,
writes, edits, reads and imports lists; **Addresses** makes keys, WIF texts and addresses for every coin and
reads them as every other; **Values** computes with amounts, sets attributes, formats labels.

## 3. What the runs check

`tlc -config X.cfg M` with the configurations named. Deadlock checking is off
where the system may stop (the user may just go away, and the counters are bounded).

| Run | Module, configuration | Checks |
|---|---|---|
| `tx_one` | TxAutosign, `TxAutosign_one.cfg` | `TypeOK`, `OneInFlight`, `NewestLast`, `WayOut`, refinement `Lifecycle`, liveness `EventuallySigned` |
| `tx_two` | MCTransactions, `Transactions_two.cfg` | `SentIsTrue`, `SentStaysSent` of TxAutosign with two terminals; `MadeRight` (TxCreate: balance, fee, what was asked; ChangeAddr: the first unused address; Swaps), `BumpReplaces`, `SignedRight` (TxSign, AutosignSetup, MsgSign), `SentAsFiled` (TxFile, TxSend, EthTx), `OptionsRight` (Config, Prompts) |
| `wait_signals` | AutosignWait, `AutosignWait_signals.cfg` | `OneBlinker`, `RestoredAtExit`, `StandbyIsReady`, liveness `CallsReturn`, `GivenBack`, `InsertionServed` |
| `tw_two` | MCTrackingWallet, `TrackingWallet_two.cfg` | `TypeOK`, `CheckedBase`, `Readable`, `NoLostUpdate`, `IdsKept`, `EachSavesItsOwn` of TwStore; `ListAsTold` (TwView, Listings); `DumpRestores` (TwDump, CoinDaemons) |
| `xmr_pipe` | MCMonero, `Monero_pipe.cfg` | `RightWallet`, `OutputsFirst`, `FilesMatch`, `RelayOnly`, `KeyImagesCurrent` of XmrAutosign; `CommandsRight` (WalletDaemon, XmrOps) |
| `seeds` | MCSeeds, `Seeds.cfg` | `IdsUnique`, `SameInEverySession`, `NotFoundIsTrue` of SubSeeds; `SharesRejoin` of SeedShares; `ListsRight` (AddrLists); `WalletsOpen` (Wallets); `FormsRight` (Mnemonics, HdPath, Values, Addresses, Ciphers) |
| `tx_abort`, `tw_refresh`, `wait_key`, `wait_final`, `xmr_redo`, `xmr_sweep` | see the configuration | one property each that the code does not have: section 6 |

A property of a host is the conjunction of properties of its modules, each of which is
stated there on its own with a comment.

### Bounds, and why they are enough
| Module | Bounds |
|---|---|
| TxAutosign | `tx_one`: 3 transactions, one without keys, 1 terminal, 2 creation times, 1 crash; `tx_two`: 1 transaction, 2 terminals, signer and cleaner at once, 1 crash |
| TxCreate | 2 coins of 5 and 9, fees 0–7 of which 6 is the most, 11 command lines |
| TxSign | two transactions in one command, of 8 kinds; three seeds, one a sub-seed of another |
| TxFile, TxSend, EthTx | one alteration, of any one item of a file or any cell of what a daemon returns; one or two parts and a few moves of the network; lengths on either side of `Str`, `Few` and of two length bytes |
| Swaps, MsgSign | precision 2, 2 ticks, two quoted amounts, 7 coins to spend and fees of 1 and 2, one replacement; four seeds, one of them without a wallet, one alteration |
| AutosignSetup | 1 device, 2 keys |
| Config, Prompts | a few command lines and files for each kind of option; 4 key presses, a buffer of 2, repetition after 2 with a time-out of 3, files of at most 2 units |
| AutosignWait | 1 file a session, 2 insertions, 2 signals |
| TwStore | 2 processes of 2 operations, 2 program runs in all, 2 addresses, 1 ID |
| TwView, TwDump | 4 addresses, 2 keys; wallets of 2 addresses and 2 IDs on 2 networks, every part of them pruned, one change of the dump |
| Listings | one chain of 5 transactions, 2 events outside, 3 keys, terminals of 40 to 160 columns |
| CoinDaemons | 2 commands, 1 fault, a fork at height 2 |
| XmrAutosign, WalletDaemon, XmrOps | 2 wallets, 1 transaction, 2 outputs, 1 fault; 3 commands, 1 kill; 2 wallets of up to 2 accounts, 2 commands, 1 failed call |
| SubSeeds, SeedShares | 5 seeds, 2 indexes, 2 nonces, 2 sessions; seeds of 2 bits, 2 and 3 shares, 2 nonces, 2 sessions |
| Wallets, Ciphers | 2 commands, each killed anywhere; blocks of 4, pieces of 0 to 5, 2 threads, files of up to 8 with reads of 3 and IVs of 2, 2 tries of a password |
| Mnemonics, HdPath, AddrLists | small word lists with prefixes of one another; 4 keys typed; a group of order 23, indexes 0, 1 and a hardened one, unchecked paths of 3 steps; index lists of a few numbers, 1 failed import |
| Addresses, Values | bytes of 4 bits, characters of 3, keys of 2 bytes about an order of 199, hashes of 3 bytes, 14 core protocols and 3 other coins; 3 decimals in contexts of 4 to 6 digits, 3 operations |

One fault per behaviour: after a crash each program
starts from the files alone, so a second crash only matters through the state of
the files, which the first can already leave partial at every point. Two
terminals suffice for races between a listing and a write, since commands interact
pairwise through one transaction's files; two transactions are in flight only if
`OneInFlight` fails, and the third, with no keys, is what an offline machine cannot sign.
Two signals reach every nesting of handler and main
program: a third arrives in a handler inside a handler, which the code treats as the second.
Two insertions give the interesting sequence "seen absent, inserted again". Two
processes with two operations each overlap every pair of steps of two writes.
Two wallets are needed to confuse wallets, two outputs to make an export stale, one
transaction to race it. With five seeds two indexes of both lengths and the parent just have an ID each,
so collisions occur at every place and both with and without an exhausted nonce range;
with four seeds for a parent and three shares likewise. In the modules of conversions the numbers are scaled so that every
boundary of the code falls within them: a block that is just full, a length that just needs another
byte, a key that is just the order, a fee that just eats the change.

### Environment
What is not in the code is chosen as weakly as possible: the user answers every prompt either way, carries the device
whenever it is not mounted on the machine it leaves, and runs any command
at any time; the network takes, rejects or loses an answer; a power failure keeps
file names but may lose the contents of anything written since the last sync; a
kill ends a process between any two steps; a node finds blocks between any two questions. Assumed: mounting and the
listing that follows are one step (nothing else on that machine comes
between); what `sync` has returned for is durable; inputs of a new
transaction are unspent at its creation, and conflict with one that was
already sent only through a bump; the initial tracking wallet holds entries
written by the program; an outputs file is named by the number of outputs it
covers (its real name is a checksum of the data, equal when the data are equal); chains are not reorganized; hash
functions, ciphers and checksums are free functions of what they are computed from (so a collision is
possible only where a module makes the values collide: Seed IDs); and
the lock inside CPython's `threading.Event` behaves as in CPython.

### Fairness
`FairSpec` of TxAutosign: a started program goes on (weak fairness of the signer,
the cleaner and each command), which the operating system's scheduler justifies; the operator
plugs the device in offline and the polling loop sees it infinitely often when
that is again and again possible (strong fairness, because mounting elsewhere
disables it in between). `EventuallySigned` is conditional on no crash: after one, the device may be left for the user to unmount.
AutosignWait: the main thread and the
running LED threads take their next step. Nothing is assumed of signals or of
the user beyond that; `InsertionServed` is conditional on the device having been
seen absent, because the loop reacts to changes only. XmrAutosign's `FairSpec` is used by the
`xmr_redo` run alone: programs run on, the device is inserted again
and again, and the user gives commands; its safety run assumes nothing. The other modules are about
what commands may do, not whether they end: most of their loops wait for the user.

## 4. What is proved

`tlapm M.tla` checks the seven modules named `*_proofs`. Each theorem holds for all values of the constants that the
assumptions it names admit (most modules have one, beside the constants; TLC evaluates it in every run): any finite or infinite
set of transactions, terminals, processes, addresses and IDs, any bounds. A theorem about a module that a host
checks is first stated of that module's own `Spec`; its property is a conjunct of the host's. Where all conjuncts of a host's
property are proved, a last theorem says so of the specification the run checks, `MCSpec`, with any values of the host's
constants that meet its ASSUMEs: `AlwaysMadeRight`, `AlwaysReplaced`, `OptionsAlwaysRight`, `SigningAlwaysRight` (MCTransactions),
`CommandsAsTold` (MCMonero), `DumpsAndDaemons` (MCTrackingWallet), `SharesAlwaysRight` and `SeedNeverLost` (MCSeeds). Their proofs
map a step of the host to a step of the module that is the subject, which never changes, and go on from the module's theorem
or its inductive invariant.

The cost of an obligation grows with all that the host reaches, whatever the obligation is about. Modules hosted by MCTransactions and MCMonero
therefore take helpers from Functions, or define what little they need of sequences, and not from SequencesExt; and
what one definition computes in many local ones is split into several.

An inductive invariant is a conjunction of named parts, each proved in turn with one step per action. What takes induction
over numbers or finite sets is argued from a least exception (`Least`, `LeastSubset`, `Smallest`): the first index, or a smallest set,
at which the claim fails cannot exist. The library's induction theorems need an operator as a parameter, which the provers
do not instantiate; its theorem that a well-founded relation has minimal elements (`WFMin`) does not, and gives the same for sets of
numbers (`AllNat`). So recursive functions can be reasoned about, and sums by way of the function a fold computes; RECURSIVE operators cannot.
Of the models proved about, some were therefore written anew to the same effect: recursive functions or quantifiers in place of folds and LAMBDAs.

**TxAutosign_proofs.** `TypeCorrect` (`TypeOK`, with the control state's relation to
the transaction worked on); `SentRecordsStay` (`SentStaysSent`): only `OpenSub` and `Complete` touch
a sent record and `Remove` is never given one, which `CleanSparesSub` shows for the cleaner; `SentRecordsTrue`
(`SentIsTrue`): the invariant `SentInv` adds that a command past its point of no return
(`sure`) holds a transaction that was taken or claimed, since a listing is
stale by the time a record is written. The rest is about a single terminal (`\A p, q \in Procs : p = q`), because two `txcreate` programs
can both pass `check_create_ok()`. `SingleFlight` (`OneInFlight`): `FlightInv` says a creator
between its check and its file sees no transaction in flight, and that no
other command can produce one. `AlwaysAWayOut` (`WayOut`) and `NewestIsLast` (`NewestLast`) need `LoneInv`: the device is mounted where a command
works (`PlugInv`), what a command holds from its listing is still unsent (`AimInv`), the cleaner's third pass has sent records only (`DoomedInv`), no
file is dated in the future (`StampInv`), and without faults a signed file that cannot be read is being written or shredded at this moment (`WholeInv`).
`SentStaysSigned` (`SentNotUnsigned`, a part of what `Lifecycle` says), for a signer and a cleaner that run in turn: by `SweepInv` the cleaner's second pass has seen to the raw file of every sent transaction before the third
removes signed ones, and no other program works meanwhile (`CleanerAlone`). `LifecycleKept` (`Lifecycle`) is the refinement: with these each step of a command, kill or power failure is a step of `TxLifecycle` or a stutter.

**TwStore_proofs.** `StoreInv` says of each process (`Fine`, `Derived`) that its copy differs from the
text it was read from only in entries the process has changed itself, and never
in an ID; and, while no two writes have overlapped and none was cut short (`Sound`), that
at most one process is past its comparison (`OneWriter`) and that the file is the
last wallet written whole except while one is truncated (`Complete`). `StoreTyped` (`TypeOK`),
`WritersHaveRead` (`CheckedBase`), `NoUpdateLost` (`NoLostUpdate`), `IdsNeverReplaced` (`IdsKept`) and `FileReadable` (`Readable`) follow. `OwnWorkSaved`
(`EachSavesItsOwn`) adds `OwnInv`: a process beside which nobody has written started from what the file holds, so that the comparison before a write
is no false alarm. `DumpsRestore` (TwDump's `DumpRestores`): by `ImportInv` what has been imported and what is still to be are together
what was exported, in its labels too unless a wrong checksum was ignored. `MarksAreTheAnswers` (TwView's `PrunedAsTold`): by `PruneInv` the entries
already passed are marked as the answers so far mean, though an answer for all changes what was marked before. It has `[]NumbersRight` as a hypothesis, that the numbers
typed name distinct entries of the screen, and `NumbersNameEntries` (`NumbersRight`, and `OnList` for the cursor, `ViewAssumption`) proves it: by `ListInv` the list is always a list of entries, each
once, whatever was sorted, reversed, filtered or changed (`RowsTrue`); that a finite set can be put in order at all, and that a stable sort is a permutation, is proved by induction over finite
sets. `PrunedAsAnswered` is the two together. `DaemonsServe` (CoinDaemons's `DaemonsRight`, `DaemonsAssumption`): `ShapeInv` says which steps a command may still have before it; by `LoadInv`, `HeightInv` and
`ClientInv` a wallet that is not loaded, or a block that is missing, is still to be loaded or made by some command, unless one failed or was killed; by `CleanInv` a command that has been alone from its
start can make each of the steps it has left from the state the daemon is in (`Goes`, over the modes a daemon can be in). That ports and directories are apart is arithmetic over all coins and networks.

**AutosignWait_proofs.** `LedInv` follows the frame on top, main program or handler, since only that
one moves: a running thread is the one `led_thread` refers to (`OnlyHandled`), no thread
runs from the clearing of the Event to the start of the next one, and `stop()` has the dark thread's
write behind it when it restores the trigger (`Known`). A handler that interrupts the main
program re-establishes this for itself, whatever it finds. `OneBlinkerAlways` (`OneBlinker`)
and `ExitRestores` (`RestoredAtExit`) follow. `StandbyMeansReady` (`StandbyIsReady`) adds `ShowInv`: which mode the main loop's place allows the LED, its thread and
the call under way to have.

**SubSeeds_proofs.** `SeedInv` says of every entry of every session's lists that its own nonce gave its ID, that all
lower nonces were tried and gave IDs of sub-seeds made `Before` it, and that its ID is none of
those; `Shape` keeps both lists of one length between requests. That all
sessions agree is part of the invariant, so no induction over indexes is needed: a new entry of one
session is compared with the same entry of another, whose predecessors
are the same, so both took the first nonce whose ID was free. `SameForEver`
(`SameInEverySession`) and `IdsDistinct` (`IdsUnique`) follow. `SidOf` is any
function of seeds: the argument does not need Seed IDs to be free of collisions. `SearchIsExhaustive` (`NotFoundIsTrue`): by `SearchInv` a search that
ended without a match has both lists as long as was asked for, and other sessions agree with them. `SharesAlwaysRejoin` and `ShareIdsAlwaysUnique` are about SeedShares: `SharesInv`
(`AllProgress`) says how far each list has come and that the last share is what the others leave of the parent. They rest on an algebra of XOR over sets of bits: the sum
of a sequence is the set of bits that an odd number of its members have, in any order, and what is added twice is gone.
`SeedNeverLost` (Wallets's `WalletsOpen`, `WalletsAssumption`), for any wallets, names, offsets and jobs: by `VaultInv` some file or hidden wallet that the user has not agreed to write over has the seed
(`Locked` says where), what passchg has in hand is what is in the old file (`Changing`), the new file is whole before the old one is shredded (`Replacing`), and the default wallet is the only one but
for the new one (`OnlyDefault`).

**XmrAutosign_proofs.** `XmrTyped` (`TypeOK`) and `SignsWithItsWallet` (`RightWallet`): `SignerAt` says which wallet the signing daemon has open
at each of the signer's steps. `RelayedAsAsked` (`RelayOnly`): by `RelayInv` the daemon is the plain one at every
step that calls it but the submission, and is exchanged for a relaying one only in a command that is to relay.
`OutputsComeFirst` (`OutputsFirst`): `FirstInv`, each outputs file that waits is still on the signer's list, in hand, or has failed in this run. `FilesAreTrue` (`FilesMatch`): what
the device says was imported the signing wallet knows (`KnownInv`), every record is of a transaction the network has, and without faults one the network has is recorded or about to be (`RecordInv`), and of a wallet's exports
only one has files, none older than the last one noted (`ExportInv`), from which `KeyImagesAnswer` (`KeyImagesCurrent`) follows too. `ServedByItsOwn` is about WalletDaemon (`OwnDaemon`):
a command that has been alone since its start finds its own daemon on the port and its number in the pid file. `OpsAsTold` is about XmrOps (`OpsAssumption`): by
`OpsInv` the wallet that is open is the one whose accounts were shown, the destination of a sweep has the address that was made for it (`DestRight`), what is to be restored is what the dump says up to the
account or address in hand (`InTurn`), and the files of transactions are those that can come about (`FileStates`), however the calls fail.

**Transactions_proofs.** `RecordedAsSent` and `ToldTheTruth` (TxSend's `RecordTrue` and `StatusTrue`, under `SendAssumption`): `SendInv` says which parts
have been taken, executed or waited for when the next is sent, `StatusInv` what the answers so far say of some moment since the first question. `FirstUnusedPicked` (ChangeAddr's `PicksFirstUnused`, `ChangeAssumption`):
`ChangeInv` has the invariant of the bisection (`Bisected`), that of the seed in hand no entry before `bot` is of the address type or a later one, and none after `top` is
wanted sooner than `top`; what was found in the seeds looked at (`Found`); and that the types tried before had no unused address.
`MadeInBalance` and `ReplacedForMore` (TxCreate's `MadeRight` and `BumpReplaces`, `CreateAssumption`): `CreateInv` says what holds of amounts at each prompt, and sums over
sets and sequences are handled by lemmas about the folds they are defined by (a sum with one member changed, dropped or added).
`ConfigAsGiven` (Config's `ConfigRight`, `ConfigAssumption`): `ConfigInv` says how much of each source has been read at each step and what is due of it (`Have`, `Due`); that options not implied by others
are settled when the file has been read (`AllSettled`), the implied ones after that (`Implies`), and conflicts last (`Exclusive`). `PromptsAsAnswered` (Prompts's `PromptsRight`, `PromptAssumption`): by `Protected`
once the program has seen the buffer empty no key still held down is repeated before the time-out, and what it then reads was pressed after the question was shown; it takes the assumption that keys repeat
sooner than the time-out, which the run makes too. `SwapsAsAsked` (Swaps's `SwapRight`, `SwapAssumption`: percentages are at most 100, an asset has a name, and no two share one): by `SwapInv` destination and amount are the command's once it has
been read (`CommandInv`), what goes to the vault, to the change and to the fee is what there is (`VaultInv`, `Paying`), a new transaction sends what was asked for and no more than its quote is for (`AskedFirst`), the quote of a
replacement is for what the original sends (`AskedAgain`), of whose outputs only the chosen one pays, and can (`Bumping`, `Replacing`), vault, expiry, limit, memo and gas are of one quote (`TermsInv`), and the file
says so, except for what was altered (`SwapFileInv`). `SwapsReplaced` (`SwapReplaces`) follows from the same invariant: who pays the higher fee, and that something is left of what pays it.
The rest is about numbers, by induction over them: the digits of a number read as that number (`DigitsRead`); a number cut to any precision reads as one that is no greater (`Largest`, `ReadMono`); so a limit
in a memo is the one asked for or the one displayed (`EncRead`).

**Signing_proofs.** `SignsTheVerified` (TxSign's `SignedIsVerified`): `KeysInv`, what is noted as found was computed from a seed, and after each call of `add_keys()` every address of its part has
been found. `RefusedForAReason` (`AutosignRefusesOnly`, `SignAssumption`): in the autosigner's mode the shared list of wallet files is a copy, so each wallet has been opened or is still in the list
(`AutoInv`); without that copy a second transaction would be refused for nothing, as `txsign` does. `NothingSwapped` (AutosignSetup's `NeverSwapped`, any devices): `SwapInv`. `ReadyIsReady` and `WipedForGood`
(`SetupIsReady`, `WipedIsGone`), for one device (`Devices = {D}`): from the writing of the wallet to the end of `setup`, and after it, the device has the wallet's key, under the mountpoint or
beneath (`ReadyInv`); whatever had been unlinked had been overwritten (`WipedInv`). `SignedWithOne` (`SignedByOne`), for one device too: once the loop holds wallet and key list of two
setups, the key of that wallet is gone from the device and from the mounted view of it (`Gone`), or can come back only for a loop that no longer finds the wallet in memory (`Shadow`, in
`OneInv`); that takes what the first terminal has on the device, in view and in memory at each step (`DeviceInv`). `VerifiedWasSigned` (MsgSign's `Verified`): by `MessageInv` every signature, in the file and in
what is exported of it, is one of the job's message, even where a field beside it was altered, and an untouched file verifies. `MessagesRight` adds `SignedOrFailed` (`MsgAssumption`; `SignInv`):
though the loop over Seed IDs removes from the list it goes through, it removes whole IDs, the first one if its wallet is given, and those it passes over are told to have failed.

Attempts at proofs changed the models where they were wrong. One value for every key file that is not whole made two broken keys equal, and a setup could be ready with neither;
they are distinct now (`Junk`). A token transfer could be replaced with one of more tokens than the account has; the code stops
there, though by accident (section 6, `Overdrawn`). A wallet could be made in a data directory that had been deleted, which was then still said to be missing; the daemon
makes it again. Nothing said that no two assets of a swap share a name, which `SwapAssumption` does. And the hypothesis of one device, which MCTransactions assumes of its constant `Devices` (`SetupConstants`), cannot be dropped: with two, the wait loop of another
terminal unmounts the device in the middle of `setup` or `wipe_key` and mounts the other one, and TLC finds `SetupIsReady`, `SignedByOne` and `WipedIsGone` violated.

## 5. Only model-checked, or not modelled

Liveness (`EventuallySigned`, `CallsReturn`, `GivenBack`, `InsertionServed`, `FailedRedone`) is out of
the prover's reach. Only model-checked are these parts of the hosts' properties:
- of `SentAsFiled` TxFile and EthTx, of `ListAsTold` Listings;
- `ListsRight` (AddrLists) and `FormsRight` (Mnemonics, HdPath, Values, Addresses, Ciphers).

All are conversions of sequences (serialization, RLP, base conversion, sorting by several keys, folds over files) in which nothing goes on but computing;
their theorems would be inductions over data of every definition they consist of. For them the
bounded inputs above, chosen at the boundaries of the code, are the evidence. No theorem is about several modules of a host at once: they share no state.

`PROJECT.json` names for each definition the lines it stands for, but for the smallest helpers.

Not modelled, and why:
- the arithmetic of curves, compression functions and permutations (`contrib/ed25519.py`, parts of `sha2.py`, `keccak.py`, `ripemd160.py`): fixed
  functions, settled by the repository's test vectors;
- word lists, chain parameters, licence, help texts, colours and messages: no state and no control;
- HTTP, authentication and the formats of RPC calls (`rpc/`): only the answers, and their absence, appear in the models;
- the protobuf encoding of RUNE transactions: a declaration of fields for a library;
- Windows' terminal, board detection of the LED, file-system quirks of other platforms;
- reorganizations of a chain: the programs do not look for them;
- manually copied transactions on the device, which go through the same loop as the others.

## 6. Where the code and its text disagree

Each of these is a run that ends in a counterexample.

- `tx_abort`: after `clean` has shredded the raw file of a signed, unsent transaction,
  `--abort` says there is none, and creating another is refused too (`autosign.py:315`, `:871`).
- `tw_refresh`: the second balance refresh in a session is reported and not kept (`tw/store.py:217`).
- `wait_key`: a wrong key ends the wait loop: `MMGenSystemExit` is no `SystemExit` (`autosign.py:665`).
- `wait_final`: a signal during signing is swallowed by a bare `except` (`autosign.py:687`).
- `xmr_redo`: a signing wallet that failed to open once is not opened again, so
  nothing is imported or signed for it until a restart (`autosign.py:351`).
- `xmr_sweep`: a sweep to an account that exists can be refused, because `check_account_exists()` is called for the destination
  and tests the source's account, or end in an assertion, when the last account has more than one address (`xmrwallet/ops/sweep.py:148`, `:168`).

Others were met while modelling. The models follow the code, and where a property would fail
because of one of them its comment names the exception.

*Transactions.* An interrupted signing leaves a truncated signed file, by whose name `clean` shreds the intact raw file (`autosign.py:871`).
Nothing left for change with three or more outputs crashes `update_change_output` (`proto/btc/tx/new.py`). `txsign` uses up the shared list of seed
files with `pop(0)`, so the second transaction of a command may not find its wallet (`tx/keys.py:88`). Bumping a sent-everything Ethereum
transaction raises the fee without lowering the amount. A token transfer replaced with one of more tokens than
the account has ends in an exception from a subtraction of amounts, since its funds are not checked (`proto/eth/tx/new.py:188`, `:192`). With `--inputs` and too little money `create()` asks for ever. After the first part of a two-part swap was sent and the second
failed, a new run can only send it with `--txhex-idx` and never writes the record. A Bitcoin transaction evicted from the mempool is said to be replaced.
The inputs of a signed Ethereum file are compared with themselves,
and it is signed for whatever network its unsigned file names, not that of the command (`proto/eth/tx/unsigned.py:56`). That the ID in a Bitcoin file is not the transaction's is noticed when it has been sent, and the sent
record is then not written (`tx/online.py:129`).

*Swaps.* Amount 0 swaps everything (`tx/new_swap.py:111`). A change address outside the wallet crashes, though the help says it is supported (line 174). Bumping a swap drops its
limit and stream interval, can take the fee from the vault's output after the quote was got for more (`tx/bump.py:99`), and checks neither the age of that quote nor, for Ether, that the balance covers the new fee. The limit is encoded in full where the display truncates it. `5%%` passes the limit's pattern and raises `ValueError`.

*Messages.* `msg.py:254-268` removes from the list it iterates over: the addresses of a second wallet are left unsigned and reported as failed.

*Wallets and seeds.* passchg of a hidden incognito wallet offers to shred the old wallet and shreds the container of the new one (`main_wallet.py:270`). The new wallet is not
synced before the old one is shredded. Two wallets in the data directory after a crash stop every command. In full entry mode words with surplus letters are accepted.
`mmgen_decrypt_retry` asks for ever for the password of a file that holds nothing (`crypto.py:441`). `rand2file` waits for ever after a failed write (`tool/fileutil.py:106,139`).
`find_incog_data` misses data at the very end of a file whose size is a multiple of the block.

*Addresses and values.* Falling back to python-ecdsa is announced, and then refused as unsafe (`proto/secp256k1/keygen.py`). Base-58 and RUNE addresses have no length check;
a Monero address with a superfluous digit is accepted. `SID:C:05` and `SID:C:5` are different IDs of one address (`addr.py:152`). The decimals of a token are set on its class, so
a second token changes the amounts of the first (`amt.py:230`).

*Tracking wallet.* Coinbase transactions stop the history (`proto/btc/tw/txhistory.py:347`), as does a label that is not MMGen's. `--sinceblock=N` leaves out block N.
An address labelled while the list is made stops it with an assertion (`proto/btc/tw/addresses.py:68`). A sort by amount sorts texts (`tw/addresses.py:287`). Bitcoin's import creates
the daemon's wallet before the dump is verified (`tw/json.py:126`).

*Daemons.* `mmgen-regtest setup` deletes the data directory of a daemon it has only told to stop (`proto/btc/regtest.py:155`). A `start` killed before the wallets are loaded leaves them unloaded for good.

*Configuration.* `subseeds`, `hash_preset` and `tw_name` in `mmgen.cfg` end in `AttributeError`, though the sample documents them. `MMGEN_RPC_BACKEND` always raises.
`autosign true` in the file cannot be overridden by `--outdir`, though the sample says so. `--no-bob --alice` conflict.

## 7. Plan

1. Proofs: AddrLists and Mnemonics, by inductions as that over digits in Transactions_proofs; TxFile's reading of what it wrote.
2. Abstract specifications still worth stating: the tracking wallet as an atomic map
   (refined by TwStore without races), the wait loop as "each insertion is
   served once", the Monero pipeline as TxLifecycle per wallet.
3. Compositions: TxCreate and TxSign as the contents of TxAutosign's transactions; TwStore under TwView.
