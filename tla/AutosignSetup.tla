---------------------------- MODULE AutosignSetup ----------------------------
(* The two halves of autosigning: the key on the removable device, and the *)
(* wallets in the volatile memory of the signing machine that it opens.    *)
(* One terminal runs mmgen-autosign setup, gen_key, wipe_key and the       *)
(* commands for the swap space; another may run `wait' (Autosign in        *)
(* mmgen/autosign.py, mmgen/main_autosign.py).  A key is known by its      *)
(* number, and so is a file by that of the key it is encrypted with: the   *)
(* name of a wallet file has in it a hash of its key.                      *)
EXTENDS Naturals

CONSTANTS Devices, MaxKeys

VARIABLES
    disk,       \* the key stored on each device
    view,       \* the key file as it is seen through the mountpoint
    plugged, mounted,
    swap,       \* "on" or "off"
    ram,        \* the wallet directory: the files of wallet and key list
    orig,       \* the user's key list is on the machine's disk
    cmd, pc,    \* the command of the first terminal, and its next step
    loop,       \* the next step of `wait'
    cache,      \* what it keeps: files, keylist, and prev_status
    made,       \* keys made so far
    past        \* what has happened

setupVars == <<disk, view, plugged, mounted, swap, ram, orig, cmd, pc, loop, cache, made, past>>
devVars == <<disk, view, plugged, mounted>>
machineVars == <<swap, ram, orig>>
cmdVars == <<cmd, pc>>
loopVars == <<loop, cache>>

None == 0                   \* no key, no device
Junk == MaxKeys + 1 + made  \* of a key file overwritten, or written in part, since the last key
Stale == 99                 \* the mounted device has been pulled
Unread == 99                \* not yet in the cache

(* What is assumed of the constants: the numbers above are no others.      *)
SetupAssumption == MaxKeys \in 1 .. 48 /\ Devices \subseteq Nat \ {None, Stale}

Accessible == mounted \notin {None, Stale}
Exists == Accessible /\ view # None
EmptyDir == [dir |-> FALSE, wallet |-> None, keys |-> None]
NoCache == [files |-> Unread, keylist |-> Unread, prev |-> FALSE]

-------------------------------------------------------------------------------
(* Mounting and unmounting, as both programs do it.  They end with an      *)
(* error when it fails.                                                    *)
CanMount == IF mounted = None THEN plugged # None ELSE mounted # Stale
do_mount ==
    IF mounted = None THEN mounted' = plugged /\ view' = disk[plugged] /\ UNCHANGED <<disk, plugged>>
    ELSE UNCHANGED devVars
do_umount ==
    /\ mounted' = None
    /\ disk' = IF Accessible THEN [disk EXCEPT ![mounted] = view] ELSE disk
    /\ view' = None /\ UNCHANGED plugged

-------------------------------------------------------------------------------
(* The commands of the first terminal.                                     *)
Goto(next) == pc' = next /\ cmd' = cmd
Ends == cmd' = "none" /\ pc' = "none"
At(step) == pc = step

Undisturbed == [past EXCEPT !.intruded = FALSE, !.pulled = FALSE, !.target = None]

Start(name, first) ==
    /\ cmd = "none" /\ cmd' = name /\ pc' = first
    /\ past' = [Undisturbed EXCEPT !.ready = FALSE, !.wiped = None]
    /\ UNCHANGED <<devVars, machineVars, loopVars, made>>
StartSetup == \E keys \in BOOLEAN : Start(IF keys THEN "setup -k" ELSE "setup", "inserted")
StartOther ==
    \E pair \in {<<"gen_key", "inserted">>, <<"wipe_key", "mount">>, <<"enable_swap", "enable">>, <<"disable_swap", "disable">>} :
        Start(pair[1], pair[2])
IsSetup == cmd \in {"setup", "setup -k"}

device_inserted ==
    /\ At("inserted")
    /\ IF plugged # None THEN Goto("mount") ELSE Ends
    /\ UNCHANGED <<devVars, machineVars, loopVars, made, past>>

Mount ==
    /\ At("mount")
    /\ IF CanMount THEN do_mount /\ Goto("wipe") ELSE Ends /\ UNCHANGED devVars
    /\ past' = [past EXCEPT !.target = mounted']
    /\ UNCHANGED <<machineVars, loopVars, made>>

(* The shredding program sees to it that the key is overwritten on the     *)
(* device before the file is removed.                                      *)
wipe_encryption_key ==
    /\ At("wipe")
    /\ IF mounted = Stale THEN Ends /\ UNCHANGED devVars
       ELSE IF Exists
       THEN disk' = [disk EXCEPT ![mounted] = Junk] /\ view' = Junk /\ Goto("unlink") /\ UNCHANGED <<plugged, mounted>>
       ELSE Goto(IF cmd = "wipe_key" THEN "umount" ELSE "create") /\ UNCHANGED devVars
    /\ UNCHANGED <<machineVars, loopVars, made, past>>
Unlink ==
    /\ At("unlink")
    /\ IF Accessible THEN view' = None /\ Goto(IF cmd = "wipe_key" THEN "umount" ELSE "create") ELSE Ends /\ UNCHANGED view
    /\ UNCHANGED <<disk, plugged, mounted, machineVars, loopVars, made, past>>

create_key ==
    /\ At("create")
    /\ IF Accessible
       THEN view' = made + 1 /\ made' = made + 1 /\ Goto(IF cmd = "gen_key" THEN "umount" ELSE "disable")
       ELSE Ends /\ UNCHANGED <<view, made>>
    /\ UNCHANGED <<disk, plugged, mounted, machineVars, loopVars, past>>

(* Without a password-less sudo, or when swapoff fails, the command ends.  *)
disable ==
    /\ At("disable")
    /\ \E ok \in BOOLEAN :
        IF swap = "off" \/ ok
        THEN swap' = "off" /\ past' = [past EXCEPT !.enabled = FALSE] /\ IF IsSetup THEN Goto("rmdir") ELSE Ends
        ELSE Ends /\ UNCHANGED <<swap, past>>
    /\ UNCHANGED <<devVars, ram, orig, loopVars, made>>

(* Mutant: the failure goes unnoticed.                                     *)
DisableUnchecked ==
    /\ At("disable")
    /\ \E ok \in BOOLEAN :
        /\ swap' = (IF ok THEN "off" ELSE swap) /\ past' = IF ok THEN [past EXCEPT !.enabled = FALSE] ELSE past
        /\ IF IsSetup THEN Goto("rmdir") ELSE Ends
    /\ UNCHANGED <<devVars, ram, orig, loopVars, made>>

enable ==
    /\ At("enable") /\ Ends
    /\ swap' \in {"on", swap}
    /\ past' = [past EXCEPT !.enabled = @ \/ swap' = "on"]
    /\ UNCHANGED <<devVars, ram, orig, loopVars, made>>

remove_wallet_dir ==
    /\ At("rmdir") /\ Goto("mkdir")
    /\ ram' = EmptyDir
    /\ UNCHANGED <<devVars, swap, orig, loopVars, made, past>>
create_wallet_dir ==
    /\ At("mkdir") /\ Goto("wallet")
    /\ ram' = [EmptyDir EXCEPT !.dir = TRUE]
    /\ UNCHANGED <<devVars, swap, orig, loopVars, made, past>>

(* The user gives a wallet or a seed phrase; the file is encrypted with    *)
(* the key file's contents.                                                *)
WriteWallet ==
    /\ At("wallet")
    /\ IF Exists
       THEN ram' = [ram EXCEPT !.wallet = view] /\ Goto(IF cmd = "setup -k" THEN "keys" ELSE "umount")
       ELSE Ends /\ ram' = ram
    /\ UNCHANGED <<devVars, swap, orig, loopVars, made, past>>

setup_non_mmgen_keys ==
    /\ At("keys")
    /\ IF orig /\ Exists THEN ram' = [ram EXCEPT !.keys = view] /\ Goto("shred") ELSE Ends /\ ram' = ram
    /\ UNCHANGED <<devVars, swap, orig, loopVars, made, past>>
Shred ==
    /\ At("shred") /\ Goto("umount")
    /\ orig' \in BOOLEAN
    /\ UNCHANGED <<devVars, swap, ram, loopVars, made, past>>

Finish ==
    /\ At("umount") /\ Ends /\ do_umount
    /\ past' = [Undisturbed EXCEPT !.ready = IsSetup /\ ~past.pulled,
                                   !.wiped = IF cmd = "wipe_key" /\ ~past.intruded THEN past.target ELSE None]
    /\ UNCHANGED <<machineVars, loopVars, made>>

(* A prompt or a step is answered by ctrl-C: the device stays mounted.     *)
Interrupt == cmd # "none" /\ Ends /\ past' = Undisturbed /\ UNCHANGED <<devVars, machineVars, loopVars, made>>

-------------------------------------------------------------------------------
(* The wait loop.                                                          *)
WaitAt(step) == loop = step /\ UNCHANGED <<machineVars, cmdVars, made>>
LoopDies == loop' = "none" /\ cache' = NoCache
LoopStart == WaitAt("none") /\ loop' = "poll" /\ cache' = NoCache /\ UNCHANGED <<devVars, past>>
LoopPoll ==
    /\ WaitAt("poll")
    /\ loop' = IF plugged # None /\ ~cache.prev THEN "mount" ELSE "poll"
    /\ cache' = [cache EXCEPT !.prev = plugged # None]
    /\ UNCHANGED <<devVars, past>>
LoopMount ==
    /\ WaitAt("mount") /\ UNCHANGED past
    /\ IF CanMount THEN do_mount /\ loop' = "decrypt" /\ UNCHANGED cache ELSE LoopDies /\ UNCHANGED devVars

(* The wallet files are looked for once.  Mutant: at every session.        *)
DirListed == ram.wallet
wallet_files == IF cache.files = Unread THEN ram.wallet ELSE cache.files

OpensWith(file) == file # None /\ file = ram.wallet /\ Exists /\ view = file
decrypt_wallets ==
    /\ WaitAt("decrypt") /\ UNCHANGED <<devVars, past>>
    /\ IF OpensWith(wallet_files) THEN loop' = "keys" /\ cache' = [cache EXCEPT !.files = wallet_files]
       ELSE LoopDies

init_non_mmgen_keys ==
    /\ WaitAt("keys") /\ UNCHANGED <<devVars, past>>
    /\ IF cache.keylist # Unread THEN loop' = "sign" /\ cache' = cache
       ELSE IF ram.keys = None \/ (Exists /\ view = ram.keys)
       THEN loop' = "sign" /\ cache' = [cache EXCEPT !.keylist = ram.keys]
       ELSE LoopDies

LoopSign ==
    /\ WaitAt("sign") /\ loop' = "umount" /\ UNCHANGED <<devVars, cache>>
    /\ past' = [past EXCEPT !.mixed = @ \/ (OpensWith(wallet_files) /\ cache.keylist \notin {None, wallet_files})]
LoopUmount ==
    /\ WaitAt("umount") /\ loop' = "poll" /\ UNCHANGED cache
    /\ do_umount /\ past' = [past EXCEPT !.intruded = @ \/ cmd = "wipe_key"]

-------------------------------------------------------------------------------
(* The user and the power.                                                 *)
Pulled ==
    IF Accessible
    THEN disk' \in {disk, [disk EXCEPT ![mounted] = view]} \union
                   (IF disk[mounted] = view THEN {} ELSE {[disk EXCEPT ![mounted] = Junk]})
    ELSE disk' = disk
Insert ==
    /\ plugged = None /\ plugged' \in Devices
    /\ UNCHANGED <<disk, view, mounted, machineVars, cmdVars, loopVars, made, past>>
Remove ==
    /\ plugged # None /\ plugged' = None /\ Pulled
    /\ mounted' = (IF mounted = None THEN None ELSE Stale) /\ view' = None
    /\ past' = [past EXCEPT !.ready = @ /\ mounted = None, !.pulled = @ \/ (mounted # None /\ IsSetup)]
    /\ UNCHANGED <<machineVars, cmdVars, loopVars, made>>
UserUmount ==
    /\ mounted # None /\ do_umount /\ cmd = "none"
    /\ UNCHANGED <<machineVars, cmdVars, loopVars, made, past>>
PowerOff ==
    /\ Pulled /\ plugged' = plugged /\ mounted' = None /\ view' = None /\ swap' = "on" /\ ram' = EmptyDir
    /\ Ends /\ loop' = "none" /\ cache' = NoCache
    /\ past' = [past EXCEPT !.ready = FALSE, !.enabled = FALSE]
    /\ UNCHANGED <<orig, made>>

Init ==
    /\ disk = [d \in Devices |-> None] /\ view = None /\ plugged = None /\ mounted = None
    /\ swap = "on" /\ ram = EmptyDir /\ orig = TRUE /\ cmd = "none" /\ pc = "none" /\ loop = "none" /\ cache = NoCache
    /\ made = 0
    /\ past = [ready |-> FALSE, target |-> None, wiped |-> None, intruded |-> FALSE, pulled |-> FALSE, enabled |-> FALSE, mixed |-> FALSE]

Next ==
    \/ StartSetup \/ StartOther \/ device_inserted \/ Mount \/ wipe_encryption_key \/ Unlink \/ (made < MaxKeys /\ create_key)
    \/ disable \/ enable \/ remove_wallet_dir \/ create_wallet_dir \/ WriteWallet \/ setup_non_mmgen_keys \/ Shred
    \/ Finish \/ Interrupt
    \/ LoopStart \/ LoopPoll \/ LoopMount \/ decrypt_wallets \/ init_non_mmgen_keys \/ LoopSign \/ LoopUmount
    \/ Insert \/ Remove \/ UserUmount \/ PowerOff

Spec == Init /\ [][Next]_setupVars

-------------------------------------------------------------------------------
(* What `setup' has said is ready is: the device that opens the wallet can *)
(* be taken out, and no part of the memory it is in is swapped out.        *)
SetupIsReady ==
    past.ready => /\ ram.wallet # None /\ ram.keys \in {None, ram.wallet}
                  /\ mounted = None => \E d \in Devices : disk[d] = ram.wallet
NeverSwapped == ram.wallet # None /\ swap = "on" => past.enabled

(* The loop signs with the wallet and the key list of one setup.           *)
SignedByOne == ~past.mixed

(* wipe_key leaves no key on the device it found, unless another program   *)
(* unmounted it meanwhile.                                                 *)
WipedIsGone == past.wiped # None => disk[past.wiped] \notin 1 .. MaxKeys

SetupRight == SetupIsReady /\ NeverSwapped /\ SignedByOne /\ WipedIsGone
===============================================================================
