---------------------------- MODULE AutosignWait ----------------------------
(***************************************************************************)
(* mmgen-autosign sign and mmgen-autosign wait on the signing machine      *)
(* (main() of mmgen/main_autosign.py; main_loop(), do_sign() and at_exit() *)
(* of mmgen/autosign.py): polling for the device, the signing session, the *)
(* status LED, and the termination signals.                                *)
(***************************************************************************)
EXTENDS StatusLed

CONSTANTS
    MaxFiles,     \* bound on the unsigned files of a session
    MaxInserts,   \* bound on device insertions
    MaxSignals    \* bound on termination signals

ASSUME WaitAssumption == MaxFiles \in Nat /\ MaxInserts \in Nat /\ MaxSignals \in Nat

VARIABLES
    conf,      \* the command line: wait or sign, --stealth-led; whether setup stored keys
    pc,        \* what the main thread does next
    prev,      \* prev_status
    plugged,   \* the device is inserted
    rightKey,  \* it holds the key that opens the wallets
    mounted,   \* it is mounted
    fresh,     \* it was not mounted since it was inserted
    left,      \* files of the session still to be signed
    ok,        \* all(ret): no file of the session failed
    keyOk,     \* key_ok
    authed,    \* the wallets were opened at least once
    cached,    \* self.keylist is set
    ended,     \* how the process ended
    signals, inserts

userVars == <<plugged, rightKey, inserts>>
mainVars == <<conf, pc, prev, mounted, fresh, left, ok, keyOk, authed, cached>>
vars == <<ledVars, userVars, mainVars, ended, signals>>

Ending == {"no", "exit", "raised", "wrong key", "no device", "device busy"}

TypeOK ==
    /\ LedTypeOK
    /\ conf \in [wait : BOOLEAN, stealth : BOOLEAN, keys : BOOLEAN]
    /\ pc \in {"init", "ready", "poll", "mount", "decrypt", "keys", "sign", "umount", "exit"}
    /\ \A b \in {prev, plugged, rightKey, mounted, fresh, ok, keyOk, authed, cached} : b \in BOOLEAN
    /\ left \in 0..MaxFiles
    /\ ended \in Ending
    /\ signals \in 0..MaxSignals /\ inserts \in 0..MaxInserts

Init ==
    /\ LedInit
    /\ conf \in [wait : BOOLEAN, stealth : BOOLEAN, keys : BOOLEAN]
    /\ pc = "init"
    /\ prev = FALSE /\ plugged = FALSE /\ rightKey = FALSE /\ mounted = FALSE /\ fresh = FALSE
    /\ left = 0 /\ ok = TRUE /\ keyOk = FALSE /\ authed = FALSE /\ cached = FALSE
    /\ ended = "no" /\ signals = 0 /\ inserts = 0

----------------------------------------------------------------------------
(* The main thread, between two calls of set().                            *)

MainRuns == ended = "no" /\ step["main"] = "idle" /\ step["handler"] = "idle"

At(p) == MainRuns /\ pc = p

SetLed(mode) ==
    Call(mode) /\ UNCHANGED <<handle, thr, ev, evLock, light, trigger>>

(* With --stealth-led some calls of set() are left out.                    *)
SetLedUnless(skipped, mode) == IF skipped THEN UNCHANGED ledVars ELSE SetLed(mode)

(* The process ends; its LED threads are daemon threads and end with it.   *)
End(how) ==
    /\ ended' = how
    /\ thr' = [t \in Thread |-> "out"]
    /\ UNCHANGED <<step, op, handle, ev, evLock, light, trigger>>

InitLed ==
    /\ At("init")
    /\ SetLed("off")
    /\ pc' = "ready"
    /\ UNCHANGED <<userVars, conf, prev, mounted, fresh, left, ok, keyOk, authed, cached, ended, signals>>

(* do_sign() begins: at once, or when the loop sees an insertion.          *)
StartSession ==
    /\ SetLedUnless(conf.stealth, "busy")
    /\ pc' = "mount"
    /\ keyOk' = FALSE

(* init_exit_handler(), then main_loop() or do_sign().                     *)
Ready ==
    /\ At("ready")
    /\ IF conf.wait
       THEN SetLedUnless(conf.stealth, "standby") /\ pc' = "poll" /\ UNCHANGED keyOk
       ELSE StartSession
    /\ UNCHANGED <<userVars, conf, prev, mounted, fresh, left, ok, authed, cached, ended, signals>>

(* Mutant: prev_status is updated before it is compared.                   *)
EdgeLate == plugged /\ ~prev'

Edge == plugged /\ ~prev

Poll ==
    /\ At("poll")
    /\ prev' = plugged
    /\ IF Edge
       THEN StartSession
       ELSE UNCHANGED <<ledVars, pc, keyOk>>
    /\ UNCHANGED <<userVars, conf, mounted, fresh, left, ok, authed, cached, ended, signals>>

Mount ==
    /\ At("mount")
    /\ IF plugged
       THEN mounted' = TRUE /\ fresh' = FALSE /\ pc' = "decrypt" /\ UNCHANGED <<ledVars, ended>>
       ELSE End("no device") /\ UNCHANGED <<mounted, fresh, pc>>
    /\ UNCHANGED <<userVars, conf, prev, left, ok, keyOk, authed, cached, signals>>

(* decrypt_wallets(): opening a wallet with the wrong key raises an        *)
(* MMGenSystemExit, which is no SystemExit and is not caught.              *)
Decrypt ==
    /\ At("decrypt")
    /\ IF rightKey
       THEN keyOk' = TRUE /\ authed' = TRUE /\ pc' = "keys" /\ UNCHANGED <<ledVars, ended>>
       ELSE End("wrong key") /\ UNCHANGED <<keyOk, authed, pc>>
    /\ UNCHANGED <<userVars, conf, prev, mounted, fresh, left, ok, cached, signals>>

(* init_non_mmgen_keys(), whatever decrypt_wallets() answered; then the    *)
(* unsigned files are listed.                                              *)
Keys ==
    /\ At("keys")
    /\ IF conf.keys /\ ~cached /\ ~rightKey
       THEN End("wrong key") /\ UNCHANGED <<pc, left, ok, cached>>
       ELSE /\ cached' = conf.keys
            /\ ok' = TRUE
            /\ IF keyOk
               THEN pc' = "sign" /\ left' \in 0..MaxFiles /\ SetLedUnless(~conf.stealth, "busy")
               ELSE pc' = "umount" /\ left' = 0 /\ UNCHANGED ledVars
            /\ UNCHANGED ended
    /\ UNCHANGED <<userVars, conf, prev, mounted, fresh, keyOk, authed, signals>>

Sign ==
    /\ At("sign")
    /\ IF left = 0
       THEN pc' = "umount" /\ UNCHANGED <<left, ok>>
       ELSE left' = left - 1 /\ ok' \in {ok, FALSE} /\ UNCHANGED pc
    /\ UNCHANGED <<ledVars, userVars, conf, prev, mounted, fresh, keyOk, authed, cached, ended, signals>>

(* Mutant: no umount after the message that the key is wrong.              *)
ReleasedIfKeyOk == ~keyOk

(* Mutant: no umount after a failure.                                      *)
ReleasedIfOk == ~ok

(* do_umount() leaves the device mounted only by raising.                  *)
Released == FALSE

(* What the LED shows after the session.                                   *)
Result ==
    IF keyOk THEN IF ~ok THEN "error" ELSE IF conf.stealth THEN "off" ELSE "standby"
    ELSE IF conf.stealth THEN "none" ELSE "error"

EndSession ==
    /\ At("umount")
    /\ \/ /\ mounted' = Released
          /\ SetLedUnless(Result = "none", Result)
          /\ pc' = IF conf.wait THEN "poll" ELSE "exit"
          /\ UNCHANGED ended
       \/ End("device busy") /\ UNCHANGED <<mounted, pc>>
    /\ UNCHANGED <<userVars, conf, prev, fresh, left, ok, keyOk, authed, cached, signals>>

(* at_exit() after a single do_sign().                                     *)
AtExit ==
    /\ At("exit")
    /\ SetLed("stop")
    /\ UNCHANGED <<userVars, mainVars, ended, signals>>

Main == InitLed \/ Ready \/ Poll \/ Mount \/ Decrypt \/ Keys \/ Sign \/ EndSession \/ AtExit

----------------------------------------------------------------------------
(* LED calls, and how they end.                                            *)

Running(f) == ended = "no" /\ (f = "handler" \/ step["handler"] = "idle")

LedCalls ==
    /\ \E f \in Frame : Running(f) /\ LedCall(f)
    /\ UNCHANGED <<userVars, mainVars, ended, signals>>

(* The exception leaves the handler inside target.sign(), where a bare     *)
(* except takes it for a failure to sign.                                  *)
CaughtSigning ==
    /\ pc = "sign" /\ left > 0 /\ step["main"] = "idle"
    /\ Goto("handler", "idle")
    /\ left' = left - 1 /\ ok' = FALSE
    /\ UNCHANGED <<pc, keyOk>>

(* sys.exit() inside decrypt_wallets(), which takes it for a wrong key.    *)
CaughtDecrypting ==
    /\ pc = "decrypt" /\ step["main"] = "idle"
    /\ Goto("handler", "idle")
    /\ keyOk' = FALSE /\ pc' = "keys"
    /\ UNCHANGED <<left, ok>>

Caught(how) ==
    /\ how
    /\ UNCHANGED <<op, handle, thr, ev, evLock, light, trigger>>
    /\ UNCHANGED <<userVars, conf, prev, mounted, fresh, authed, cached, ended, signals>>

Quit(f) ==
    /\ Running(f) /\ step[f] = "quit"
    /\ \/ End("exit") /\ UNCHANGED <<userVars, mainVars, signals>>
       \/ f = "handler" /\ (Caught(CaughtSigning) \/ Caught(CaughtDecrypting))

Raise(f) ==
    /\ Running(f) /\ JoinRaises(f)
    /\ \/ End("raised") /\ UNCHANGED <<userVars, mainVars, signals>>
       \/ f = "handler" /\ Caught(CaughtSigning)

LedEnds == \E f \in Frame : Quit(f) \/ Raise(f)

LedThreads == LedThread /\ UNCHANGED <<userVars, mainVars, ended, signals>>

(* SIGINT or SIGTERM, once the handler is installed.                       *)
Signal ==
    /\ ended = "no" /\ pc \notin {"init", "ready"} /\ signals < MaxSignals
    /\ signals' = signals + 1
    /\ Interrupt
    /\ UNCHANGED <<userVars, mainVars, ended>>

----------------------------------------------------------------------------
(* The user inserts the device, with or without the key that opens the     *)
(* wallets, and extracts it when it is not mounted.                        *)

Insert ==
    /\ ~plugged /\ inserts < MaxInserts
    /\ plugged' = TRUE /\ fresh' = TRUE /\ inserts' = inserts + 1
    /\ rightKey' \in BOOLEAN
    /\ UNCHANGED <<ledVars, conf, pc, prev, mounted, left, ok, keyOk, authed, cached, ended, signals>>

Extract ==
    /\ plugged /\ ~mounted
    /\ plugged' = FALSE /\ fresh' = FALSE
    /\ UNCHANGED <<ledVars, rightKey, inserts, conf, pc, prev, mounted, left, ok, keyOk, authed, cached, ended, signals>>

Process == Main \/ LedCalls \/ LedEnds

Next == Process \/ LedThreads \/ Signal \/ Insert \/ Extract

Spec == Init /\ [][Next]_vars

(* The process and its LED threads are scheduled.                          *)
FairSpec == Spec /\ WF_vars(Process) /\ \A t \in Thread :
    WF_vars((Draw(t) \/ Awake(t)) /\ UNCHANGED <<userVars, mainVars, ended, signals>>)

----------------------------------------------------------------------------

(* Two threads never blink the LED at once, wherever in set() or stop() a  *)
(* signal arrives: a thread is joined before the next one is created.      *)
OneBlinker == \A t, u \in Thread : thr[t] # "out" /\ thr[u] # "out" => t = u

(* A process that ends by way of at_exit() leaves the LED dark and gives   *)
(* its trigger back, though switching the LED off resets the trigger: the  *)
(* last thread must have made its last write by then.                      *)
RestoredAtExit == ended = "exit" => light = "dark" /\ trigger = "original"

(* The standby LED says "ready for device insertion or removal": the       *)
(* device is not mounted while a thread blinks standby, nor while the loop *)
(* polls, signals taken for failed files or wrong keys included.  With     *)
(* --stealth-led it blinks "busy and error only, and only after successful *)
(* authorization".                                                         *)
StandbyIsReady ==
    /\ \A t \in Thread : t[1] = "standby" /\ thr[t] # "out" => ~mounted
    /\ pc = "poll" => ~mounted
    /\ \A t \in Thread : conf.stealth /\ thr[t] # "out" => t[1] = "off" \/ (t[1] # "standby" /\ authed)

(* set() and stop() come back in either frame: the thread they join sees   *)
(* the Event before it is cleared.  Only a signal inside ev.set() or       *)
(* ev.clear() can keep the handler waiting, for the lock it interrupted.   *)
CallsReturn ==
    \A f \in Frame : (step[f] # "idle") ~> (step[f] = "idle" \/ ended # "no" \/ evLock = "suspended")

(* A session gives back the device it has mounted, however it went and     *)
(* whatever signals it swallowed, unless the process ends.                 *)
GivenBack == mounted ~> (~mounted \/ ended # "no" \/ evLock = "suspended")

(* The wait loop serves every insertion of a device it has seen absent.    *)
(* One that is extracted and inserted again between two samples is missed. *)
InsertionServed ==
    (fresh /\ ~prev /\ conf.wait) ~> (~fresh \/ ended # "no" \/ evLock = "suspended")

(* A wrong key ends the session with "Password is incorrect!", not the     *)
(* process.                                                                *)
WrongKeyReported == ended # "wrong key"

(* at_exit() is final: sys.exit() in the handler ends the process.         *)
ExitIsFinal ==
    [][step["handler"] = "quit" /\ step'["handler"] = "idle" => ended' # "no"]_vars
=============================================================================
