------------------------------ MODULE StatusLed ------------------------------
(***************************************************************************)
(* The status LED of the signing machine (mmgen/led.py).  A Python thread  *)
(* blinks the LED; set() and stop() replace it, with an Event as the only  *)
(* means of telling it to end.  stop() also runs in the handler of SIGINT  *)
(* and SIGTERM, that is on top of a set() or stop() that never goes on.    *)
(***************************************************************************)
EXTENDS Naturals

VARIABLES
    step,     \* where each frame is in set() or stop()
    op,       \* what it was called for: a state of the LED, or "stop"
    handle,   \* self.led_thread
    thr,      \* the LED threads
    ev,       \* the Event's flag
    evLock,   \* who is inside ev.set() or ev.clear()
    light,    \* the LED's control file
    trigger   \* the LED's trigger file

ledVars == <<step, op, handle, thr, ev, evLock, light, trigger>>

Frame == {"main", "handler"}
Mode == {"off", "standby", "busy", "error"}
Thread == Mode \X {0, 1}
Step == {"idle", "wake", "join", "clear", "create", "start", "halt", "rejoin", "restore", "quit"}

LedTypeOK ==
    /\ step \in [Frame -> Step]
    /\ op \in [Frame -> Mode \union {"stop"}]
    /\ handle \in [thread : Thread, is : {"none", "new", "started"}]
    /\ thr \in [Thread -> {"out", "write", "wait"}]
    /\ ev \in BOOLEAN
    /\ evLock \in Frame \union {"free", "suspended"}
    /\ light \in {"dark", "lit"}
    /\ trigger \in {"original", "none"}

LedInit ==
    /\ step = [f \in Frame |-> "idle"]
    /\ op = [f \in Frame |-> "stop"]
    /\ handle = [thread |-> <<"off", 0>>, is |-> "none"]
    /\ thr = [t \in Thread |-> "out"]
    /\ ev = FALSE /\ evLock = "free"
    /\ light = "lit" /\ trigger = "none"

Goto(f, s) == step' = [step EXCEPT ![f] = s]

----------------------------------------------------------------------------
(* led_loop(): write the control file, then wait for the Event.  The kernel*)
(* resets the trigger of an LED that is switched off.                      *)

Draw(t) ==
    /\ thr[t] = "write"
    /\ thr' = [thr EXCEPT ![t] = "wait"]
    /\ light' \in (IF t[1] = "off" THEN {"dark"} ELSE {"dark", "lit"})
    /\ trigger' = IF light' = "dark" THEN "none" ELSE trigger
    /\ UNCHANGED <<step, op, handle, ev, evLock>>

(* ev.wait() takes the Event's lock to look at the flag.                   *)
Awake(t) ==
    /\ thr[t] = "wait" /\ evLock = "free"
    /\ \/ ev /\ thr' = [thr EXCEPT ![t] = "out"]
       \/ ~ev /\ t[1] # "off" /\ thr' = [thr EXCEPT ![t] = "write"]
    /\ UNCHANGED <<step, op, handle, ev, evLock, light, trigger>>

LedThread == \E t \in Thread : Draw(t) \/ Awake(t)

----------------------------------------------------------------------------
(* set() and stop(), step by step, in frame f.                             *)

Call(mode) ==
    /\ Goto("main", "wake")
    /\ op' = [op EXCEPT !["main"] = mode]

(* There is no thread to end at the first call.                            *)
First(f) ==
    /\ step[f] = "wake" /\ handle.is = "none"
    /\ Goto(f, "create")
    /\ UNCHANGED <<op, handle, thr, ev, evLock, light, trigger>>

(* ev.set() and ev.clear() hold a lock that is not reentrant.              *)
Enter(f) ==
    /\ step[f] \in {"wake", "clear", "halt"} /\ handle.is # "none"
    /\ evLock = "free"
    /\ evLock' = f
    /\ UNCHANGED <<step, op, handle, thr, ev, light, trigger>>

(* Mutant: set() does not wait for the thread it has told to end.          *)
AfterNoJoin(s) == CASE s = "wake" -> "clear" [] s = "clear" -> "create" [] s = "halt" -> "rejoin"

(* Mutant: stop() does not wait for the last thread.                       *)
AfterNoRejoin(s) == CASE s = "wake" -> "join" [] s = "clear" -> "create" [] s = "halt" -> "restore"

(* Mutant: the Event is cleared before the thread has seen it.             *)
AfterEarlyClear(s) == CASE s = "wake" -> "clear" [] s = "clear" -> "join" [] s = "halt" -> "rejoin"

After(s) == CASE s = "wake" -> "join" [] s = "clear" -> "create" [] s = "halt" -> "rejoin"

Leave(f) ==
    /\ evLock = f
    /\ ev' = (step[f] # "clear")
    /\ evLock' = "free"
    /\ Goto(f, After(step[f]))
    /\ UNCHANGED <<op, handle, thr, light, trigger>>

Join(f) ==
    /\ step[f] \in {"join", "rejoin"}
    /\ handle.is = "started" /\ thr[handle.thread] = "out"
    /\ Goto(f, IF step[f] = "join" THEN "clear" ELSE "restore")
    /\ UNCHANGED <<op, handle, thr, ev, evLock, light, trigger>>

(* join() raises RuntimeError for a thread that was never started.         *)
JoinRaises(f) == step[f] \in {"join", "rejoin"} /\ handle.is = "new"

Create(f) ==
    /\ step[f] = "create"
    /\ handle' = [thread |-> <<IF op[f] = "stop" THEN "off" ELSE op[f], 1 - handle.thread[2]>>,
                  is |-> "new"]
    /\ Goto(f, "start")
    /\ UNCHANGED <<op, thr, ev, evLock, light, trigger>>

Begin(f) ==
    /\ step[f] = "start"
    /\ thr' = [thr EXCEPT ![handle.thread] = "write"]
    /\ handle' = [handle EXCEPT !.is = "started"]
    /\ Goto(f, IF op[f] = "stop" THEN "halt" ELSE "idle")
    /\ UNCHANGED <<op, ev, evLock, light, trigger>>

Restore(f) ==
    /\ step[f] = "restore"
    /\ trigger' = "original"
    /\ Goto(f, "quit")
    /\ UNCHANGED <<op, handle, thr, ev, evLock, light>>

LedCall(f) ==
    First(f) \/ Enter(f) \/ Leave(f) \/ Join(f) \/ Create(f) \/ Begin(f) \/ Restore(f)

(* A signal: the handler starts afresh over whatever frame was running,    *)
(* which keeps the Event's lock if it holds it.                            *)
Interrupt ==
    /\ Goto("handler", "wake")
    /\ evLock' = IF evLock = "free" THEN "free" ELSE "suspended"
    /\ UNCHANGED <<op, handle, thr, ev, light, trigger>>
=============================================================================
