------------------------- MODULE AutosignWait_proofs -------------------------
(***************************************************************************)
(* Theorems of AutosignWait.  The handler's frame is on top of the main    *)
(* thread's: only the top frame moves, and what the proofs know of the LED *)
(* threads they know through the place the top frame has reached.          *)
(***************************************************************************)
EXTENDS AutosignWait, TLAPS

USE DEF ledVars, userVars, mainVars, vars

Top(f) == f = "handler" \/ step["handler"] = "idle"

Handle == [thread : Thread, is : {"none", "new", "started"}]

(* The part of TypeOK the LED proofs need.                                 *)
LedType ==
    /\ step \in [Frame -> Step]
    /\ op \in [Frame -> Mode \union {"stop"}]
    /\ op["handler"] = "stop"
    /\ handle \in Handle
    /\ thr \in [Thread -> {"out", "write", "wait"}]
    /\ evLock \in Frame \union {"free", "suspended"}

AllOut == \A t \in Thread : thr[t] = "out"

(* Whoever is inside ev.set() or ev.clear() is the top frame, and there.   *)
LockHeld ==
    \A f \in Frame : evLock = f =>
        /\ step[f] \in {"wake", "clear", "halt"}
        /\ handle.is # "none"
        /\ Top(f)

(* A running thread is the one led_thread refers to.                       *)
OnlyHandled ==
    \A t \in Thread : thr[t] # "out" => handle.is = "started" /\ handle.thread = t

(* What the top frame knows at each step of set() and stop().              *)
Known(f) ==
    /\ step[f] \in {"clear", "create", "start", "restore", "quit"} => AllOut
    /\ step[f] = "start" => /\ handle.is = "new"
                            /\ op[f] = "stop" => handle.thread[1] = "off"
    /\ step[f] \in {"halt", "rejoin"} =>
            /\ handle.thread[1] = "off"
            /\ thr[handle.thread] \in {"wait", "out"} => light = "dark"
    /\ step[f] \in {"restore", "quit"} => light = "dark"
    /\ step[f] = "quit" => trigger = "original"

LedInv ==
    /\ LedType
    /\ LockHeld
    /\ OnlyHandled
    /\ \A f \in Frame : Top(f) => Known(f)

WaitInv ==
    /\ ended = "no" => LedInv
    /\ ended # "no" => AllOut
    /\ RestoredAtExit

LEMMA InitInv == Init => WaitInv
  BY DEF Init, LedInit, WaitInv, LedInv, LedType, LockHeld, OnlyHandled, Known, AllOut, RestoredAtExit,
         Top, Frame, Step, Mode, Thread, Handle

(* The LED threads: only one is there to move.                             *)
LEMMA DrawKeeps ==
  ASSUME LedInv, ended = "no", NEW t \in Thread, Draw(t) PROVE LedInv'
<1> USE DEF LedInv, LedType, Draw, Handle
<1>1. LedType' OBVIOUS
<1>2. LockHeld' BY DEF LockHeld, Top
<1>3. OnlyHandled' BY DEF OnlyHandled
<1>4. ASSUME NEW f \in Frame, Top(f)' PROVE Known(f)'
  BY <1>4 DEF Known, AllOut, OnlyHandled, Top
<1> QED BY <1>1, <1>2, <1>3, <1>4

LEMMA AwakeKeeps ==
  ASSUME LedInv, NEW t \in Thread, Awake(t) PROVE LedInv'
<1> USE DEF LedInv, LedType, Awake, Handle
<1>1. LedType' OBVIOUS
<1>2. LockHeld' BY DEF LockHeld, Top
<1>3. OnlyHandled' BY DEF OnlyHandled
<1>4. ASSUME NEW f \in Frame, Top(f)' PROVE Known(f)'
  BY <1>4 DEF Known, AllOut, OnlyHandled, Top
<1> QED BY <1>1, <1>2, <1>3, <1>4

(* A step of set() or stop() in the top frame f, case by case; nothing is  *)
(* claimed of the frame below the handler.                                 *)
LEMMA CallKeeps ==
  ASSUME LedInv, NEW f \in Frame, Top(f), LedCall(f) PROVE LedInv'
<1> USE DEF LedInv, LedType, Handle, Goto, Frame, Step
<1>1. SUFFICES /\ LedType' /\ LockHeld' /\ OnlyHandled'
               /\ Known(f)'
               /\ \A g \in Frame : g # f /\ Top(g)' => step'[g] = "idle"
  BY DEF Known
<1>2. step[f] # "idle" /\ (f = "main" => step["handler"] = "idle")
  BY DEF Top, LedCall, First, Enter, Leave, Join, Create, Begin, Restore, LockHeld
<1>3. \A g \in Frame : g # f /\ Top(g)' => step'[g] = "idle"
  BY <1>2 DEF Top, LedCall, First, Enter, Leave, Join, Create, Begin, Restore, After, LockHeld
<1>4. CASE First(f)
  <2> USE <1>4 DEF First
  <2>1. LedType' BY DEF LockHeld, Thread, Mode
  <2>2. LockHeld' BY <1>2 DEF LockHeld, Top
  <2>3. OnlyHandled' BY DEF OnlyHandled, Known, AllOut
  <2>4. Known(f)' BY DEF Known, AllOut, OnlyHandled, LockHeld
  <2> QED BY <1>3, <2>1, <2>2, <2>3, <2>4
<1>5. CASE Enter(f)
  <2> USE <1>5 DEF Enter
  <2>1. LedType' BY DEF LockHeld, Thread, Mode
  <2>2. LockHeld' BY <1>2 DEF LockHeld, Top
  <2>3. OnlyHandled' BY DEF OnlyHandled, Known, AllOut
  <2>4. Known(f)' BY DEF Known, AllOut, OnlyHandled, LockHeld
  <2> QED BY <1>3, <2>1, <2>2, <2>3, <2>4
<1>6. CASE Leave(f)
  <2> USE <1>6 DEF Leave, After
  <2>1. LedType' BY DEF LockHeld, Thread, Mode
  <2>2. LockHeld' BY <1>2 DEF LockHeld, Top
  <2>3. OnlyHandled' BY DEF OnlyHandled, Known, AllOut
  <2>4. Known(f)' BY DEF Known, AllOut, OnlyHandled, LockHeld
  <2> QED BY <1>3, <2>1, <2>2, <2>3, <2>4
<1>7. CASE Join(f)
  <2> USE <1>7 DEF Join
  <2>1. LedType' BY DEF LockHeld, Thread, Mode
  <2>2. LockHeld' BY <1>2 DEF LockHeld, Top
  <2>3. OnlyHandled' BY DEF OnlyHandled, Known, AllOut
  <2>4. Known(f)' BY DEF Known, AllOut, OnlyHandled, LockHeld
  <2> QED BY <1>3, <2>1, <2>2, <2>3, <2>4
<1>8. CASE Create(f)
  <2> USE <1>8 DEF Create
  <2>1. LedType' BY DEF LockHeld, Thread, Mode
  <2>2. LockHeld' BY <1>2 DEF LockHeld, Top
  <2>3. OnlyHandled' BY DEF OnlyHandled, Known, AllOut
  <2>4. Known(f)' BY DEF Known, AllOut, OnlyHandled, LockHeld
  <2> QED BY <1>3, <2>1, <2>2, <2>3, <2>4
<1>9. CASE Begin(f)
  <2> USE <1>9 DEF Begin
  <2>1. LedType' BY DEF LockHeld, Thread, Mode
  <2>2. LockHeld' BY <1>2 DEF LockHeld, Top
  <2>3. OnlyHandled' BY DEF OnlyHandled, Known, AllOut
  <2>4. Known(f)' BY DEF Known, AllOut, OnlyHandled, LockHeld
  <2> QED BY <1>3, <2>1, <2>2, <2>3, <2>4
<1>10. CASE Restore(f)
  <2> USE <1>10 DEF Restore
  <2>1. LedType' BY DEF LockHeld, Thread, Mode
  <2>2. LockHeld' BY <1>2 DEF LockHeld, Top
  <2>3. OnlyHandled' BY DEF OnlyHandled, Known, AllOut
  <2>4. Known(f)' BY DEF Known, AllOut, OnlyHandled, LockHeld
  <2> QED BY <1>3, <2>1, <2>2, <2>3, <2>4
<1> QED BY <1>4, <1>5, <1>6, <1>7, <1>8, <1>9, <1>10 DEF LedCall

(* set() is called, the process ends, or a signal arrives.                 *)
LEMMA SetKeeps ==
  ASSUME LedInv, MainRuns, NEW mode \in Mode \union {"stop"}, SetLed(mode) PROVE LedInv'
  BY DEF LedInv, LedType, LockHeld, OnlyHandled, Known, AllOut, Top, MainRuns, SetLed, Call, Goto,
         Frame, Step

LEMMA EndKeeps ==
  ASSUME NEW how \in Ending \ {"no"}, End(how), how = "exit" => light = "dark" /\ trigger = "original"
  PROVE  WaitInv'
  BY DEF WaitInv, RestoredAtExit, AllOut, End, Thread, Mode

LEMMA InterruptKeeps == ASSUME LedInv, Interrupt PROVE LedInv'
  BY DEF LedInv, LedType, LockHeld, OnlyHandled, Known, AllOut, Top, Interrupt, Goto, Frame, Step

LEMMA CaughtKeeps ==
  ASSUME LedInv, step["handler"] \notin {"idle", "wake", "clear", "halt"}, step["main"] = "idle",
         Goto("handler", "idle"), UNCHANGED <<op, handle, thr, ev, evLock, light, trigger>>
  PROVE  LedInv'
<1> USE DEF LedInv, LedType, Goto, Frame, Step
<1>1. LedType' OBVIOUS
<1>2. LockHeld' BY DEF LockHeld, Top
<1>3. OnlyHandled' BY DEF OnlyHandled
<1>4. \A f \in Frame : Known(f)' BY DEF Known
<1> QED BY <1>1, <1>2, <1>3, <1>4

LEMMA StutterKeeps == ASSUME LedInv, UNCHANGED ledVars PROVE LedInv'
  BY DEF LedInv, LedType, LockHeld, OnlyHandled, Known, AllOut, Top, Handle

(* A step of the main thread calls set(), ends the process otherwise than  *)
(* by at_exit(), or leaves the LED alone.                                  *)
LEMMA MainStep ==
  ASSUME Main, ended = "no"
  PROVE  \/ (\E mode \in Mode \union {"stop"} : SetLed(mode)) /\ UNCHANGED ended
         \/ \E how \in Ending \ {"no", "exit"} : End(how)
         \/ UNCHANGED <<ledVars, ended>>
<1> USE DEF SetLedUnless, Mode, Ending
<1>1. CASE InitLed BY <1>1 DEF InitLed
<1>2. CASE Ready BY <1>2 DEF Ready, StartSession
<1>3. CASE Poll BY <1>3 DEF Poll, Edge, StartSession
<1>4. CASE Mount BY <1>4 DEF Mount
<1>5. CASE Decrypt BY <1>5 DEF Decrypt
<1>6. CASE Keys BY <1>6 DEF Keys
<1>7. CASE Sign BY <1>7 DEF Sign
<1>8. CASE EndSession BY <1>8 DEF EndSession, Result
<1>9. CASE AtExit BY <1>9 DEF AtExit
<1> QED BY <1>1, <1>2, <1>3, <1>4, <1>5, <1>6, <1>7, <1>8, <1>9 DEF Main

LEMMA NextInv == WaitInv /\ [Next]_vars => WaitInv'
<1> SUFFICES ASSUME WaitInv, [Next]_vars PROVE WaitInv'
  OBVIOUS
<1> USE DEF WaitInv
<1>1. CASE Main
  <2>1. MainRuns
    BY <1>1 DEF Main, At, InitLed, Ready, Poll, Mount, Decrypt, Keys, Sign, EndSession, AtExit
  <2>2. CASE (\E mode \in Mode \union {"stop"} : SetLed(mode)) /\ UNCHANGED ended
    BY <2>1, <2>2, SetKeeps DEF MainRuns, RestoredAtExit
  <2>3. CASE \E how \in Ending \ {"no", "exit"} : End(how)
    BY <2>3, EndKeeps
  <2>4. CASE UNCHANGED <<ledVars, ended>>
    BY <2>4, StutterKeeps DEF AllOut, RestoredAtExit
  <2> QED BY <1>1, <2>1, <2>2, <2>3, <2>4, MainStep DEF MainRuns
<1>2. CASE LedCalls
  BY <1>2, CallKeeps DEF LedCalls, Running, Top, RestoredAtExit
<1>3. CASE LedEnds
  <2> PICK f \in Frame : Quit(f) \/ Raise(f)
    BY <1>3 DEF LedEnds
  <2>0. Running(f) /\ Top(f)
    BY DEF Quit, Raise, Running, Top
  <2>1. CASE Quit(f) /\ End("exit")
    BY <2>0, <2>1, EndKeeps DEF Quit, LedInv, Known, Running, Ending
  <2>2. CASE Raise(f) /\ End("raised")
    BY <2>2, EndKeeps DEF Ending
  <2>3. CASE f = "handler" /\ (Caught(CaughtSigning) \/ Caught(CaughtDecrypting))
    <3>1. /\ step["handler"] \in {"quit", "join", "rejoin"} /\ step["main"] = "idle"
          /\ Goto("handler", "idle") /\ UNCHANGED <<op, handle, thr, ev, evLock, light, trigger>>
          /\ UNCHANGED ended
      BY <2>3 DEF Quit, Raise, JoinRaises, Caught, CaughtSigning, CaughtDecrypting
    <3> QED BY <2>0, <3>1, CaughtKeeps DEF Running, RestoredAtExit
  <2> QED BY <2>1, <2>2, <2>3 DEF Quit, Raise
<1>4. CASE LedThreads
  <2> PICK t \in Thread : Draw(t) \/ Awake(t)
    BY <1>4 DEF LedThreads, LedThread
  <2>1. ended = "no" /\ UNCHANGED ended
    BY <1>4 DEF LedThreads, AllOut, Draw, Awake
  <2> QED BY <2>1, DrawKeeps, AwakeKeeps DEF RestoredAtExit
<1>5. CASE Signal
  BY <1>5, InterruptKeeps DEF Signal, RestoredAtExit
<1>6. CASE Insert \/ Extract \/ UNCHANGED vars
  BY <1>6, StutterKeeps DEF Insert, Extract, AllOut, RestoredAtExit
<1> QED BY <1>1, <1>2, <1>3, <1>4, <1>5, <1>6 DEF Next, Process

LEMMA Invariance == Spec => []WaitInv
<1> QED BY InitInv, NextInv, PTL DEF Spec

(* Wherever signals arrive in set() or stop(), at most one thread blinks   *)
(* the LED.                                                                *)
THEOREM OneBlinkerAlways == Spec => []OneBlinker
<1>1. WaitInv => OneBlinker
  BY DEF WaitInv, LedInv, OnlyHandled, AllOut, OneBlinker
<1> QED BY <1>1, Invariance, PTL

(* A process that ends by at_exit() leaves the LED dark and its trigger    *)
(* restored, wherever in set() or stop() the signals arrived.              *)
THEOREM ExitRestores == Spec => []RestoredAtExit
<1>1. WaitInv => RestoredAtExit
  BY DEF WaitInv
<1> QED BY <1>1, Invariance, PTL

(* What the LED may show, by the place the main thread has reached: the    *)
(* mode of the last call of set(), and the thread that call has created.   *)
Shown(f) == IF op[f] = "stop" THEN "off" ELSE op[f]

ShowInv ==
    /\ mounted => pc \in {"decrypt", "keys", "sign", "umount"}
    /\ keyOk => authed
    /\ op["main"] = "standby" => pc \in {"poll", "exit"} /\ ~conf.stealth
    /\ handle.thread[1] = "standby" =>
            /\ ~conf.stealth
            /\ pc \in {"poll", "exit"} \/ (pc = "mount" /\ step["main"] # "idle")
    /\ conf.stealth /\ ~authed => Shown("main") = "off" /\ handle.thread[1] = "off"
    /\ \A f \in Frame : Top(f) /\ step[f] = "start" => handle.thread[1] = Shown(f)

LEMMA ShowInit == Init => ShowInv
  BY DEF Init, LedInit, ShowInv, Shown, Frame

LEMMA ShowCalls ==
  ASSUME ShowInv, LedInv, NEW f \in Frame, Top(f), LedCall(f), UNCHANGED mainVars
  PROVE  ShowInv'
<1> USE DEF ShowInv, LedInv, LedType, Handle, Goto, Frame, Step, Shown
<1>1. CASE First(f) BY <1>1 DEF First, Top
<1>2. CASE Enter(f) BY <1>2 DEF Enter, Top
<1>3. CASE Leave(f) BY <1>3 DEF Leave, Top, LockHeld, After
<1>4. CASE Join(f) BY <1>4 DEF Join, Top
<1>5. CASE Create(f)
  <2>1. /\ handle'.thread[1] = Shown(f) /\ UNCHANGED op
        /\ \A g \in Frame : g # f => step'[g] = step[g]
    BY <1>5 DEF Create
  <2>2. Shown("handler") = "off" OBVIOUS
  <2>3. \A g \in Frame : Top(g)' /\ step'[g] = "start" => g = f BY <1>5 DEF Create, Top
  <2>4. CASE f = "main" BY <1>5, <2>1, <2>2, <2>3, <2>4 DEF Create
  <2>5. CASE f = "handler" BY <1>5, <2>1, <2>2, <2>3, <2>5 DEF Create
  <2> QED BY <2>4, <2>5
<1>6. CASE Begin(f)
  <2>1. handle'.thread = handle.thread /\ UNCHANGED op /\ handle.thread[1] = Shown(f)
    BY <1>6 DEF Begin
  <2>2. \A g \in Frame : Top(g)' => step'[g] # "start" BY <1>6 DEF Begin, Top
  <2>3. CASE f = "main" BY <1>6, <2>1, <2>2, <2>3 DEF Begin
  <2>4. CASE f = "handler" BY <1>6, <2>1, <2>2, <2>4 DEF Begin
  <2> QED BY <2>3, <2>4
<1>7. CASE Restore(f) BY <1>7 DEF Restore, Top
<1> QED BY <1>1, <1>2, <1>3, <1>4, <1>5, <1>6, <1>7 DEF LedCall

(* Each step of the main thread calls set() with a mode that fits the      *)
(* place it goes to.                                                       *)
LEMMA ShowMain == ASSUME ShowInv, LedInv, Main PROVE ShowInv'
<1> USE DEF ShowInv, LedInv, LedType, Goto, Frame, Shown, Top, Call, SetLed, SetLedUnless, At, MainRuns
<1>1. CASE InitLed BY <1>1 DEF InitLed
<1>2. CASE Ready BY <1>2 DEF Ready, StartSession
<1>3. CASE Poll BY <1>3 DEF Poll, Edge, StartSession
<1>4. CASE Mount BY <1>4 DEF Mount, End
<1>5. CASE Decrypt BY <1>5 DEF Decrypt, End
<1>6. CASE Keys BY <1>6 DEF Keys, End
<1>7. CASE Sign BY <1>7 DEF Sign
<1>8. CASE EndSession BY <1>8 DEF EndSession, Result, Released, End
<1>9. CASE AtExit BY <1>9 DEF AtExit
<1> QED BY <1>1, <1>2, <1>3, <1>4, <1>5, <1>6, <1>7, <1>8, <1>9 DEF Main

LEMMA ShowNext == WaitInv /\ ShowInv /\ [Next]_vars => ShowInv'
<1> SUFFICES ASSUME WaitInv, ShowInv, [Next]_vars PROVE ShowInv'
  OBVIOUS
<1>1. CASE Main
  <2>1. ended = "no"
    BY <1>1 DEF Main, At, MainRuns, InitLed, Ready, Poll, Mount, Decrypt, Keys, Sign, EndSession, AtExit
  <2> QED BY <1>1, <2>1, ShowMain DEF WaitInv
<1>2. CASE LedCalls BY <1>2, ShowCalls DEF LedCalls, Running, Top, WaitInv
<1>3. CASE LedEnds
  <2> PICK f \in Frame : Quit(f) \/ Raise(f) BY <1>3 DEF LedEnds
  <2>1. CASE \E how \in Ending : End(how) /\ UNCHANGED mainVars
    BY <2>1 DEF End, ShowInv, Shown, Top
  <2>2. CASE Caught(CaughtSigning) \/ Caught(CaughtDecrypting)
    <3>1. LedType BY <2>2 DEF Quit, Raise, Running, WaitInv, LedInv
    <3> QED BY <2>2, <3>1
         DEF Caught, CaughtSigning, CaughtDecrypting, ShowInv, Shown, Top, Goto, LedType, Frame
  <2> QED BY <2>1, <2>2 DEF Quit, Raise, Ending
<1>4. CASE LedThreads
  BY <1>4 DEF LedThreads, LedThread, Draw, Awake, ShowInv, Shown, Top
<1>5. CASE Signal
  <2>1. LedType BY <1>5 DEF Signal, WaitInv, LedInv
  <2> QED BY <1>5, <2>1 DEF Signal, Interrupt, ShowInv, Shown, Top, Goto, LedType, Frame
<1>6. CASE Insert \/ Extract \/ UNCHANGED vars
  BY <1>6 DEF Insert, Extract, ShowInv, Shown, Top
<1> QED BY <1>1, <1>2, <1>3, <1>4, <1>5, <1>6 DEF Next, Process

(* The LED tells the truth about the device: no standby while it is        *)
(* mounted, whatever signals have arrived, and with --stealth-led nothing  *)
(* before the wallets were opened.                                         *)
THEOREM StandbyMeansReady == Spec => []StandbyIsReady
<1>1. WaitInv /\ ShowInv => StandbyIsReady
  <2> SUFFICES ASSUME WaitInv, ShowInv PROVE StandbyIsReady OBVIOUS
  <2>1. ASSUME NEW t \in Thread, thr[t] # "out" PROVE handle.thread = t
    BY <2>1 DEF WaitInv, LedInv, OnlyHandled, AllOut
  <2> QED BY <2>1 DEF ShowInv, StandbyIsReady
<1> QED BY <1>1, InitInv, NextInv, ShowInit, ShowNext, PTL DEF Spec
=============================================================================
