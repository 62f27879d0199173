------------------------------- MODULE Prompts -------------------------------
(* Asking the user, and the files it is about: single keys and lines read  *)
(* from a terminal where a key may be held down (mmgen/term.py,            *)
(* mmgen/ui.py), a file written after the questions it takes, beside       *)
(* another program (write_data_to_file), and files read and chosen         *)
(* (mmgen/fileutil.py).  Time passes when the program waits.  The key "y"  *)
(* stands for the word of confirm_or_raise() too.                          *)
EXTENDS Naturals, Sequences, FiniteSets, Functions

CONSTANTS
    Jobs,               \* see Init
    Timeout,            \* hold_protect_timeout
    Delay, Repeat,      \* a held key is repeated after Delay, and every Repeat
    MaxPresses, MaxBuf, \* bounds
    MaxSize             \* max_input_size

VARIABLES job, pc,
    at,         \* the question asked, see Questions
    kb,         \* [held, wait, presses, buf]: the keyboard, and what is read from it
    timer,      \* of a select()
    got,        \* the reply, as the keys read
    shown,      \* how often a key had been pressed when the question appeared
    mode,       \* of the terminal
    answers,    \* the questions answered, with the keys
    file        \* [is, known, over, moves]: the file written

promptVars == <<job, pc, at, kb, timer, got, shown, mode, answers, file>>

-------------------------------------------------------------------------------
Key == {"y", "n", "enter", "x"}
Stroke(ch) == [ch |-> ch, press |-> kb.presses]
None == [ch |-> "none", press |-> 0]

Selecting == pc \in {"pre", "post", "hold", "hold2"}
Blocked == \/ Selecting /\ kb.buf = <<>> /\ timer > 0
           \/ pc = "read" /\ kb.buf = <<>>
           \/ pc = "line" /\ ~\E x \in Range(kb.buf) : x.ch = "enter"

Typed(x) == IF Len(kb.buf) < MaxBuf THEN Append(kb.buf, x) ELSE kb.buf
Press(ch) ==
    /\ Blocked /\ kb.held = None /\ kb.presses < MaxPresses
    /\ LET x == [ch |-> ch, press |-> kb.presses + 1]
       IN kb' = [held |-> x, wait |-> Delay, presses |-> kb.presses + 1, buf |-> Typed(x)]
    /\ UNCHANGED <<job, pc, at, timer, got, shown, mode, answers, file>>
Release ==
    /\ kb.held # None /\ kb' = [kb EXCEPT !.held = None, !.wait = 0]
    /\ UNCHANGED <<job, pc, at, timer, got, shown, mode, answers, file>>
Tick ==
    /\ Blocked /\ (Selecting \/ kb.held # None)
    /\ timer' = IF Selecting THEN timer - 1 ELSE timer
    /\ kb' = IF kb.held = None THEN kb
             ELSE IF kb.wait > 1 THEN [kb EXCEPT !.wait = @ - 1]
             ELSE [kb EXCEPT !.wait = Repeat, !.buf = Typed(kb.held)]
    /\ UNCHANGED <<job, pc, at, got, shown, mode, answers, file>>

-------------------------------------------------------------------------------
hold_protect == ~job.disable

(* Questions for a key, and for a line; without a terminal, what there is  *)
(* is read.  keypress_confirm() may take the default without asking.       *)
ByKey == {"save", "next"}
Ask(q) ==
    /\ at' = q /\ got' = <<>> /\ timer' = Timeout
    /\ IF q \in ByKey
       THEN /\ shown' = kb.presses
            /\ pc' = IF job.accept_defaults THEN "decide" ELSE IF job.tty THEN "pre" ELSE "read"
            /\ mode' = IF job.tty /\ ~job.accept_defaults THEN "cbreak" ELSE mode
       ELSE /\ shown' = kb.presses
            /\ IF job.tty /\ hold_protect THEN pc' = "hold" /\ mode' = "cbreak" ELSE pc' = "line" /\ mode' = mode

(* get_char(): keys that were there before the question are discarded, and *)
(* so is one followed by another, unless it is among immed_chars.          *)
immed_chars == {"y", "n"}
NotHeld(s) == FALSE                             \* a mutant of the next
Held(s) == hold_protect /\ s # <<>>
Selected ==
    /\ pc = "pre" /\ UNCHANGED <<job, at, got, shown, mode, answers, file>>
    /\ \/ /\ Held(kb.buf) /\ kb' = [kb EXCEPT !.buf = <<>>] /\ timer' = Timeout /\ pc' = "pre"
       \/ /\ ~Held(kb.buf) /\ (kb.buf # <<>> \/ timer = 0) /\ pc' = "read" /\ UNCHANGED <<kb, timer>>
Restored == "orig"
Read ==
    /\ pc = "read" /\ kb.buf # <<>> /\ UNCHANGED <<job, at, shown, answers, file>>
    /\ got' = kb.buf /\ kb' = [kb EXCEPT !.buf = <<>>] /\ timer' = Timeout
    /\ IF ~job.tty \/ (Len(kb.buf) = 1 /\ kb.buf[1].ch \in immed_chars)
       THEN pc' = "decide" /\ mode' = Restored ELSE pc' = "post" /\ mode' = mode
Followed ==
    /\ pc = "post" /\ UNCHANGED <<job, at, kb, shown, answers, file, got>>
    /\ IF kb.buf # <<>> THEN pc' = "pre" /\ timer' = Timeout /\ mode' = mode
       ELSE timer = 0 /\ pc' = "decide" /\ timer' = timer /\ mode' = Restored

(* line_input(): kb_hold_protect() discards keys until there are none for  *)
(* a while, before the line and after it.                                  *)
kb_hold_protect ==
    /\ pc \in {"hold", "hold2"} /\ UNCHANGED <<job, at, answers, file, got>>
    /\ IF kb.buf # <<>> THEN kb' = [kb EXCEPT !.buf = <<>>] /\ timer' = Timeout /\ UNCHANGED <<pc, shown, mode>>
       ELSE /\ timer = 0 /\ mode' = Restored /\ UNCHANGED <<kb, timer>>
            /\ IF pc = "hold" THEN pc' = "line" /\ shown' = kb.presses ELSE pc' = "decide" /\ shown' = shown
line_input ==
    /\ pc = "line" /\ UNCHANGED <<job, at, shown, answers, file>>
    /\ \E n \in DOMAIN kb.buf :
        /\ kb.buf[n].ch = "enter" /\ \A i \in 1 .. n - 1 : kb.buf[i].ch # "enter"
        /\ got' = SubSeq(kb.buf, 1, n)
        /\ kb' = [kb EXCEPT !.buf = SubSeq(@, n + 1, Len(@))]
    /\ timer' = Timeout
    /\ IF job.tty /\ hold_protect THEN pc' = "hold2" /\ mode' = "cbreak" ELSE pc' = "decide" /\ mode' = mode

(* Ctrl-C, and the end of the program: the terminal is as it was.          *)
Exit(how) == pc' = how /\ mode' = Restored /\ UNCHANGED <<at, kb, timer, got, shown>>
Interrupt ==
    /\ pc \in {"pre", "read", "post", "hold", "line", "hold2"} /\ Exit("interrupted") /\ UNCHANGED <<job, answers, file>>

-------------------------------------------------------------------------------
(* What a reply means: of keypress_confirm(), which asks again if it is    *)
(* neither yes, no nor empty, and of confirm_or_raise().                   *)
Text(s) == [n \in DOMAIN s |-> s[n].ch]
dflt_yes == at = "next" \/ job.dflt_yes
Meaning ==
    IF job.accept_defaults /\ at \in ByKey THEN IF dflt_yes THEN "yes" ELSE "no"
    ELSE IF at \in ByKey
    THEN IF Text(got) = <<"enter">> THEN IF dflt_yes THEN "yes" ELSE "no"
         ELSE IF Text(got) = <<"y">> THEN "yes"
         ELSE IF Text(got) = <<"n">> THEN "no" ELSE "again"
    ELSE IF Text(got) = <<"y", "enter">> THEN "yes" ELSE "no"

(* The way through write_data_to_file(): with stdout wanted, or without a  *)
(* terminal to print to, the data go there; otherwise to the file, after   *)
(* the question whether to save, and whether to overwrite one that is      *)
(* there.  The caller then has a question of its own.                      *)
Asks(q) ==
    \/ q = "screen" /\ job.stdout = "screen" /\ ~job.quiet
    \/ q = "save" /\ job.stdout = "no" /\ job.ask_write
    \/ q = "overwrite" /\ job.stdout = "no" /\ file.is # "absent" /\ ~job.quiet
Reach(n) ==
    IF n = "screen" THEN IF Asks("screen") THEN Ask("screen") ELSE pc' = "save?" /\ UNCHANGED <<at, kb, timer, got, shown, mode>>
    ELSE IF n = "save" THEN IF Asks("save") THEN Ask("save") ELSE pc' = "exists" /\ UNCHANGED <<at, kb, timer, got, shown, mode>>
    ELSE IF Asks("overwrite") THEN Ask("overwrite") ELSE pc' = "open" /\ UNCHANGED <<at, kb, timer, got, shown, mode>>

Start ==
    /\ pc \in {"start", "save?", "exists"} /\ UNCHANGED <<job, kb, answers>>
    /\ IF pc = "start" /\ job.stdout = "screen" /\ job.no_tty THEN Exit("died") /\ file' = file
       ELSE IF pc = "save?" /\ job.stdout # "no" THEN Ask("next") /\ file' = file
       ELSE /\ Reach(IF pc = "start" THEN "screen" ELSE IF pc = "save?" THEN "save" ELSE "overwrite")
            /\ file' = IF pc = "exists" THEN [file EXCEPT !.known = file.is] ELSE file
decide ==
    /\ pc = "decide" /\ UNCHANGED <<job, file>>
    /\ answers' = answers \union IF Meaning = "again" \/ got = <<>> THEN {}
                                 ELSE {[at |-> at, press |-> got[n].press, since |-> shown] : n \in DOMAIN got}
    /\ IF Meaning = "again" THEN Ask(at) /\ kb' = kb
       ELSE IF Meaning = "no" THEN Exit("died")
       ELSE IF at \in {"screen", "save", "overwrite"}
            THEN /\ pc' = (IF at = "screen" THEN "save?" ELSE IF at = "save" THEN "exists" ELSE "open")
                 /\ UNCHANGED <<at, kb, timer, got, shown, mode>>
       ELSE Exit("done")

(* Before it is opened, which empties it, a file may be compared with what *)
(* it was; the writing may fail half way.                                  *)
Unaltered == job.check_data => file.is = job.file
Write ==
    /\ UNCHANGED <<job, answers>>
    /\ \/ /\ pc = "open"
          /\ IF Unaltered THEN file' = [file EXCEPT !.is = "torn", !.over = file.is]
                               /\ pc' = "write" /\ UNCHANGED <<at, kb, timer, got, shown, mode>>
             ELSE file' = file /\ Exit("died")
       \/ pc = "write" /\ file' = [file EXCEPT !.is = "new"] /\ Ask("next") /\ kb' = kb
       \/ pc = "write" /\ file' = file /\ Exit("died")
OtherProgram ==
    /\ file.moves = 0 /\ pc \in {"start", "save?", "pre", "line", "open"} /\ at # "next" /\ job.kind = "write"
    /\ file' = [file EXCEPT !.is = "other", !.moves = 1]
    /\ UNCHANGED <<job, pc, at, kb, timer, got, shown, mode, answers>>

-------------------------------------------------------------------------------
(* Reading: one byte more than the maximum is asked for; the length of a   *)
(* text is then that of its characters.                                    *)
Bytes(text) == LET upto[k \in 0 .. Len(text)] == IF k = 0 THEN 0 ELSE upto[k - 1] + text[k] IN upto[Len(text)]
Whole(text) == {k \in 0 .. Len(text) : Bytes(SubSeq(text, 1, k)) <= MaxSize + 1}
get_data_from_file(text, binary) ==
    LET taken == CHOOSE k \in Whole(text) : \A j \in Whole(text) : j <= k
        bytes == IF Bytes(text) > MaxSize + 1 THEN MaxSize + 1 ELSE Bytes(text)
    IN IF binary THEN IF bytes = MaxSize + 1 THEN "too long" ELSE "whole"
       ELSE IF Bytes(SubSeq(text, 1, taken)) # bytes THEN "undecodable"
       ELSE IF taken = MaxSize + 1 THEN "too long"
       ELSE IF taken = Len(text) THEN "whole" ELSE "cut off"

(* The file of the seed: the user's, the default wallet, or none, when     *)
(* options say where the seed is.                                          *)
Given(b) == IF b THEN 1 ELSE 0
get_seed_file(args, nargs, default, opts) ==
    IF args < nargs - Given(opts \/ default) \/ args > nargs THEN "usage"
    ELSE IF args > 0 THEN "user"
    ELSE IF opts \/ ~default THEN "none" ELSE "default"

FileFacts ==
    /\ job.kind = "read" => LET r == get_data_from_file(job.text, job.binary) IN
        /\ r = "whole" => Bytes(job.text) <= MaxSize + Len(job.text)
        /\ (\A w \in Range(job.text) : w = 1) \/ job.binary =>
               r = IF Bytes(job.text) <= MaxSize THEN "whole" ELSE "too long"
    /\ job.kind = "seed" /\ job.nargs = 1 =>
        LET r == get_seed_file(job.args, 1, job.default, job.opts)
        IN r = "none" => job.opts

Init ==
    /\ job \in Jobs /\ pc = (IF job.kind = "write" THEN "start" ELSE "pure") /\ at = "" /\ timer = 0 /\ got = <<>> /\ shown = 0
    /\ kb = [held |-> None, wait |-> 0, presses |-> 0, buf |-> <<>>] /\ mode = "orig" /\ answers = {}
    /\ file = [is |-> IF job.kind = "write" THEN job.file ELSE "", known |-> "", over |-> "", moves |-> 0]
Next ==
    \/ \E ch \in Key : Press(ch)
    \/ Release \/ Tick \/ Selected \/ Read \/ Followed \/ kb_hold_protect \/ line_input \/ Interrupt
    \/ Start \/ decide \/ Write \/ OtherProgram
Spec == Init /\ [][Next]_promptVars

(* What the theorems need: a key held down is repeated before the program  *)
(* is done with discarding what it repeats.                                *)
PromptAssumption ==
    /\ Timeout \in Nat /\ Delay \in 1 .. Timeout /\ Repeat \in 1 .. Timeout
    /\ MaxPresses \in Nat /\ MaxBuf \in Nat \ {0} /\ MaxSize \in Nat
    /\ \A x \in Jobs : /\ x.kind \in {"write", "read", "seed"}
                       /\ x.kind = "read" => x.text \in Seq(Nat \ {0}) /\ x.binary \in BOOLEAN
                       /\ x.kind = "seed" => x.args \in Nat /\ x.nargs \in Nat

-------------------------------------------------------------------------------
(* A question on a terminal is answered with keys pressed after it is      *)
(* shown: no key that is held down answers the next question too, if it is *)
(* repeated sooner than the timeout.                                       *)
AnsweredOnce == job.kind = "write" /\ job.tty /\ hold_protect => \A x \in answers : x.press > x.since

(* A file that was there is overwritten only after the user was asked, or  *)
(* with --quiet, and one that must be what it was only if it is.           *)
NothingLost ==
    file.over \notin {"", "absent"} /\ file.known # "absent" =>
        \/ job.quiet
        \/ job.tty => \E x \in answers : x.at = "overwrite"
NotAltered == job.kind = "write" /\ job.check_data => file.over \in {"", job.file}

(* However it ends, the terminal is as it was.                             *)
AsItWas == pc \in {"done", "died", "interrupted"} => mode = "orig"
PromptsRight == AnsweredOnce /\ NothingLost /\ NotAltered /\ AsItWas /\ FileFacts
===============================================================================
