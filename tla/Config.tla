-------------------------------- MODULE Config --------------------------------
(* How a command gets its configuration: the coin is looked for on the     *)
(* command line and decides which options there are; then come the command *)
(* line, the environment, the configuration file and the defaults, and the *)
(* checks.  The name of an option is a sequence of syllables, of which the *)
(* user may leave out the last ones; values are strings.                   *)
EXTENDS Integers, FiniteSets, Sequences, Functions

CONSTANTS
    Option,     \* the command's options: name, parameter, type, defaults
    CoinOption, \* those of one coin, written out in full only
    Sets,       \* opts_data['sets']: <<a, value, b, value>>
    Groups,     \* Config._incompatible_opts
    Begins,     \* <<text, choice>>: the text is the beginning of the choice
    Good,       \* the values check_opts() lets pass, by option
    Starts,     \* command lines, environments and files to start with
    MaxKills    \* bound on interruptions

VARIABLES
    job, pc, idx,
    opts,       \* the options there are for the coin
    uopts,      \* self._uopts
    cfg,        \* the attributes of the instance
    envopts, nonauto, auto,   \* names set from the environment and the file; values kept for later
    sample, usr, kills        \* mmgen.cfg.sample, mmgen.cfg

files == <<sample, usr, kills>>
attrs == <<cfg, envopts, nonauto, auto>>
vars == <<job, pc, idx, opts, uopts, attrs, files>>

Empty == ""
Unset == "unset"
Bad == "bad value"

All == [o \in DOMAIN Option \union DOMAIN CoinOption |-> IF o \in DOMAIN Option THEN Option[o] ELSE CoinOption[o]]

Assigned(f, o, v) == [x \in DOMAIN f \union {o} |-> IF x = o THEN v ELSE f[x]]

(* conv_type(): by the type of the class attribute.                        *)
Yes == {"true", "yes", "1", "on"}
No == {"false", "no", "none", "0", "off", ""}

Number(v) == v \in {"0", "1", "7", "100", "128"}

Conv(o, v) ==
    IF All[o].type = "bool" THEN IF v \in Yes THEN "true" ELSE IF v \in No THEN "false" ELSE Bad
    ELSE IF All[o].type = "int" THEN IF Number(v) THEN v ELSE Bad
    ELSE v

Inverted(v) == IF v = "true" THEN "false" ELSE IF v = "false" THEN "true" ELSE v

-------------------------------------------------------------------------------
(* get_coin() reads no options: it looks for --coin up to the first        *)
(* argument without a dash, even if that is the parameter of an option.    *)
IsCoin(arg) == arg.form = "long" /\ arg.word = <<"coin">>

Stops(arg) == IsCoin(arg) \/ arg.form = "plain"

CoinArg ==
    LET ns == {n \in DOMAIN job.argv : Stops(job.argv[n])}
    IN IF ns = {} THEN 0 ELSE CHOOSE n \in ns : \A x \in ns : n <= x

CoinGiven ==
    LET n == CoinArg
    IN IF n = 0 \/ ~ IsCoin(job.argv[n]) THEN "btc"
       ELSE IF job.argv[n].eq THEN job.argv[n].text
       ELSE IF n = Len(job.argv) THEN Bad ELSE job.argv[n + 1].text

GetCoin ==
    /\ pc = "start"
    /\ opts' = {o \in DOMAIN Option : CoinGiven \in Option[o].coins}
    /\ pc' = IF CoinGiven = Bad THEN "died" ELSE "args"
    /\ UNCHANGED <<job, idx, uopts, attrs, files>>

-------------------------------------------------------------------------------
(* The arguments, one by one, up to the first that is not an option.       *)
Arg == job.argv[idx]

startswith(word, start) == Len(start) <= Len(word) /\ SubSeq(word, 1, Len(start)) = start

Named(word, os) ==
    IF \E o \in os : Option[o].word = word THEN {o \in os : Option[o].word = word}
                                           ELSE {o \in os : startswith(Option[o].word, word)}

Negation(word) == IF Head(word) = "no" THEN Tail(word) ELSE <<"no">> \o word

Flags == {o \in opts : ~ Option[o].parm}

NamedNegated(word) ==
    IF \E o \in Flags : Negation(Option[o].word) = word
    THEN {o \in Flags : Negation(Option[o].word) = word}
    ELSE {o \in Flags : startswith(Negation(Option[o].word), word)}

Give(o, v, k) == uopts' = Assigned(uopts, o, v) /\ idx' = idx + k /\ pc' = pc

Die == pc' = "died" /\ UNCHANGED <<uopts, idx>>

(* A parameter after `=`, or else the next argument if it has no dash.  An *)
(* empty one after `=` counts as none.                                     *)
NextIsParm == idx < Len(job.argv) /\ job.argv[idx + 1].form = "plain"

TakeParm(o, v) == IF v # Empty THEN Give(o, v, 1)
                  ELSE IF NextIsParm THEN Give(o, job.argv[idx + 1].text, 2) ELSE Die

TakeFlag(o, v) == IF Arg.text # Empty THEN Die ELSE Give(o, v, 1)

TakeCoinOption(o) ==
    IF ~ CoinOption[o].parm THEN TakeFlag(o, "true")
    ELSE LET v == IF Arg.text # Empty THEN Arg.text ELSE IF NextIsParm THEN job.argv[idx + 1].text ELSE Bad
         IN IF v = Bad \/ Conv(o, v) = Bad THEN Die ELSE TakeParm(o, Arg.text)

LongOption ==
    /\ pc = "args" /\ idx <= Len(job.argv) /\ Arg.form = "long"
    /\ LET pos == Named(Arg.word, opts)
           neg == NamedNegated(Arg.word)
           own == {o \in DOMAIN CoinOption : CoinOption[o].word = Arg.word}
       IN IF pos # {}
          THEN IF Cardinality(pos) > 1 THEN Die
               ELSE \E o \in pos : IF Option[o].parm THEN TakeParm(o, Arg.text) ELSE TakeFlag(o, "true")
          ELSE IF neg # {}
          THEN IF Cardinality(neg) > 1 THEN Die ELSE \E o \in neg : TakeFlag(o, "false")
          ELSE IF own # {} THEN \E o \in own : TakeCoinOption(o) ELSE Die
    /\ UNCHANGED <<job, opts, attrs, files>>

(* -abVALUE: letters up to the first option that takes a parameter, which  *)
(* is the rest of the argument or the next one.                            *)
Letter(x) == {o \in opts : Option[o].letter = x}

ShortOptions ==
    /\ pc = "args" /\ idx <= Len(job.argv) /\ Arg.form = "short"
    /\ IF \E n \in DOMAIN Arg.word : Letter(Arg.word[n]) = {} THEN Die
       ELSE LET given == [n \in DOMAIN Arg.word |-> CHOOSE o \in Letter(Arg.word[n]) : TRUE]
                flags == {given[n] : n \in {x \in DOMAIN given : ~ Option[given[x]].parm}}
                last == given[Len(given)]
                rest == IF Arg.text # Empty THEN Arg.text ELSE IF NextIsParm THEN job.argv[idx + 1].text ELSE Bad
            IN IF ~ Option[last].parm
               THEN /\ uopts' = [x \in DOMAIN uopts \union flags |-> IF x \in flags THEN "true" ELSE uopts[x]]
                    /\ idx' = idx + 1 /\ pc' = pc
               ELSE IF rest = Bad THEN Die
               ELSE /\ uopts' = [x \in DOMAIN uopts \union flags \union {last} |->
                                    IF x = last THEN rest ELSE IF x \in flags THEN "true" ELSE uopts[x]]
                    /\ idx' = idx + (IF Arg.text # Empty THEN 1 ELSE 2) /\ pc' = pc
    /\ UNCHANGED <<job, opts, attrs, files>>

(* The arguments are read; options that are attributes of the class and    *)
(* not set automatically take their value.                                 *)
Automatic(o) == All[o].type \in {"auto", "typed"}

SetUserOpts ==
    /\ pc = "args"
    /\ IF idx > Len(job.argv) THEN TRUE ELSE Arg.form \in {"plain", "end"}
    /\ LET given == {o \in DOMAIN uopts : ~ Automatic(o)}
           val(o) == IF All[o].attr THEN Conv(o, uopts[o]) ELSE uopts[o]
       IN IF \E o \in given : val(o) = Bad THEN pc' = "died" /\ cfg' = cfg
          ELSE pc' = "env" /\ cfg' = [o \in given |-> val(o)]
    /\ UNCHANGED <<job, idx, opts, uopts, envopts, nonauto, auto, files>>

-------------------------------------------------------------------------------
(* The environment.  A variable that is empty is ignored; one for an       *)
(* option without an attribute is an error.                                *)
EnvNames == {o \in DOMAIN job.env : job.env[o].text # Empty /\ o \notin DOMAIN uopts}

EnvValue(o) == IF job.env[o].disable THEN Inverted(Conv(o, job.env[o].text)) ELSE Conv(o, job.env[o].text)

SetFromEnv ==
    /\ pc = "env"
    /\ IF \E o \in EnvNames : ~ All[o].attr \/ EnvValue(o) = Bad
       THEN pc' = "died" /\ UNCHANGED <<cfg, envopts>>
       ELSE /\ cfg' = [o \in DOMAIN cfg \union EnvNames |-> IF o \in EnvNames THEN EnvValue(o) ELSE cfg[o]]
            /\ envopts' = EnvNames
            /\ pc' = "sample"
    /\ UNCHANGED <<job, idx, opts, uopts, nonauto, auto, files>>

-------------------------------------------------------------------------------
(* The sample file is replaced unless it carries its own checksum and      *)
(* documents the options of the program; an empty user file is filled with *)
(* the system's, all of it comments, and is taken as empty this time.      *)
Outdated(s) == s \in {"missing", "torn", "unmarked", "altered", "older"}

CheckSample ==
    /\ pc = "sample"
    /\ IF Outdated(sample) THEN sample' = "torn" /\ pc' = "write sample"
                           ELSE sample' = sample /\ pc' = "user file"
    /\ UNCHANGED <<job, idx, opts, uopts, attrs, usr, kills>>

WriteSample ==
    /\ pc = "write sample"
    /\ sample' = "current"
    /\ pc' = "user file"
    /\ UNCHANGED <<job, idx, opts, uopts, attrs, usr, kills>>

OpenUserFile ==
    /\ pc = "user file"
    /\ idx' = 1
    /\ IF usr \in {"missing", "empty"} THEN usr' = "empty" /\ pc' = "write user"
                                       ELSE usr' = usr /\ pc' = "lines"
    /\ UNCHANGED <<job, opts, uopts, attrs, sample, kills>>

WriteUserFile ==
    /\ pc = "write user"
    /\ usr' = "comments"
    /\ pc' = "auto"
    /\ UNCHANGED <<job, idx, opts, uopts, attrs, sample, kills>>

Lines == IF usr = "lines" THEN job.lines ELSE <<>>

(* Step 4: a line of the file, which must have a value, unless the option  *)
(* is set already.  The default is looked up first, which fails for an     *)
(* option without one.                                                     *)
AlreadyGiven == DOMAIN uopts

AlreadySet == DOMAIN uopts \union envopts

ReadLine ==
    /\ pc = "lines" /\ idx <= Len(Lines)
    /\ idx' = idx + 1
    /\ LET o == Lines[idx].name
           v == Lines[idx].text
           known == o \in DOMAIN All
       IN IF v = Empty THEN pc' = "died" /\ UNCHANGED <<cfg, nonauto, auto>>
          ELSE IF known /\ All[o].file
          THEN IF o \in AlreadySet THEN UNCHANGED <<cfg, nonauto, auto, pc>>
               ELSE IF ~ All[o].attr THEN pc' = "crashed" /\ UNCHANGED <<cfg, nonauto, auto>>
               ELSE IF Conv(o, v) = Bad THEN pc' = "died" /\ UNCHANGED <<cfg, nonauto, auto>>
               ELSE /\ cfg' = Assigned(cfg, o, Conv(o, v))
                    /\ nonauto' = nonauto \union {o}
                    /\ UNCHANGED <<auto, pc>>
          ELSE IF known /\ Automatic(o)
          THEN auto' = Assigned(auto, o, v) /\ UNCHANGED <<cfg, nonauto, pc>>
          ELSE pc' = "died" /\ UNCHANGED <<cfg, nonauto, auto>>
    /\ UNCHANGED <<job, opts, uopts, envopts, files>>

EndLines ==
    /\ pc = "lines" /\ idx > Len(Lines)
    /\ pc' = "auto"
    /\ UNCHANGED <<job, idx, opts, uopts, attrs, files>>

-------------------------------------------------------------------------------
(* Steps 5 and 6: the unique choice that begins with what the user wrote,  *)
(* else with what the file says, else the first; then the numbers.         *)
Chosen(o, v) == {c \in Range(All[o].choices) : <<v, c>> \in Begins}

Wanted(o) == IF o \in DOMAIN uopts THEN uopts[o] ELSE IF o \in DOMAIN auto THEN auto[o] ELSE Unset

AutoValue(o) ==
    IF Wanted(o) = Unset THEN (IF All[o].type = "auto" THEN Head(All[o].choices) ELSE Unset)
    ELSE IF All[o].type = "typed" THEN (IF Number(Wanted(o)) THEN Wanted(o) ELSE Bad)
    ELSE IF Cardinality(Chosen(o, Wanted(o))) = 1 THEN CHOOSE c \in Chosen(o, Wanted(o)) : TRUE ELSE Bad

SetAutomatic ==
    /\ pc = "auto"
    /\ LET os == {o \in DOMAIN All : Automatic(o) /\ AutoValue(o) # Unset}
       IN IF \E o \in os : AutoValue(o) = Bad THEN pc' = "died" /\ cfg' = cfg
          ELSE /\ cfg' = [o \in DOMAIN cfg \union os |-> IF o \in os THEN AutoValue(o) ELSE cfg[o]]
               /\ pc' = "sets"
    /\ UNCHANGED <<job, idx, opts, uopts, envopts, nonauto, auto, files>>

(* What cfg.o gives: the attribute of the instance, or of the class.       *)
Get(o) == IF o \in DOMAIN cfg THEN cfg[o] ELSE All[o].dflt

IsOff(v) == v \in {Unset, "false"}

(* Step 7: an option that is set sets others, unless they have another     *)
(* value; an option that was switched off counts as not set.               *)
SetImplied ==
    /\ pc = "sets"
    /\ LET due == {s \in Sets : Get(s[1]) = s[2]}
       IN IF \E s \in due : ~ IsOff(Get(s[3])) /\ Get(s[3]) # s[4]
          THEN pc' = "died" /\ cfg' = cfg
          ELSE /\ cfg' = [o \in DOMAIN cfg \union {s[3] : s \in due} |->
                             IF \E s \in due : s[3] = o THEN (CHOOSE s \in due : s[3] = o)[4] ELSE cfg[o]]
               /\ pc' = "conflicts"
    /\ UNCHANGED <<job, idx, opts, uopts, envopts, nonauto, auto, files>>

(* Options of a group count as given whatever value they were given.       *)
DieOnIncompatible ==
    /\ pc = "conflicts"
    /\ pc' = IF \E g \in Groups : Cardinality(g \intersect DOMAIN cfg) > 1 THEN "died" ELSE "check"
    /\ UNCHANGED <<job, idx, opts, uopts, attrs, files>>

(* Only what came from the command line and the environment, and what the  *)
(* file set at once, is checked.                                           *)
CheckOpts ==
    /\ pc = "check"
    /\ pc' = IF \E o \in (DOMAIN uopts \union envopts \union nonauto) \intersect DOMAIN Good :
                   Get(o) \notin Good[o]
             THEN "died" ELSE "done"
    /\ UNCHANGED <<job, idx, opts, uopts, attrs, files>>

Running == pc \notin {"done", "died", "crashed"}

(* The command is killed and given again.                                  *)
Restart ==
    /\ Running /\ kills < MaxKills
    /\ pc = "write sample" \/ pc = "write user"
    /\ kills' = kills + 1
    /\ pc' = "start" /\ idx' = 1
    /\ opts' = {} /\ uopts' = <<>> /\ cfg' = <<>> /\ envopts' = {} /\ nonauto' = {} /\ auto' = <<>>
    /\ UNCHANGED <<job, sample, usr>>

Init ==
    /\ job \in Starts
    /\ pc = "start" /\ idx = 1
    /\ opts = {} /\ uopts = <<>> /\ cfg = <<>> /\ envopts = {} /\ nonauto = {} /\ auto = <<>>
    /\ sample = job.sample /\ kills = 0
    /\ usr = IF job.lines # <<>> THEN "lines" ELSE job.usr

Next ==
    \/ GetCoin \/ LongOption \/ ShortOptions \/ SetUserOpts \/ SetFromEnv
    \/ CheckSample \/ WriteSample \/ OpenUserFile \/ WriteUserFile \/ ReadLine \/ EndLines
    \/ SetAutomatic \/ SetImplied \/ DieOnIncompatible \/ CheckOpts \/ Restart

Spec == Init /\ [][Next]_vars

(* What the theorems need: what converts values by their type is the       *)
(* attribute of the class, which the options set automatically do not      *)
(* have; options of a group are off unless given; an implied option        *)
(* implies no other, and has one value; and nobody writes the value that   *)
(* stands for none.                                                        *)
Said(s) == s.text # Unset

IsSeq(s) == s \in Seq(Range(s))

ConfigAssumption ==
    /\ \A o \in DOMAIN All :
          /\ All[o].type \in {"bool", "int"} => All[o].attr
          /\ Automatic(o) => ~ All[o].attr
          /\ All[o].type = "auto" /\ Head(All[o].choices) = Unset => All[o].dflt = Unset
    /\ \A b \in Begins : b[2] # Unset
    /\ \A g \in Groups : IsFiniteSet(g) /\ \A o \in g : All[o].dflt \in {Unset, "false", Empty}
    /\ \A s, t \in Sets : s[3] # t[1] /\ (s[3] = t[3] => s[4] = t[4])
    /\ \A x \in Starts :
          /\ IsSeq(x.argv)
          /\ \A a \in Range(x.argv) : Said(a) /\ (a.form = "short" => IsSeq(a.word) /\ a.word # <<>>)
          /\ DOMAIN x.env \subseteq DOMAIN All /\ \A o \in DOMAIN x.env : Said(x.env[o])
          /\ IsSeq(x.lines) /\ \A ln \in Range(x.lines) : Said(ln)
          /\ x.sample \in {"missing", "torn", "unmarked", "altered", "older", "current"}

-------------------------------------------------------------------------------
(* Globals are overridden with the precedence command line, environment,   *)
(* configuration file: an option that nothing implies has the value of the *)
(* first of them that gives it one, of the last line if several do.        *)
LastLine(o) ==
    LET ns == {n \in DOMAIN job.lines : job.lines[n].name = o}
    IN IF usr # "lines" \/ ns = {} THEN Unset ELSE job.lines[CHOOSE n \in ns : \A x \in ns : x <= n].text

Source(o) ==
    IF o \in DOMAIN uopts THEN uopts[o]
    ELSE IF o \in DOMAIN job.env /\ job.env[o].text # Empty THEN EnvValue(o)
    ELSE LastLine(o)

Ranked == pc = "done" =>
    \A o \in DOMAIN All : o \notin {s[3] : s \in Sets} =>
        IF Source(o) = Unset
        THEN Get(o) = IF All[o].type = "auto" THEN Head(All[o].choices) ELSE All[o].dflt
        ELSE Get(o) = IF All[o].type = "auto" THEN CHOOSE c \in Chosen(o, Source(o)) : TRUE
                                              ELSE Conv(o, Source(o))

(* No two options of a group are in effect, and an option that implies     *)
(* another has it in effect.                                               *)
Consistent == pc = "done" =>
    /\ \A g \in Groups : Cardinality({o \in g : ~ IsOff(Get(o)) /\ Get(o) # Empty}) <= 1
    /\ \A s \in Sets : Get(s[1]) = s[2] => Get(s[3]) = s[4]

(* Interrupted or not, a start leaves a sample file that documents this    *)
(* program, and never touches what the user wrote.                         *)
FilesKept ==
    /\ pc = "done" => sample = "current"
    /\ job.lines # <<>> => usr = "lines"

ConfigRight == Ranked /\ Consistent /\ FilesKept

(* Every line of the sample configuration file can be used as it stands.   *)
SampleAccepted ==
    job.argv = <<>> /\ job.env = <<>> /\ Len(job.lines) = 1 /\ job.documented => pc \notin {"died", "crashed"}

===============================================================================
