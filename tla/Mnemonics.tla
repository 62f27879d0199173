----------------------------- MODULE Mnemonics -----------------------------
(* Seed data in words and digits: entry of a seed phrase at the keyboard,  *)
(* key by key, in each entry mode (mn_entry.py), and the conversions       *)
(* between a seed and its phrase (baseconv.py, bip39.py, xmrseed.py) as    *)
(* the wallet types use them (wallet/*.py).  A word is a sequence of       *)
(* letters, numbers that are in the order of the letters; a phrase is a    *)
(* sequence of indexes into the list; a seed is a sequence of bytes.       *)
EXTENDS Integers, Sequences, SequencesExt, FiniteSetsExt

CONSTANTS
    Wordlists,              \* the word lists and digits, by name: sequences of words, sorted
    Kinds,              \* the kinds of seed data: list, check, over, modes, dfl, lens
    ByteBase, ChunkLen, \* 256, and the 4 bytes that make 3 Monero words
    PadMax,             \* the most dead characters per word
    Sum6(_, _), BipSum(_, _), Crc(_), Mix(_),   \* checksums, and added entropy
    Jobs, SeedSet,      \* what the user does; the seeds whose phrases are read
    MaxTyped            \* bound: the letters typed for a word

VARIABLES job, pc, mode, s, pad, range, phrase, last, seed, told

mnVars == <<job, pc, mode, s, pad, range, phrase, last, seed, told>>

NoSeed == <<>>
Kind == Kinds[job.kind]
wl == Wordlists[Kind.list]
Base == Len(wl)
At(i) == wl[(i % Base) + 1]
Cut(w, n) == SubSeq(w, 1, IF n < Len(w) THEN n ELSE Len(w))
Before(a, b) == \E i \in 1 .. Len(b) : Cut(a, i - 1) = Cut(b, i - 1) /\ (Len(a) < i \/ (i <= Len(a) /\ a[i] < b[i]))

(* What the search relies on (check_wordlist).                             *)
Sorted == \A l \in DOMAIN Wordlists : \A i \in 1 .. Len(Wordlists[l]) - 1 : Before(Wordlists[l][i], Wordlists[l][i + 1])

longest_word == Max({Len(w) : w \in ToSet(wl)})
shortest_word == Min({Len(w) : w \in ToSet(wl)})
(* Grown for each pair of neighbours until it tells them apart.            *)
uniq_ss_len ==
    FoldLeft(LAMBDA usl, i : Min({n \in usl .. longest_word + 1 : Cut(wl[i], n) # Cut(wl[i + 1], n)}),
             0, [i \in 1 .. Base - 1 |-> i])

ss_len == IF mode = "full" THEN longest_word ELSE uniq_ss_len
len_diff == uniq_ss_len - shortest_word

(* The binary search.  A bound of 0 is taken for none.                     *)
Found(r, i, lo, hi) == [res |-> r, idx |-> i, lo |-> lo, hi |-> hi]
idx(word, by, lo0, hi0) ==
    LET n == CASE by = "full" -> longest_word [] by = "short" -> uniq_ss_len [] by = "minimal" -> Len(word)
        w == Cut(word, n)
        Same(i) == i \in 0 .. Base - 1 /\ Cut(At(i), n) = w
        find[lo \in -1 .. Base, hi \in -1 .. Base] ==
            LET i == (hi + lo) \div 2 IN
            IF Cut(At(i), n) = w
            THEN IF by = "minimal" /\ (Same(i - 1) \/ Same(i + 1)) THEN Found("more", 0, lo, hi) ELSE Found("word", i, 0, 0)
            ELSE IF hi <= lo THEN Found("none", 0, 0, 0)
            ELSE IF Before(w, Cut(At(i), n)) THEN find[lo, i - 1] ELSE find[i + 1, hi]
    IN find[lo0, IF hi0 = 0 THEN Base - 1 ELSE hi0]

LookUp(word, r) ==
    CASE mode = "full" -> idx(word, "full", 0, 0)
      [] mode \in {"short", "fixed"} -> idx(word, "short", 0, 0)
      [] mode = "minimal" -> idx(word, "full", r[1], r[2])

Whole == <<0, Base - 1>>
Words == Kind.lens

-------------------------------------------------------------------------------
(* Conversions.                                                            *)
Num(digits, b) == FoldLeft(LAMBDA n, d : n * b + d, 0, digits)
Digits(n, b, len) == [i \in 1 .. len |-> (n \div b^(len - i)) % b]
Width(n, b) == CHOOSE w \in 1 .. 32 : n < b^w /\ (w = 1 \/ n >= b^(w - 1))
Unpadded(n, b, len) == Digits(n, b, Width(n, b))
(* Leading zeros up to the length wanted, but never fewer digits than it takes. *)
Padded(n, b, len) == Digits(n, b, Max({len, Width(n, b), 1}))

LenFor(k, n) == {p \in Kinds[k].lens : p[2] = n}
WordsFor(k, n) == {p \in Kinds[k].lens : p[1] = n}
ChkBase(k, len, nwords) == Len(Wordlists[Kinds[k].list])^nwords \div ByteBase^len

num2base_monero(n, b) ==
    LET w1 == n % b  w2 == (n \div b + w1) % b  w3 == (n \div (b * b) + w2) % b IN <<w1, w2, w3>>
Chunks(x, n) == [i \in 1 .. Len(x) \div n |-> SubSeq(x, n * (i - 1) + 1, n * i)]
monero_mn_checksum(words) == words[(Crc(words) % Len(words)) + 1]

frombytes(k, sd) ==
    LET b == Len(Wordlists[Kinds[k].list])
        nw == (CHOOSE p \in WordsFor(k, Len(sd)) : TRUE)[2] IN
    CASE Kinds[k].check = "bip39" ->
            LET c == ChkBase(k, Len(sd), nw) IN Digits(Num(sd, ByteBase) * c + BipSum(sd, c), b, nw)
      [] Kinds[k].check = "xmr" ->
            LET o == FlattenSeq([i \in 1 .. Len(sd) \div ChunkLen |->
                        num2base_monero(Num(Reverse(Chunks(sd, ChunkLen)[i]), ByteBase), b)])
            IN Append(o, monero_mn_checksum(o))
      [] OTHER -> Padded(Num(sd, ByteBase), b, nw)

Got(sd) == [ok |-> TRUE, seed |-> sd]
Bad == [ok |-> FALSE, seed |-> NoSeed]

tobytes(k, words) ==
    LET b == Len(Wordlists[Kinds[k].list])
        lens == LenFor(k, Len(words))
        n == Num(words, b) IN
    IF lens = {} \/ (\E i \in 1 .. Len(words) : words[i] \notin 0 .. b - 1) THEN Bad
    ELSE LET len == (CHOOSE p \in lens : TRUE)[1] IN
    CASE Kinds[k].check = "bip39" ->
            LET c == ChkBase(k, len, Len(words))
                sd == Digits(n \div c, ByteBase, len)
            IN IF n % c = BipSum(sd, c) THEN Got(sd) ELSE Bad
      [] Kinds[k].check = "xmr" ->
            LET data == Front(words)
                x == [i \in 1 .. Len(data) \div 3 |->
                        LET w == Chunks(data, 3)[i] IN
                        w[1] + b * ((w[2] - w[1]) % b) + b * b * ((w[3] - w[2]) % b)]
            IN IF monero_mn_checksum(data) = Last(words) /\ \A i \in DOMAIN x : x[i] < ByteBase^ChunkLen
               THEN Got(FlattenSeq([i \in DOMAIN x |-> Reverse(Digits(x[i], ByteBase, ChunkLen))]))
               ELSE Bad
      [] OTHER -> Got(Padded(n, ByteBase, len))

(* The data a wallet of the kind holds: the check digits, then the phrase. *)
_format(k, sd) == LET p == frombytes(k, sd) IN IF Kinds[k].check = "sum6" THEN <<Sum6(k, p)>> \o p ELSE p

(* Numbers too large are refused; of die rolls the high bits are discarded. *)
_deformat(k, data) ==
    LET p == IF Kinds[k].check = "sum6" THEN Tail(data) ELSE data
        r == tobytes(k, p)
        len == (CHOOSE q \in LenFor(k, Len(p)) : TRUE)[1] IN
    IF (Kinds[k].check = "sum6" /\ data[1] # Sum6(k, p)) \/ ~r.ok THEN Bad
    ELSE IF Len(r.seed) = len THEN r
    ELSE IF Kinds[k].over = "truncate" THEN Got(SubSeq(r.seed, Len(r.seed) - len + 1, Len(r.seed)))
    ELSE Bad

-------------------------------------------------------------------------------
(* A length is chosen, or has been with --seed-len; then an entry mode, or *)
(* it has been in the configuration file.                                  *)
MnLen == (CHOOSE p \in Words : p[1] = last.len)[2]
NoLast == [len |-> 0, mode |-> "", typed |-> <<>>, idx |-> -1]

ChooseLen == pc = "len" /\
    \E n \in {p[1] : p \in Words} :
        /\ job.usrlen \in {0, n}
        /\ last' = [last EXCEPT !.len = n]
        /\ pc' = IF Kind.modes = {} THEN "roll" ELSE "mode"
        /\ UNCHANGED <<job, mode, s, pad, range, phrase, seed, told>>

(* A length the kind has no phrase of: KeyError, or an assertion.          *)
NoSuchLen == pc = "len" /\ job.usrlen \notin {0} \union {p[1] : p \in Words}
    /\ pc' = "died" /\ UNCHANGED <<job, mode, s, pad, range, phrase, last, seed, told>>

choose_entry_mode == pc = "mode" /\
    /\ mode' \in IF job.mode # "" THEN {job.mode} ELSE Kind.modes
    /\ range' = Whole
    /\ pc' = IF job.mode \in Kind.modes \union {""} THEN "word" ELSE "died"
    /\ UNCHANGED <<job, s, pad, phrase, last, seed, told>>

(* A word is taken, or not found and asked for again.                      *)
Enter(word, r) ==
    /\ last' = [last EXCEPT !.mode = IF r.res = "void" THEN "" ELSE mode, !.typed = word, !.idx = IF r.res = "word" THEN r.idx ELSE -1]
    /\ phrase' = IF r.res = "word" THEN Append(phrase, r.idx) ELSE phrase
    /\ pc' = IF Len(phrase') = MnLen THEN "given" ELSE "word"
    /\ s' = <<>> /\ pad' = 0 /\ range' = Whole
    /\ UNCHANGED <<job, mode, seed, told>>

Keep == UNCHANGED <<job, pc, mode, phrase, last, seed, told>>

(* Slips: the bounds outlive an erasure; leading zeros are dropped.        *)
KeepsRange == pc = "word" /\ s # <<>>
    /\ s' = Front(s) /\ UNCHANGED <<pad, range>> /\ Keep

Erase == pc = "word" /\ s # <<>>
    /\ s' = Front(s) /\ range' = Whole /\ UNCHANGED pad /\ Keep

(* The word is complete when the letters (and, in fixed mode, the dead     *)
(* characters) come to the length that tells all words apart; in minimal   *)
(* mode, when one word is left.                                            *)
Letter(c) == pc = "word" /\ Len(s) < MaxTyped /\
    LET w == Append(s, c)
        full == (mode = "short" /\ Len(w) = ss_len) \/ (mode = "fixed" /\ Len(w) + pad = ss_len)
        r == IF mode = "minimal" THEN idx(w, "minimal", range[1], range[2])
             ELSE IF full THEN LookUp(w, range) ELSE Found("more", 0, 0, 0) IN
    IF r.res # "more" THEN Enter(w, r)
    ELSE s' = w /\ range' = (IF mode = "minimal" THEN <<r.lo, r.hi>> ELSE range) /\ UNCHANGED pad /\ Keep

Return == pc = "word" /\ s # <<>> /\ Enter(s, LookUp(s, range))

(* Any other key, an erasure of nothing among them.                        *)
Dead == pc = "word" /\
    LET n == pad + 1 IN
    CASE mode = "fixed" /\ n > len_diff -> Enter(s, Found("void", 0, 0, 0))
      [] (mode = "fixed" /\ Len(s) + n = ss_len) \/ (mode = "full" /\ n + Len(s) > ss_len)
         \/ (mode \in {"short", "minimal"} /\ n > PadMax) -> Enter(s, LookUp(s, range))
      [] OTHER -> pad' = n /\ UNCHANGED <<s, range>> /\ Keep

(* A die roll; anything but a digit of the kind is asked for again.        *)
get_digit == pc = "roll" /\
    \E d \in 0 .. Base - 1 :
        /\ phrase' = Append(phrase, d)
        /\ pc' = IF Len(phrase') = MnLen THEN "given" ELSE "roll"
        /\ UNCHANGED <<job, mode, s, pad, range, last, seed, told>>

(* The phrase is read; a seed of another length than --seed-len is refused. *)
(* Entropy may be added to what was rolled.                                *)
Read == pc = "given" /\
    LET r == _deformat(job.kind, phrase) IN
    /\ pc' = IF r.ok /\ job.usrlen \in {0, Len(r.seed)} THEN "done" ELSE "died"
    /\ \E more \in IF Kind.over = "truncate" /\ job.from = "keys" THEN BOOLEAN ELSE {FALSE} :
        seed' = IF pc' = "died" THEN NoSeed ELSE IF more THEN Mix(r.seed) ELSE r.seed
    /\ UNCHANGED <<job, mode, s, pad, range, phrase, last, told>>

(* From the keyboard, or from a file that a wallet was written to, perhaps *)
(* with one word misspelled.                                               *)
Init ==
    /\ job \in Jobs /\ mode = "" /\ s = <<>> /\ pad = 0 /\ range = <<0, 0>> /\ last = NoLast /\ seed = NoSeed
    /\ \/ job.from = "keys" /\ pc = "len" /\ phrase = <<>> /\ told = NoSeed
       \/ /\ job.from = "file" /\ pc = "given"
          /\ \E sd \in {x \in SeedSet : WordsFor(job.kind, Len(x)) # {}} :
                \/ phrase = _format(job.kind, sd) /\ told = sd
                \/ /\ told = NoSeed
                   /\ \E i \in 1 .. Len(_format(job.kind, sd)), w \in 0 .. Base :
                        phrase = [_format(job.kind, sd) EXCEPT ![i] = w]

Next ==
    \/ ChooseLen \/ NoSuchLen \/ choose_entry_mode
    \/ Erase \/ (\E c \in {w[1] : w \in ToSet(wl)} : Letter(c)) \/ Return \/ Dead
    \/ get_digit \/ Read

-------------------------------------------------------------------------------
(* The words that what was typed stands for in a mode, found by looking at *)
(* all of them.                                                            *)
Meant(word, by) ==
    {i \in 0 .. Base - 1 :
        CASE by = "full" -> At(i) = Cut(word, longest_word)
          [] by \in {"short", "fixed"} ->
                /\ IsPrefix(Cut(word, uniq_ss_len), At(i))
                /\ Len(word) >= uniq_ss_len \/ At(i) = word
          [] by = "minimal" ->
                \/ At(i) = word
                \/ IsPrefix(word, At(i)) /\ \A j \in 0 .. Base - 1 : j # i => ~IsPrefix(word, At(j))}

(* The search by halves, within bounds narrowed key by key and through     *)
(* erasures and dead characters, takes the one word that what was typed    *)
(* stands for, and refuses what stands for none.  (But for fixed mode,     *)
(* where too many dead characters refuse any word.)                        *)
EntryRight ==
    last.mode # "" =>
        IF last.idx # -1 THEN Meant(last.typed, last.mode) = {last.idx}
        ELSE Meant(last.typed, last.mode) = {}

(* What is written for a seed is read as that seed, and what is read is    *)
(* what would be written: no two phrases have one seed (but for die rolls, *)
(* whose high bits are dropped).                                           *)
SeedRight ==
    /\ told # NoSeed /\ pc = "done" => seed = told
    /\ told # NoSeed /\ pc = "died" => job.usrlen \notin {0, Len(told)}
    /\ pc = "done" /\ Kind.over # "truncate" => _format(job.kind, seed) = phrase

MnemonicsRight == EntryRight /\ SeedRight
=============================================================================
