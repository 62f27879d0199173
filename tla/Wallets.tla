-------------------------------- MODULE Wallets --------------------------------
(* Wallet files: opened by format, checksum and passphrase, and written by *)
(* walletgen, walletconv and passchg, any of which may be killed between   *)
(* two steps.  A key is <<passphrase, salt, hash preset>>; the wrapper key *)
(* of an incognito wallet, whose salt is its IV, is one too.               *)
EXTENDS Integers, FiniteSets

CONSTANTS
    Passwords, Presets, Salts, Labels,
    KeyId(_),       \* make_chksum_8() of a key: two keys may have one
    Worlds,         \* <<directory, wallet, offset>> to start from
    Offsets,        \* of hidden wallets
    Jobs,           \* commands, with their options
    BoxSize,        \* bytes of the container of hidden wallets
    MaxCommands     \* bound on commands

VARIABLES disk, box, pc, job, in, old, out, agreed, done

vars == <<disk, box, pc, job, in, old, out, agreed, done>>

Hashed == {"mmgen", "incog", "incog_hidden", "brain"}
Passworded == Hashed \ {"brain"}
Incog == {"incog", "incog_hidden"}
StdinOk == {"words", "bip39", "dieroll", "mmhex", "plainhex", "seed", "brain"}

(* Formats with a checksum too long to pass by chance.                     *)
Checked == {"mmgen", "incog", "incog_hidden", "mmhex", "seed"}

Wallet(t, seed, len) ==
    [type |-> t, seed |-> seed, len |-> len, whole |-> TRUE, typo |-> FALSE, old |-> FALSE,
     pw |-> "", hp |-> 0, salt |-> 0, label |-> ""]

NoWallet == Wallet("none", "none", 0)

(* What is read where nothing was hidden.                                  *)
Random == Wallet("incog_hidden", "none", 0)

(* What there is to choose from, in a wallet and in a command's options.   *)
Formats == Hashed \union StdinOk \union {"none"}
Given(S) == S \union {""}

WalletSet ==
    [type : Formats, seed : {"s", "new", "other", "none"}, len : Nat, whole : BOOLEAN, typo : BOOLEAN, old : BOOLEAN,
     pw : Given(Passwords), hp : Nat, salt : Nat, label : Given(Labels)]

Job ==
    [cmd : {"passchg", "conv", "gen", "chk"}, src : {"default", "file", "typed", "box", "none"}, type : Formats,
     infmt : Given(Formats), out : Formats, seedlen : Nat, oldfmt : BOOLEAN, off : Offsets, outoff : Offsets,
     pwfile : Given(Passwords), newonly : BOOLEAN, keep : BOOLEAN, hp : Nat, label : Given(Labels), force : BOOLEAN,
     dir : {"data", "work"}]

WalletsAssumption ==
    /\ BoxSize \in Nat /\ Offsets \in SUBSET Nat /\ Presets \in SUBSET Nat /\ Salts \in SUBSET Nat
    /\ Jobs \in SUBSET Job
    /\ \A w \in Worlds :
        /\ w[1] \in {"data", "work", "box"} /\ w[2] \in WalletSet
        /\ w[2].seed = "s" /\ w[2].whole
        /\ w[1] = "box" <=> w[2].type = "incog_hidden"
        /\ w[1] = "box" => w[3] \in Offsets

Key(w) == <<w.pw, w.salt, w.hp>>

Filename(w) ==
    [ext |-> w.type, sid |-> w.seed, len |-> w.len, hp |-> w.hp, div |-> FALSE,
     id |-> IF w.type \in Passworded THEN KeyId(Key(w)) ELSE 0,
     iv |-> IF w.type = "incog" THEN w.salt ELSE 0]

Path(dir, w) == <<dir, Filename(w)>>
NoPath == Path("none", NoWallet)

Divert(n) == <<n[1], [n[2] EXCEPT !.div = TRUE]>>

Put(n, w) == [m \in DOMAIN disk \union {n} |-> IF m = n THEN w ELSE disk[m]]
Drop(S) == [n \in DOMAIN disk \ S |-> disk[n]]
Moved(a, b) == [m \in (DOMAIN disk \ {a}) \union {b} |-> IF m = b THEN disk[a] ELSE disk[m]]

-------------------------------------------------------------------------------
(* Reading: Wallet.__init__() for op old and pwchg_old.                    *)
DataLen(len, oldfmt) == 32 + (IF oldfmt THEN 0 ELSE 8) + len \div 8

SeedLen == IF job.seedlen = 0 THEN 256 ELSE job.seedlen

Defaults == {n \in DOMAIN disk : n[1] = "data" /\ n[2].ext = "mmgen" /\ ~ n[2].div}

(* What a format's _deformat() refuses whatever the passphrase.            *)
Deformats(w) ==
    /\ w.whole
    /\ w.typo => w.type \notin {"mmgen", "mmhex", "seed"}
    /\ w.type = "incog" => DataLen(w.len, w.old) = DataLen(SeedLen, job.oldfmt)
    /\ w.type \notin Incog \union {"brain"} => job.seedlen \in {0, w.len}

Sources ==
    CASE job.src = "default" -> Defaults
      [] job.src = "file" -> {n \in DOMAIN disk : n[1] = "work" /\ ~ n[2].div}
      [] OTHER -> {}

(* What passes for a seed where a typo cannot be noticed.                  *)
Read(w) == IF w.typo /\ w.type \notin Incog THEN [w EXCEPT !.seed = "other"] ELSE w

End == pc' = "idle" /\ in' = NoWallet /\ old' = NoPath /\ out' = NoWallet

Opening(w, n) ==
    \/ /\ Deformats(w)
       /\ in' = Read(w) /\ old' = n /\ out' = NoWallet
       /\ pc' = IF w.type \in Hashed THEN "decrypt" ELSE "opened"
    \/ /\ ~ Deformats(w) \/ w.typo
       /\ End

InBox(o) == box.there /\ BoxSize >= o + DataLen(SeedLen, job.oldfmt)

Start(j) ==
    /\ pc = "idle" /\ done < MaxCommands
    /\ done' = done + 1 /\ job' = j /\ pc' = "start"
    /\ UNCHANGED <<disk, box, in, old, out, agreed>>

(* Two default wallets stop every command.  A new wallet becomes the       *)
(* default one if there is none and the user agrees.                       *)
Nowhere(dir) == <<dir, Filename(NoWallet)>>

Get ==
    /\ pc = "start"
    /\ IF Cardinality(Defaults) > 1 THEN End
       ELSE IF job.cmd = "gen" THEN
            /\ pc' = "opened" /\ in' = Wallet("none", "new", SeedLen) /\ out' = NoWallet
            /\ old' = Nowhere(IF Defaults = {} THEN job.dir ELSE "work")
       ELSE IF job.src = "typed" THEN
            IF job.type \in StdinOk THEN Opening(Wallet(job.type, "s", 256), NoPath) ELSE End
       ELSE IF job.src = "box" THEN
            IF InBox(job.off) THEN Opening(box.at[job.off], Nowhere("box")) ELSE End
       ELSE IF Sources = {} THEN End
       ELSE \E n \in Sources : IF job.infmt \in {"", disk[n].type} THEN Opening(disk[n], n) ELSE End
    /\ UNCHANGED <<disk, box, job, agreed, done>>

(* What was hidden is at this offset, with the passphrase and preset given *)
(* and as much of it as was read.                                          *)
IncogOpens(w, pw, hp) ==
    /\ w # Random /\ ~ w.typo
    /\ w.pw = pw /\ w.hp = hp
    /\ job.oldfmt = w.old
    /\ DataLen(w.len, w.old) = DataLen(SeedLen, job.oldfmt)

Decrypted(w, pw) == IF <<pw, w.salt, w.hp>> = Key(w) THEN w.seed ELSE "other"

(* The Key ID is compared first, then the Seed ID of what was decrypted.   *)
MmgenOpens(w, pw) ==
    /\ KeyId(<<pw, w.salt, w.hp>>) = KeyId(Key(w))
    /\ Decrypted(w, pw) = w.seed

Opens(w, pw, hp) ==
    \/ w.type = "mmgen" /\ MmgenOpens(w, pw)
    \/ w.type \in Incog /\ IncogOpens(w, pw, hp)
    \/ w.type = "brain"

PasswdFile == job.pwfile # "" /\ ~ job.newonly

Decrypt ==
    /\ pc = "decrypt"
    /\ \E pw \in (IF PasswdFile THEN {job.pwfile} ELSE Passwords),
          hp \in (IF job.hp # 0 THEN {job.hp} ELSE Presets) :
        IF Opens(in, pw, hp)
        THEN /\ pc' = "opened" /\ UNCHANGED <<old, out>>
             /\ \/ in.type = "mmgen" /\ in' = [in EXCEPT !.pw = pw, !.seed = Decrypted(in, pw)]
                \/ in.type = "brain" /\ in' = [in EXCEPT !.hp = hp, !.len = SeedLen,
                                             !.seed = IF in.hp = hp /\ in.len = SeedLen THEN in.seed ELSE "other"]
                \/ in.type \in Incog /\ in' = [in EXCEPT !.pw = pw, !.hp = hp]
        ELSE IF PasswdFile /\ in.type # "brain" THEN End
        ELSE UNCHANGED <<pc, in, old, out>>
    /\ UNCHANGED <<disk, box, job, agreed, done>>

-------------------------------------------------------------------------------
(* Writing: what is kept of the old wallet, what the options set, and what *)
(* the user is asked for.                                                  *)
NewPws == IF in.type \in Passworded /\ job.keep THEN {in.pw}
          ELSE IF job.pwfile # "" THEN {job.pwfile} ELSE Passwords

NewHps == IF in.type \in Hashed /\ job.keep THEN {in.hp}
          ELSE IF job.hp # 0 THEN {job.hp} ELSE Presets

NewLabels == IF in.type = "mmgen" /\ job.keep THEN {in.label}
             ELSE IF job.label # "" THEN {job.label} ELSE Labels

OutType == IF job.cmd = "passchg" THEN in.type ELSE job.out

Changed(w) ==
    \/ w.pw # in.pw
    \/ w.hp # in.hp
    \/ in.type = "mmgen" /\ w.label # in.label

Encrypt ==
    /\ pc = "opened"
    /\ IF job.cmd = "chk" \/ OutType = "brain" THEN End
       ELSE \E pw \in NewPws, hp \in NewHps, s \in Salts, l \in NewLabels :
                LET w0 == Wallet(OutType, in.seed, in.len)
                    w == IF OutType \in Passworded
                         THEN [w0 EXCEPT !.pw = pw, !.hp = hp, !.salt = s, !.label = IF OutType = "mmgen" THEN l ELSE ""]
                         ELSE w0 IN
                IF job.cmd = "passchg" /\ ~ (job.force \/ Changed(w)) THEN End
                ELSE out' = w /\ pc' = "rename" /\ UNCHANGED <<in, old>>
    /\ UNCHANGED <<disk, box, job, agreed, done>>

OutDir ==
    IF job.cmd \in {"passchg", "gen"} /\ old[1] = "data" THEN "data" ELSE "work"

(* Plausible bug: the old wallet is not moved out of the new one's way.    *)
NeverSame == FALSE

(* A new wallet of the same name would be written over the old one.        *)
SameName == old[2] = Filename(out)

Rename ==
    /\ pc = "rename"
    /\ IF job.cmd = "passchg" /\ SameName
       THEN /\ disk' = Moved(old, Divert(old))
            /\ old' = Divert(old)
       ELSE UNCHANGED <<disk, old>>
    /\ pc' = IF out.type = "incog_hidden" THEN "hide" ELSE "create"
    /\ UNCHANGED <<box, job, in, out, agreed, done>>

(* The file is emptied when it is opened and filled when it is closed.     *)
Create ==
    /\ pc = "create"
    /\ LET n == Path(OutDir, out) IN
       \/ /\ disk' = Put(n, [out EXCEPT !.whole = FALSE])
          /\ agreed' = IF n \in DOMAIN disk THEN agreed \union {"overwrite"} ELSE agreed
          /\ pc' = "write" /\ UNCHANGED <<in, old, out>>
       \/ /\ n \in DOMAIN disk
          /\ End /\ UNCHANGED <<disk, agreed>>
    /\ UNCHANGED <<box, job, done>>

After == IF job.cmd = "passchg" THEN pc' = "shred" /\ UNCHANGED <<in, old, out>> ELSE End

Write ==
    /\ pc = "write"
    /\ disk' = Put(Path(OutDir, out), out)
    /\ After
    /\ UNCHANGED <<box, job, agreed, done>>

(* Bytes hidden at an offset spoil what they overlap.                      *)
Spoils(o, n, p) ==
    LET w == box.at[p] IN box.there /\ w # Random /\ p < o + n /\ o < p + DataLen(w.len, w.old)

Offset == IF job.cmd = "passchg" THEN job.off ELSE job.outoff

Hide ==
    /\ pc = "hide"
    /\ LET n == DataLen(out.len, FALSE) IN
       IF BoxSize < Offset + n THEN End /\ UNCHANGED <<box, agreed>>
       ELSE LET lost == {p \in DOMAIN box.at : Spoils(Offset, n, p)} IN
            /\ box' = [there |-> TRUE,
                       at |-> [p \in DOMAIN box.at |-> IF p = Offset THEN out
                                                       ELSE IF ~ box.there \/ p \in lost THEN Random ELSE box.at[p]]]
            /\ agreed' = IF \A p \in lost : box.at[p].seed = out.seed THEN agreed ELSE agreed \union {"overwrite"}
            /\ After
    /\ UNCHANGED <<disk, job, done>>

(* The old default wallet is always shredded, another if the user agrees;  *)
(* for a hidden one, what is shredded is the file it is hidden in.         *)
Shred ==
    /\ pc = "shred"
    /\ \/ old[1] = "box" /\ box' = [box EXCEPT !.there = FALSE] /\ agreed' = agreed \union {"container"} /\ UNCHANGED disk
       \/ old[1] # "box" /\ disk' = Drop({old}) /\ UNCHANGED <<box, agreed>>
       \/ old[1] # "data" /\ UNCHANGED <<disk, box, agreed>>
    /\ pc' = IF old[1] = "data" THEN "changed" ELSE "idle"
    /\ UNCHANGED <<job, in, old, out, done>>

Finish == pc = "changed" /\ End /\ UNCHANGED <<disk, box, job, agreed, done>>

(* The command is killed, or interrupted at a question.                    *)
Crash == pc # "idle" /\ End /\ UNCHANGED <<disk, box, job, agreed, done>>

(* The user clears up what a killed command left.                          *)
Tidy ==
    /\ pc = "idle"
    /\ \/ \E n \in DOMAIN disk :
            /\ disk[n].whole => \E m \in Defaults \ {n} : n \in Defaults /\ disk[m].whole /\ disk[m].seed = disk[n].seed
            /\ disk' = Drop({n})
       \/ \E n \in DOMAIN disk :
            LET m == <<n[1], [n[2] EXCEPT !.div = FALSE]>> IN
            n[2].div /\ m \notin DOMAIN disk /\ disk' = Moved(n, m)
    /\ UNCHANGED <<box, pc, job, in, old, out, agreed, done>>

Init ==
    /\ \E w \in Worlds :
        /\ disk = [n \in IF w[1] = "box" THEN {} ELSE {Path(w[1], w[2])} |-> w[2]]
        /\ box = [there |-> w[1] = "box", at |-> [o \in Offsets |-> IF w[1] = "box" /\ o = w[3] THEN w[2] ELSE Random]]
        /\ agreed = IF w[2].typo THEN {"typo"} ELSE {}
    /\ job = CHOOSE j \in Jobs : TRUE
    /\ pc = "idle" /\ in = NoWallet /\ old = NoPath /\ out = NoWallet /\ done = 0

Next ==
    \/ \E j \in Jobs : Start(j)
    \/ Get \/ Decrypt
    \/ Encrypt \/ Rename \/ Create \/ Write \/ Hide \/ Shred \/ Finish
    \/ Crash \/ Tidy

Spec == Init /\ [][Next]_vars

-------------------------------------------------------------------------------
(* Unless the user agreed to write over it, the seed can be recovered from *)
(* some file at every moment, killed commands or not.                      *)
Holds(w) == w.seed = "s" /\ w.whole /\ ~ w.typo

StillThere ==
    agreed = {} =>
        \/ \E n \in DOMAIN disk : Holds(disk[n])
        \/ box.there /\ \E o \in DOMAIN box.at : Holds(box.at[o])

(* What was opened is the wallet that was written there, for every format  *)
(* with a checksum of some length.                                         *)
WrittenAt(w) == ~ w.typo /\ in.seed = w.seed /\ in.len = w.len

OpenedIsTrue ==
    pc = "opened" /\ in.type \in Checked =>
        /\ old[1] = "box" => WrittenAt(box.at[job.off])
        /\ old[1] = "none" => in.seed = "s"
        /\ old[1] \notin {"box", "none"} => WrittenAt(disk[old])

(* When passchg has changed the default wallet there is one, the new one,  *)
(* and the old one is gone under either name.                              *)
OldIsGone ==
    pc = "changed" => Defaults = {Path("data", out)} /\ disk[Path("data", out)] = out /\ old \notin DOMAIN disk

WalletsOpen == StillThere /\ OpenedIsTrue /\ OldIsGone
===============================================================================
