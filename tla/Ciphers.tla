------------------------------- MODULE Ciphers -------------------------------
(* Encryption with a password, and what it needs: random data that the     *)
(* user's own improve, hash functions written in Python, and keystores of  *)
(* other wallets; the file of random data that threads make, and the       *)
(* search of a file for a hidden wallet (crypto.py, sha2.py, keccak.py,    *)
(* ripemd160.py, altcoin/util.py, tool/fileutil.py).  What is encrypted is *)
(* a record of the key, the counter and the text, a hash is what it is of. *)
EXTENDS Integers, Sequences, FiniteSets, SequencesExt

(* Jobs: what is done; OsRandom: what the operating system may give;       *)
(* Passwords, Presets: what may be typed; MaxTries: times a password is.   *)
CONSTANTS Jobs, OsRandom, Passwords, Presets, MaxTries

VARIABLES job,      \* what is done
          pc,       \* how far it is
          drawn,    \* random values drawn so far
          file,     \* the encrypted file, or the blocks of the random one
          got,      \* what was decrypted, hashed, or found
          q1, left1, workers,     \* blocks to be encrypted, those not done, and the threads for it
          q2, left2, writer,      \* blocks to be written, those not done, and the thread for it
          buffer, blocks          \* bytes kept for the next block, and the blocks so far (or their number)

threadVars == <<q1, left1, workers, q2, left2, writer>>
streamVars == <<buffer, blocks>>
vars == <<job, pc, drawn, file, got, threadVars, streamVars>>

-------------------------------------------------------------------------------
(* A cipher in counter mode: what was encrypted with the same key and      *)
(* counter is decrypted, anything else is encrypted once more.             *)
Clear(x) == [key |-> <<>>, iv |-> 0, text |-> x]
Crypt(k, iv, c) == IF c.key = k /\ c.iv = iv THEN Clear(c.text) ELSE [key |-> k, iv |-> iv, text |-> c.text]

(* Random bytes, encrypted with a key of the user's own if there is one.   *)
DflIv == 1
EphemeralReused(os, n) == <<os>>      \* a mutant of the next
Ephemeral(os, n) == <<os, n>>
get_random(os, os8) ==
    LET k == Ephemeral(os8, Len(drawn) + 1)
    IN [value |-> os, key |-> IF job.entropy THEN k ELSE <<>>, iv |-> IF job.entropy THEN DflIv ELSE 0]

draw ==
    /\ job.kind = "encrypt" /\ pc = "start" /\ Len(drawn) < 3
    /\ \E os, os8 \in OsRandom : drawn' = Append(drawn, get_random(os, os8))
    /\ UNCHANGED <<job, pc, file, got, threadVars, streamVars>>

make_key(pw, salt, hp) == <<pw, salt, hp>>
Sha256(nonce, data) == <<nonce, data>>
Body(nonce, data) == [digest |-> Sha256(nonce, data), nonce |-> nonce, data |-> data]

mmgen_encrypt ==
    /\ job.kind = "encrypt" /\ pc = "start" /\ Len(drawn) = 3 /\ pc' = "written"
    /\ file' = [salt |-> drawn[1], iv |-> drawn[2],
                enc |-> [key |-> make_key(job.passwd, drawn[1], job.preset), iv |-> drawn[2], text |-> Body(drawn[3], job.data)]]
    /\ UNCHANGED <<job, drawn, got, threadVars, streamVars>>

(* A byte of the file is another one, or its end is missing.               *)
Other == [value |-> 0, key |-> <<>>, iv |-> 0]
damage ==
    /\ job.kind = "encrypt" /\ pc = "written" /\ job.damage # "none" /\ pc' = "damaged"
    /\ file' = CASE job.damage = "salt" -> [file EXCEPT !.salt = Other]
                 [] job.damage = "iv" -> [file EXCEPT !.iv = Other]
                 [] job.damage = "digest" -> [file EXCEPT !.enc.text.digest = <<Other, job.data>>]
                 [] job.damage = "nonce" -> [file EXCEPT !.enc.text.nonce = Other]
                 [] job.damage = "data" -> [file EXCEPT !.enc.text.data = <<8>>]
                 [] job.damage = "cut" -> [file EXCEPT !.enc.text.data = <<>>]
    /\ UNCHANGED <<job, drawn, got, threadVars, streamVars>>

(* Only a file of another key does not show a text; here no body does.     *)
mmgen_decrypt(pw, hp) ==
    LET dec == Crypt(make_key(pw, file.salt, hp), file.iv, file.enc)
    IN IF dec.key = <<>> /\ dec.text.digest = Sha256(dec.text.nonce, dec.text.data) THEN [ok |-> TRUE, data |-> dec.text.data]
       ELSE [ok |-> FALSE, data |-> <<>>]

(* Asked again until there is data: until ever if it has none.             *)
mmgen_decrypt_retry ==
    /\ job.kind = "encrypt" /\ pc \in {"written", "damaged", "again"} /\ (job.damage = "none" \/ pc # "written")
    /\ got.tries < MaxTries
    /\ \E pw \in Passwords, hp \in Presets : \E r \in {mmgen_decrypt(pw, hp)} :
         /\ pc' = IF r.ok /\ r.data # <<>> THEN "opened" ELSE "again"
         /\ got' = [data |-> r.data, pw |-> pw, hp |-> hp, tries |-> got.tries + 1]
    /\ UNCHANGED <<job, drawn, file, threadVars, streamVars>>

-------------------------------------------------------------------------------
(* A keystore: a key derived of the password, whose second half with the   *)
(* encrypted secret makes a code by which a wrong password is known.       *)
ValidKdfs == {"scrypt", "pbkdf2"}
ValidCiphers == {"aes-128-ctr", "aes-256-ctr"}
KdfKey(pw) == <<pw, job.kdf>>
Mac(algo, k, enc) == <<algo, k, enc.text, enc.key>>
MacAlgo == IF job.geth THEN "keccak" ELSE "blake2b"

AddrOk(dec) == job.geth => dec = Clear(job.addr)

decrypt_keystore ==
    /\ job.kind = "keystore" /\ pc = "start"
    /\ \E pw \in Passwords : \E dec \in {Crypt(KdfKey(pw), 1, job.enc)} :
         LET known == job.kdf \in ValidKdfs /\ job.cipher \in ValidCiphers
             kdf_ok == IF job.kdf = "scrypt" THEN job.geth ELSE job.prf = "hmac-sha256"
             mac_ok == Mac(MacAlgo, KdfKey(pw), job.enc) = job.mac
         IN /\ pc' = IF known /\ kdf_ok /\ mac_ok /\ AddrOk(dec) THEN "opened" ELSE "refused"
            /\ got' = [text |-> dec.text, clear |-> dec.key = <<>>, pw |-> pw]
    /\ UNCHANGED <<job, drawn, file, threadVars, streamVars>>

-------------------------------------------------------------------------------
(* Hash functions take blocks of BlkSize bytes.  SHA-2 and RIPEMD-160 pad  *)
(* with a mark, zeroes and the length of the message, Keccak with a first  *)
(* and a last byte, which may be one and the same.                         *)
BlkSize == 4
LenSize == 1
Zeroes(n) == [i \in 1 .. n |-> 0]
Mark == 80
Blocks(s) == [i \in 1 .. Len(s) \div BlkSize |-> SubSeq(s, (BlkSize * (i - 1)) + 1, BlkSize * i)]

padlen(n) == LET p == BlkSize - (n % BlkSize) - LenSize - 1 IN IF p < 0 THEN p + BlkSize ELSE p
padMessage(s) == s \o <<Mark>> \o Zeroes(padlen(Len(s))) \o <<Len(s)>>

ripemd160(s) ==
    LET full == Len(s) \div BlkSize
        fin == SubSeq(s, (full * BlkSize) + 1, Len(s)) \o <<Mark>> \o Zeroes((2 * BlkSize - LenSize - 1 - Len(s)) % BlkSize) \o <<Len(s)>>
    IN Blocks(SubSeq(s, 1, full * BlkSize)) \o Blocks(fin)

multirate_padding(used) ==
    LET n == BlkSize - used IN IF n = 1 THEN <<81>> ELSE <<1>> \o Zeroes(n - 2) \o <<80>>

(* A message comes in pieces; its digest does not end it.                  *)
Absorbed(s) == Len(s) \div BlkSize
update ==
    /\ job.kind = "hash" /\ pc = "start" /\ got.fed < Len(job.pieces) /\ got' = [got EXCEPT !.fed = @ + 1]
    /\ \E all \in {buffer \o job.pieces[got.fed + 1]} :
         /\ blocks' = blocks \o Blocks(all)
         /\ buffer' = SubSeq(all, (Absorbed(all) * BlkSize) + 1, Len(all))
    /\ UNCHANGED <<job, pc, drawn, file, threadVars>>

digest ==
    /\ job.kind = "hash" /\ pc = "start" /\ got.digest = <<>>
    /\ got' = [got EXCEPT !.digest = blocks \o <<buffer \o multirate_padding(Len(buffer))>>, !.of = got.fed]
    /\ UNCHANGED <<job, pc, drawn, file, threadVars, streamVars>>

again == /\ job.kind = "hash" /\ got.digest # <<>> /\ got' = [got EXCEPT !.digest = <<>>]
         /\ UNCHANGED <<job, pc, drawn, file, threadVars, streamVars>>

-------------------------------------------------------------------------------
(* A file of random data: blocks put on a queue by the program, encrypted  *)
(* by some threads, and written by one.                                    *)
RandBlk == 2
ThreadOp == job.kind = "rand" /\ UNCHANGED <<job, drawn, got, buffer>>
RandOp == ThreadOp /\ UNCHANGED blocks
Idle == 0
BlockSizes == [i \in 1 .. job.nbytes \div RandBlk |-> RandBlk] \o IF job.nbytes % RandBlk = 0 THEN <<>> ELSE <<job.nbytes % RandBlk>>

put ==
    /\ ThreadOp /\ pc = "start" /\ UNCHANGED <<file, workers, q2, left2, writer>>
    /\ IF blocks < Len(BlockSizes) THEN q1' = Append(q1, BlockSizes[blocks + 1]) /\ left1' = left1 + 1 /\ blocks' = blocks + 1 /\ pc' = pc
       ELSE pc' = "join1" /\ UNCHANGED <<q1, left1, blocks>>

(* A block is got, encrypted and passed on, and only then done with.       *)
encrypt_get(w) ==
    /\ RandOp /\ workers[w].blk = Idle /\ q1 # <<>> /\ UNCHANGED <<pc, file, left1, q2, left2, writer>>
    /\ workers' = [workers EXCEPT ![w] = [blk |-> Head(q1), passed |-> FALSE]] /\ q1' = Tail(q1)

encrypt_put(w) ==
    /\ RandOp /\ workers[w].blk # Idle /\ ~workers[w].passed /\ UNCHANGED <<pc, file, q1, left1, writer>>
    /\ q2' = Append(q2, workers[w].blk) /\ left2' = left2 + 1 /\ workers' = [workers EXCEPT ![w].passed = TRUE]

MayFinishEarly(w) == workers[w].blk # Idle      \* a mutant of the next
MayFinish(w) == workers[w].blk # Idle /\ workers[w].passed
encrypt_done(w) ==
    /\ RandOp /\ MayFinish(w) /\ UNCHANGED <<pc, file, q1, q2, left2, writer>>
    /\ left1' = left1 - 1 /\ workers' = [workers EXCEPT ![w] = [blk |-> Idle, passed |-> FALSE]]

write_get ==
    /\ RandOp /\ writer = Idle /\ q2 # <<>> /\ writer' = Head(q2) /\ q2' = Tail(q2)
    /\ UNCHANGED <<pc, file, q1, left1, workers, left2>>

(* A write that fails ends the thread, and nobody is told.                 *)
Dead == -1
FileSize(blks) == LET s[i \in 0 .. Len(blks)] == IF i = 0 THEN 0 ELSE s[i - 1] + blks[i] IN s[Len(blks)]
write_done ==
    /\ RandOp /\ writer > 0 /\ UNCHANGED <<pc, q1, left1, workers, q2>>
    /\ IF FileSize(file) + writer > job.room THEN writer' = Dead /\ UNCHANGED <<file, left2>>
       ELSE file' = Append(file, writer) /\ left2' = left2 - 1 /\ writer' = Idle

join1 == RandOp /\ pc = "join1" /\ left1 = 0 /\ pc' = "join2" /\ UNCHANGED <<file, threadVars>>
join2 == RandOp /\ pc = "join2" /\ left2 = 0 /\ pc' = "closed" /\ UNCHANGED <<file, threadVars>>
check_size ==
    /\ RandOp /\ pc = "closed" /\ UNCHANGED <<file, threadVars>>
    /\ pc' = IF FileSize(file) = job.nbytes THEN "ok" ELSE "wrong size"

-------------------------------------------------------------------------------
(* A file is searched block by block, the end of each being kept for data  *)
(* that begins in it.                                                      *)
IvSize == 2
ReadSize == 3
FirstCarry == <<9, 9>>
Slice(d, i, n) == SubSeq(d, i, IF i + n - 1 <= Len(d) THEN i + n - 1 ELSE Len(d))
Window(d, i) == Slice(d, i, IvSize)

find_incog_data ==
    /\ job.kind = "find" /\ pc = "start" /\ UNCHANGED <<job, drawn, file, threadVars>>
    /\ IF blocks >= Len(job.content) THEN pc' = "end" /\ UNCHANGED <<got, streamVars>>
       ELSE \E d \in {buffer \o Slice(job.content, blocks + 1, ReadSize)} :
              LET hits == {i \in 1 .. ReadSize : Window(d, i) = job.iv /\ blocks + i - 1 >= IvSize}
                  At(i) == blocks + i - 1 - IvSize
              IN /\ got' = IF job.keep_searching \/ hits = {} THEN got \union {At(i) : i \in hits}
                           ELSE {At(CHOOSE i \in hits : \A k \in hits : i <= k)}
                 /\ pc' = IF job.keep_searching \/ hits = {} THEN "start" ELSE "end"
                 /\ buffer' = SubSeq(d, Len(d) - IvSize + 1, Len(d)) /\ blocks' = blocks + ReadSize

-------------------------------------------------------------------------------
Init ==
    /\ job \in Jobs /\ drawn = <<>> /\ q1 = <<>> /\ left1 = 0 /\ q2 = <<>> /\ left2 = 0 /\ writer = Idle
    /\ file = <<>> /\ pc = "start"
    /\ workers = [w \in 1 .. (IF job.kind = "rand" THEN job.threads ELSE 1) |-> [blk |-> Idle, passed |-> FALSE]]
    /\ got = CASE job.kind = "encrypt" -> [data |-> <<>>, pw |-> "", hp |-> 0, tries |-> 0]
               [] job.kind = "hash" -> [fed |-> 0, of |-> 0, digest |-> <<>>]
               [] job.kind = "find" -> {}
               [] OTHER -> <<>>
    /\ buffer = (IF job.kind = "find" THEN FirstCarry ELSE <<>>) /\ blocks = IF job.kind \in {"rand", "find"} THEN 0 ELSE <<>>

Next ==
    \/ draw \/ mmgen_encrypt \/ damage \/ mmgen_decrypt_retry \/ decrypt_keystore \/ update \/ digest \/ again
    \/ put \/ write_get \/ write_done \/ join1 \/ join2 \/ check_size \/ find_incog_data
    \/ \E w \in DOMAIN workers : encrypt_get(w) \/ encrypt_put(w) \/ encrypt_done(w)

-------------------------------------------------------------------------------
(* A file opens to what was encrypted, with its password and preset and    *)
(* when it is as it was written, and to nothing otherwise.                 *)
Opens ==
    job.kind = "encrypt" =>
        /\ pc = "opened" => got.data = job.data /\ got.pw = job.passwd /\ got.hp = job.preset /\ job.damage = "none"
        /\ pc = "again" /\ job.damage = "none" /\ got.pw = job.passwd /\ got.hp = job.preset => job.data = <<>>

(* No two random values are made with one key of the user's, even if the   *)
(* operating system repeats itself.                                        *)
KeysOnce ==
    job.kind = "encrypt" /\ job.entropy => \A i, k \in 1 .. Len(drawn) : i # k => drawn[i].key # drawn[k].key

(* A keystore opens to the secret in it, with its password only, even if   *)
(* its code is of another one when there is an address to compare.         *)
KeystoreOpens ==
    job.kind = "keystore" /\ pc = "opened" /\ (job.geth \/ job.mac[2] = KdfKey(job.passwd)) => got.clear /\ got.pw = job.passwd

(* A digest is of all that was fed, and no other message has it.           *)
Fed(n) == FlattenSeq(SubSeq(job.pieces, 1, n))
Unpadded(s) ==
    LET ends == {i \in 1 .. Len(s) : s[i] # 0 /\ \A k \in i + 1 .. Len(s) - 1 : s[k] = 0}
    IN IF s[Len(s)] = 81 THEN SubSeq(s, 1, Len(s) - 1)
       ELSE SubSeq(s, 1, (CHOOSE i \in ends \ {Len(s)} : TRUE) - 1)
Shortest(n) == CHOOSE p \in 0 .. BlkSize - 1 : (n + 1 + p + LenSize) % BlkSize = 0
HashesOfAll ==
    job.kind = "hash" =>
        /\ got.digest # <<>> => Unpadded(FlattenSeq(got.digest)) = Fed(got.of) /\ \A i \in 1 .. Len(got.digest) : Len(got.digest[i]) = BlkSize
        /\ \A s \in {Fed(got.fed)} :
             ripemd160(s) = Blocks(padMessage(s)) /\ Len(padMessage(s)) % BlkSize = 0 /\ padlen(Len(s)) = Shortest(Len(s))

(* The file of random data has all of its blocks when it is closed, and    *)
(* the program waits for ever only after a write has failed.               *)
WholeFile ==
    job.kind = "rand" =>
        /\ pc \in {"closed", "ok", "wrong size"} => FileSize(file) = job.nbytes /\ q1 = <<>> /\ q2 = <<>> /\ writer = Idle
        /\ pc \in {"join1", "join2"} /\ q1 = <<>> /\ q2 = <<>> /\ writer = Idle /\ (\A w \in DOMAIN workers : workers[w].blk = Idle)
               => left1 = 0 /\ left2 = 0

(* What is in the file is found where it is, except at its very end.       *)
Places(last) == {p \in 0 .. last : Window(job.content, p + 1) = job.iv}
FindsAll ==
    job.kind = "find" /\ pc = "end" =>
        LET size == Len(job.content) IN
        /\ got \subseteq Places(size - IvSize)
        /\ IF job.keep_searching THEN Places(size - IvSize - 1) \subseteq got
           ELSE Places(size - IvSize - 1) # {} => \A p \in Places(size - IvSize - 1) : \E g \in got : g <= p

CiphersRight == Opens /\ KeysOnce /\ KeystoreOpens /\ HashesOfAll /\ WholeFile /\ FindsAll
===============================================================================
