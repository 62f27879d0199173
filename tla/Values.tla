-------------------------------- MODULE Values --------------------------------
(* The values programs work with: amounts of coins and tokens, which are   *)
(* exact or refused, attributes that are set once, labels that line up on  *)
(* the screen, and MMGen IDs (amt.py, obj.py, objmethods.py, base_obj.py,  *)
(* addr.py).  A job is about one kind of value.                            *)
EXTENDS Integers, Sequences, FiniteSets, SequencesExt

(* Jobs: what is done; Fine: the number of decimals a number can have, of  *)
(* which n is n / 10^Fine; MaxSteps: the operations on a value.            *)
CONSTANTS Jobs, Fine, MaxSteps

VARIABLES job,      \* what is done
          pc,       \* "new", "made", or how it ended
          val,      \* the value: an amount, or the attributes of an object
          kept,     \* what it has to be
          decimals, \* the decimals of the class of amounts, which a token has its own of
          locked,   \* the object is locked
          steps     \* the operations so far

vars == <<job, pc, val, kept, decimals, locked, steps>>

Failed == pc' = "refused" /\ UNCHANGED <<val, kept>>

-------------------------------------------------------------------------------
(* Decimal arithmetic: to a number of significant digits, halves to even.  *)
Nearest(num, den) ==
    LET q == num \div den  r == num % den
    IN IF 2 * r > den \/ (2 * r = den /\ q % 2 = 1) THEN q + 1 ELSE q
Digits == job.digits
Unit == 10 ^ (Fine - decimals)

(* The fraction num / den in the precision of the context.                 *)
Context(num, den) ==
    IF num = 0 THEN [num |-> 0, den |-> 1]
    ELSE LET Fits(k) == num < 10 ^ (Digits + k) * den
         IN IF Fits(0)
            THEN LET k == CHOOSE p \in 0 .. Digits + 4 : (num * 10 ^ p < 10 ^ Digits * den /\ num * 10 ^ (p + 1) >= 10 ^ Digits * den)
                                                         \/ p = Digits + 4
                 IN [num |-> Nearest(num * 10 ^ k, den), den |-> 10 ^ k]
            ELSE LET k == CHOOSE p \in 1 .. Digits + 4 : Fits(p) /\ ~Fits(p - 1)
                 IN [num |-> Nearest(num, den * 10 ^ k) * 10 ^ k, den |-> 1]

Rounded(n) == LET r == Context(n, 1) IN r.num \div r.den

(* An amount is its text, a quantized number, or a formatted product.      *)
Bounds(n) == n >= 0 /\ (job.max > 0 => n <= job.max)
OfText(n) == Bounds(n) /\ Rounded(n) % Unit = 0
Quantize(n) == Nearest(n, Unit) * Unit
QuantizedUnchecked(n) == Bounds(n)      \* a mutant of the next
Quantized(n) == Bounds(n) /\ Quantize(n) < 10 ^ Digits * Unit
Product(num, den) == LET r == Context(num, den) IN Nearest(r.num, r.den * Unit) * Unit

(* A text of more digits than the context has may lose some.               *)
Known(n) == Rounded(n) = n
Unknown == -1

new_amt ==
    /\ job.kind = "amt" /\ pc = "new" /\ UNCHANGED <<job, decimals, locked, steps>>
    /\ IF OfText(job.text) THEN pc' = "made" /\ val' = job.text /\ kept' = IF Known(job.text) THEN job.text ELSE Unknown
       ELSE Failed

Becomes(ok, n, ex) == IF ok THEN val' = n /\ kept' = ex /\ UNCHANGED pc ELSE Failed
AmtOp == job.kind = "amt" /\ pc = "made" /\ steps < MaxSteps /\ steps' = steps + 1 /\ UNCHANGED <<job, locked>>

(* Arithmetic of tokens fails: their amounts are not made without the      *)
(* number of decimals.  Only amounts of one class are added.               *)
Sum(n, sign) == IF kept = Unknown \/ ~Known(n) THEN Unknown ELSE kept + sign * n
Arg(n) == ~job.token /\ OfText(n)

add ==
    /\ AmtOp /\ UNCHANGED decimals
    /\ \E n \in job.args : LET r == Rounded(val + n) IN Becomes(Arg(n) /\ Quantized(r), Quantize(r), Sum(n, 1))

sub ==
    /\ AmtOp /\ UNCHANGED decimals
    /\ \E n \in job.args :
         IF n > val THEN Failed      \* there are no negative amounts
         ELSE LET r == Rounded(val - n) IN Becomes(Arg(n) /\ Quantized(r), Quantize(r), Sum(n, -1))

mul ==
    /\ AmtOp /\ UNCHANGED decimals
    /\ \E f \in job.factors : LET r == Product(val * f[1], f[2]) IN Becomes(~job.token /\ OfText(r), r, Unknown)

(* An amount of another token changes the decimals of all of them.         *)
other_token ==
    /\ AmtOp /\ job.token /\ UNCHANGED <<pc, val, kept>>
    /\ \E d \in 0 .. Fine : decimals' = d

Atomic(n) == n \div Unit
Shown(n, prec) == LET u == 10 ^ (Fine - prec) IN (n \div u) * u       \* fmt(): the rest is cut off

-------------------------------------------------------------------------------
(* Attributes of an object, each [type, v], which is None or of a type.  A *)
(* descriptor lets one be set once, or reset or deleted; a lock makes all  *)
(* of them read-only but for those of _set_ok and _reset_ok.  What is not  *)
(* in the object may have a value of its class.                            *)
Absent == [type |-> "absent", v |-> 0]
None == [type |-> "none", v |-> 0]
IsA(x, ref) == x.type = ref.type \/ (x.type = "bool" /\ ref.type = "int")
Attr(a) == job.attrs[a]
Attrs == DOMAIN job.attrs
Value(a) == IF val[a] = Absent THEN Attr(a).init ELSE val[a]

(* A number that is 0 is set, but an empty string is not.                  *)
Falsy(x) == x = None \/ x = [type |-> "str", v |-> 0]

new_obj ==
    /\ job.kind = "obj" /\ pc = "new" /\ UNCHANGED <<job, decimals, locked, steps>>
    /\ pc' = "made" /\ val' = [a \in Attrs |-> Absent] /\ kept' = [a \in Attrs |-> Absent]

ObjOp == job.kind = "obj" /\ pc = "made" /\ steps < MaxSteps /\ steps' = steps + 1 /\ UNCHANGED <<job, pc, decimals>>

(* What an attribute is kept at, from its being set or its object locked.  *)
Keep(a, x) == IF kept[a] = Absent THEN [kept EXCEPT ![a] = x] ELSE kept
Assign(a, x) == val' = [val EXCEPT ![a] = x]

Settable(a) == val[a] = Absent \/ (Attr(a).desc = "list" /\ (val[a] = None \/ Attr(a).reassign))
Converts(a, x) == IF x = None THEN Attr(a).none_ok ELSE x.type = Attr(a).init.type

set_item ==
    /\ ObjOp /\ UNCHANGED locked
    /\ \E a \in Attrs, x \in job.values :
         /\ Attr(a).desc \in {"immutable", "list"} /\ Settable(a) /\ Converts(a, x) /\ Assign(a, x)
         /\ kept' = IF Attr(a).reassign \/ (Attr(a).desc = "list" /\ x = None) THEN kept ELSE Keep(a, x)

del_item ==
    /\ ObjOp /\ UNCHANGED locked
    /\ \E a \in Attrs : Attr(a).desc = "list" /\ Attr(a).delete /\ Assign(a, Absent) /\ kept' = [kept EXCEPT ![a] = Absent]

(* An attribute of _set_ok can still be set if it is unset.                *)
Writable(a) ==
    \/ ~locked \/ Attr(a).reset_ok
    \/ Attr(a).set_ok /\ (Falsy(Value(a)) \/ (job.class_attr /\ val[a] = Absent))
TypeOk(a, x) ==
    LET ref == IF job.class_attr THEN Attr(a).init ELSE Value(a)
    IN ~locked \/ ref = None \/ Attr(a).skip \/ IsA(x, ref)

lock ==
    /\ ObjOp /\ ~locked /\ locked' = TRUE /\ UNCHANGED val
    /\ kept' = [a \in Attrs |-> IF Attr(a).desc = "lockable" /\ ~Attr(a).reset_ok /\ ~Attr(a).set_ok THEN Value(a)
                                ELSE IF Attr(a).desc = "lockable" /\ Attr(a).set_ok /\ val[a] # Absent /\ ~Falsy(val[a]) THEN val[a]
                                ELSE kept[a]]

set_attr ==
    /\ ObjOp /\ UNCHANGED locked
    /\ \E a \in Attrs, x \in job.values :
         /\ Attr(a).desc = "lockable" /\ Writable(a) /\ TypeOk(a, x) /\ Assign(a, x)
         /\ kept' = IF locked /\ Attr(a).set_ok /\ ~Falsy(x) THEN Keep(a, x) ELSE kept

-------------------------------------------------------------------------------
(* Labels: sequences of characters one or two columns wide; 3 is a control *)
(* character, 0 a blank.                                                   *)
Wide(ch) == ch = 2
Columns(seq) == Len(seq) + Len(SelectSeq(seq, Wide))
Blanks(n) == [i \in 1 .. n |-> 0]
Ljust(seq, n) == IF n > Len(seq) THEN seq \o Blanks(n - Len(seq)) ELSE seq

IsLabel(seq) == 3 \notin ToSet(seq) /\ Columns(seq) <= job.maxwidth

truncate_str(seq, width) ==
    LET n == CHOOSE p \in DOMAIN seq : Columns(SubSeq(seq, 1, p)) > width /\ Columns(SubSeq(seq, 1, p - 1)) <= width
    IN SubSeq(seq, 1, n - 1) \o IF Wide(seq[n]) /\ Columns(SubSeq(seq, 1, n)) = width + 1 THEN <<0>> ELSE <<>>

(* With what encloses it and what is appended; an empty one is replaced.   *)
fmt2(seq, width, encl, app) ==
    LET wides == Columns(seq) - Len(seq)
        room == width - Len(encl) - Len(app)
        cut == IF Columns(seq) <= room THEN seq ELSE IF wides > 0 THEN truncate_str(seq, room) ELSE SubSeq(seq, 1, room)
        full == IF encl = <<>> THEN cut ELSE <<encl[1]>> \o cut \o <<encl[2]>>
    IN IF seq = <<>> THEN Blanks(width)
       ELSE IF app # <<>> THEN full \o Ljust(app, width - Len(full) - wides)
       ELSE Ljust(full, width - wides)

label ==
    /\ job.kind = "label" /\ pc = "new" /\ UNCHANGED <<job, decimals, locked, steps>>
    /\ IF IsLabel(job.text)
       THEN pc' = "made" /\ val' = fmt2(job.text, job.width, job.encl, job.app) /\ UNCHANGED kept
       ELSE Failed

-------------------------------------------------------------------------------
(* MMGen IDs: of a Seed ID, a type and an index, and for Monero an account *)
(* and an address in it, each to its number of digits.  The text of an     *)
(* index may have leading zeroes, which are part of the ID.                *)
IntOk(n, min, width) == n >= min /\ n < 10 ^ width
IsId(id) ==
    /\ id.type \in job.types
    /\ IntOk(id.idx, 1, job.digits)
    /\ id.ext # <<>> => job.monero /\ IntOk(id.ext[1], 0, job.digits) /\ IntOk(id.ext[2], 0, job.digits)

(* The index as it is written, and as it is sorted: one digit at a time.   *)
Padded(n, width) == [i \in 1 .. width |-> (n \div 10 ^ (width - i)) % 10]
Unpadded(n) == Padded(n, CHOOSE w \in 1 .. 9 : n < 10 ^ w /\ (w = 1 \/ n >= 10 ^ (w - 1)))
SortDigits(n) == Padded(n, job.digits)
Text(id) == <<id.sid, id.type>> \o Blanks(id.zeroes) \o Unpadded(id.idx) \o <<10>> \o
            (IF id.ext = <<>> THEN <<>> ELSE Unpadded(id.ext[1]) \o <<11>> \o Unpadded(id.ext[2]))
sort_key(id) ==
    <<id.sid, id.type>> \o SortDigits(id.idx) \o
    (IF id.ext = <<>> THEN <<>> ELSE SortDigits(id.ext[1]) \o SortDigits(id.ext[2]))

Before(s, t) ==
    \E n \in 1 .. Len(s) + 1 : /\ n - 1 <= Len(t) /\ \A k \in 1 .. n - 1 : s[k] = t[k]
                               /\ IF n > Len(s) THEN n <= Len(t) ELSE n <= Len(t) /\ s[n] < t[n]

ids ==
    /\ job.kind = "ids" /\ pc = "new" /\ UNCHANGED <<job, decimals, locked, steps>>
    /\ IF \A n \in DOMAIN job.ids : IsId(job.ids[n])
       THEN pc' = "made" /\ val' = [n \in DOMAIN job.ids |-> sort_key(job.ids[n])] /\ kept' = [n \in DOMAIN job.ids |-> Text(job.ids[n])]
       ELSE Failed

-------------------------------------------------------------------------------
Init ==
    /\ job \in Jobs /\ pc = "new" /\ val = 0 /\ kept = 0 /\ locked = FALSE /\ steps = 0
    /\ decimals = IF job.kind = "amt" THEN job.prec ELSE 0
Next ==
    \/ new_amt \/ add \/ sub \/ mul \/ other_token
    \/ new_obj \/ set_item \/ del_item \/ lock \/ set_attr \/ label \/ ids

Spec == Init /\ [][Next]_vars

-------------------------------------------------------------------------------
(* However amounts are added and subtracted, the result is the exact one   *)
(* or the operation is refused; nothing is rounded away.  What is shown is *)
(* never more than there is (CoinAmt).                                     *)
Exact ==
    job.kind = "amt" /\ pc = "made" =>
        /\ kept # Unknown => val = kept
        /\ kept # Unknown /\ decimals = job.prec => Atomic(val) * Unit = kept
        /\ \A prec \in 0 .. Fine : Shown(val, prec) <= val

(* A share of an amount is no more than the amount.                        *)
SharesFit ==
    job.kind = "amt" /\ pc = "made" => \A f \in job.factors : f[1] <= f[2] /\ val % Unit = 0 /\ Known(val) => Product(val * f[1], f[2]) <= val

(* What has been set once stays, whatever else is done with the object     *)
(* (ImmutableAttr, ListItemAttr, Lockable).                                *)
SetOnce ==
    job.kind = "obj" /\ pc = "made" => \A a \in Attrs : kept[a] # Absent => Value(a) = kept[a]

(* Whatever characters it has, a label takes up just its columns (fmt2).   *)
LinesUp == job.kind = "label" /\ pc = "made" => Columns(val) = job.width

(* IDs are sorted as their numbers are, and two addresses do not have one  *)
(* ID (MMGenID).                                                           *)
IdsRight ==
    job.kind = "ids" /\ pc = "made" => \A m, n \in DOMAIN job.ids :
        LET x == job.ids[m]  y == job.ids[n]
            nums(id) == <<id.sid, id.type, id.idx>> \o id.ext
        IN /\ Before(nums(x), nums(y)) <=> Before(val[m], val[n])
           /\ kept[m] = kept[n] => nums(x) = nums(y)

ValuesRight == Exact /\ SharesFit /\ SetOnce /\ LinesUp /\ IdsRight
===============================================================================
