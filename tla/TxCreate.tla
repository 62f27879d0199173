------------------------------- MODULE TxCreate -------------------------------
(* How a transaction is put together, and replaced by one with a higher    *)
(* fee: mmgen-txcreate, mmgen-txdo and mmgen-txbump for Bitcoin ("btc"),   *)
(* Ethereum ("vm") and tokens ("token").  The user chooses inputs, fees    *)
(* and outputs until they fit; the coin daemon serializes a Bitcoin        *)
(* transaction and is not believed.  An address is a model value, a fee or *)
(* an amount a small number, a size the number of inputs and outputs.      *)
EXTENDS Integers, FiniteSets, FiniteSetsExt

CONSTANTS
    Coins,      \* outputs, or accounts, of the tracking wallet that can be spent
    Value,      \* what each of them is worth
    Ether,      \* what an account holds in Ether, which pays for a token transfer
    Own,        \* addresses of the wallet
    Data,       \* an OP_RETURN output, which has no address
    NoAmt,      \* an output argument without an amount: the change
    Jobs,       \* command lines: kind, outputs asked for, replaceable or not
    Fees,       \* fees the user may name
    MaxFee      \* proto.max_tx_fee

VARIABLES
    job,        \* the command line
    pc,         \* where the command is
    ins, outs,  \* self.inputs, self.outputs
    fee,        \* self.usr_fee
    reduced,    \* the output a replacement takes its fee from (bump_output_idx)
    tx          \* the last transaction made

vars == <<job, pc, ins, outs, fee, reduced, tx>>

Output(to, amt, chg) == [to |-> to, amt |-> amt, chg |-> chg]

NoOutput == Output(NoAmt, 0, FALSE)

Unmade == [ins |-> {}, outs |-> {}, fee |-> 0, raw |-> {}, new |-> TRUE]

SumInputs(is) == MapThenSumSet(LAMBDA c : Value[c], is)

SumOutputs(os) == MapThenSumSet(LAMBDA o : o.amt, os)

NonData(os) == {o \in os : o.to # Data}

Change(os) == {o \in os : o.chg}

(* The estimated size, and what follows from it: the relay fee, and the    *)
(* relative fee of a fee, in whole units.                                  *)
Size(is, os) == Cardinality(is) + Cardinality(os)

RelayFee(is, os) == IF job.kind = "btc" THEN Size(is, os) \div 2 ELSE 0

RelFee(f, is, os) == IF job.kind = "btc" THEN f \div Size(is, os) ELSE f

Bumping == tx # Unmade

CreateAssumption ==
    /\ IsFiniteSet(Coins)
    /\ \A c \in Coins : Value[c] \in Nat
    /\ Ether \in Nat /\ Fees \subseteq Nat /\ MaxFee \in Nat
    /\ \A j \in Jobs :
          /\ j = [kind |-> j.kind, args |-> j.args, rbf |-> j.rbf]
          /\ j.kind \in {"btc", "vm", "token"} /\ IsFiniteSet(j.args)
          /\ \A a \in j.args : a[1] # NoAmt /\ (a[2] # NoAmt => a[2] \in Nat)

-------------------------------------------------------------------------------
(* The arguments name one change output (an address without an amount), no *)
(* address twice and at most one piece of data; the single output of an    *)
(* Ethereum transaction may be the change, which sends everything.         *)
ArgsOk(args) ==
    IF job.kind = "btc"
    THEN /\ Cardinality({a \in args : a[2] = NoAmt /\ a[1] # Data}) = 1
         /\ \A a, b \in args : a[1] = b[1] => a = b
    ELSE Cardinality(args) = 1 /\ \A a \in args : a[1] # Data

Outputs(args) ==
    {Output(a[1], IF a[2] = NoAmt THEN 0 ELSE a[2], a[2] = NoAmt /\ a[1] # Data) : a \in args}

ProcessCmdlineArgs ==
    /\ pc = "args"
    /\ IF ArgsOk(job.args) THEN outs' = Outputs(job.args) /\ pc' = "inputs"
                           ELSE outs' = outs /\ pc' = "died"
    /\ UNCHANGED <<job, ins, fee, reduced, tx>>

(* Inputs are asked for until they cover the outputs, the fee not counted; *)
(* a replacement has the inputs of the original.                           *)
Sufficient(is) ==
    /\ SumInputs(is) >= SumOutputs(outs)
    /\ job.kind = "token" => Ether > 0

GetInputs ==
    /\ pc = "inputs"
    /\ IF Bumping THEN ins' = ins
       ELSE \E is \in (SUBSET Coins) \ {{}} :
               /\ job.kind # "btc" => Cardinality(is) = 1
               /\ Sufficient(is)
               /\ ins' = is
    /\ pc' = "fee"
    /\ UNCHANGED <<job, outs, fee, reduced, tx>>

ConvertAndCheckFee(f) == f <= MaxFee /\ f >= RelayFee(ins, outs)

CheckBumpedFee(f) == Bumping => RelFee(f, ins, outs) > RelFee(tx.fee, tx.ins, tx.outs)

FundsLeftBeforeFee(f) == SumInputs(ins) - SumOutputs(outs)

(* What the inputs leave when the outputs and the fee are paid.  The fee   *)
(* of a token transfer is paid in Ether.                                   *)
FundsLeft(f) == IF job.kind = "token" THEN Ether - f ELSE SumInputs(ins) - (SumOutputs(outs) + f)

(* What is left is shown by subtracting amounts, which cannot be negative:  *)
(* a replacement that asks for more tokens than there are ends here, since *)
(* its inputs were not asked for.                                          *)
Overdrawn == job.kind = "token" /\ Change(outs) = {} /\ SumOutputs(outs) > SumInputs(ins)

(* The user names fees until one is accepted; when the funds do not cover  *)
(* it, or the user dislikes what is left, the inputs are asked for again.  *)
GetFee(f) ==
    /\ pc = "fee"
    /\ ConvertAndCheckFee(f)
    /\ CheckBumpedFee(f)
    /\ fee' = f
    /\ pc' \in CASE FundsLeft(f) < 0 -> {"inputs"}
                 [] FundsLeft(f) >= 0 /\ Overdrawn -> {"crashed"}
                 [] OTHER -> {"inputs", "change"}
    /\ UNCHANGED <<job, ins, outs, reduced, tx>>

WithAmt(os, o, amt) == (os \ {o}) \union {[o EXCEPT !.amt = amt]}

(* The change output gets what is left.  With nothing left it is deleted:  *)
(* if two outputs remain, the test whether the change goes to the wallet   *)
(* then asks an output that is not there, and the command crashes.         *)
UpdateChange ==
    /\ pc = "change"
    /\ LET left == FundsLeft(fee)
           chg == Change(outs)
           kept == IF job.kind = "btc" /\ left = 0 THEN outs \ chg
                   ELSE UNION {WithAmt(outs, o, IF job.kind = "token" THEN SumInputs(ins) ELSE left) : o \in chg}
       IN /\ outs' = IF chg = {} THEN outs ELSE kept
          /\ CASE job.kind # "btc" \/ Cardinality(NonData(kept)) <= 1 -> pc' = "raw"
               [] Change(kept) = {} -> pc' = "crashed"
               [] OTHER -> pc' \in {"raw"} \union {"quit" : o \in {x \in chg : x.to \notin Own}}
    /\ UNCHANGED <<job, ins, fee, reduced, tx>>

-------------------------------------------------------------------------------
Pairs(os) == {<<o.to, o.amt>> : o \in os}

(* What the daemon may return for a Bitcoin transaction: any of its        *)
(* outputs left out or paid too much.  Others are serialized here.         *)
Replies ==
    LET asked == Pairs(outs) IN
    {asked} \union
    IF job.kind # "btc" THEN {}
    ELSE {asked \ {p} : p \in asked} \union {(asked \ {p}) \union {<<p[1], p[2] + 1>>} : p \in asked}

CheckSerializedIntegrity(raw) == raw = Pairs(outs)

CheckFee ==
    IF job.kind = "btc" THEN SumInputs(ins) - SumOutputs(outs) <= MaxFee ELSE fee <= MaxFee

CreateSerialized(raw) ==
    /\ pc = "raw"
    /\ IF CheckSerializedIntegrity(raw) /\ CheckFee
       THEN /\ tx' = [ins |-> ins, outs |-> outs, fee |-> fee, raw |-> raw, new |-> reduced = NoOutput]
            /\ pc' = "made"
       ELSE tx' = tx /\ pc' = "died"
    /\ UNCHANGED <<job, ins, outs, fee, reduced>>

-------------------------------------------------------------------------------
MinFeeUnrelayed == tx.fee

(* A replacement, with new outputs, or with those of the original, one of  *)
(* which pays the difference.                                              *)
MinFee == IF job.kind = "btc" THEN tx.fee + RelayFee(tx.ins, tx.outs) ELSE (tx.fee * 1101) \div 1000 + 1

BumpNew(args) ==
    /\ pc = "made"
    /\ job.rbf
    /\ job' = [job EXCEPT !.args = args]
    /\ pc' = "args"
    /\ reduced' = NoOutput
    /\ UNCHANGED <<ins, outs, fee, tx>>

BumpFee ==
    /\ pc = "made"
    /\ job.rbf
    /\ pc' = IF \E o \in tx.outs : o.amt >= MinFee THEN "choose" ELSE "died"
    /\ UNCHANGED <<job, ins, outs, fee, reduced, tx>>

(* The outputs that come first in the transaction: those with the lowest   *)
(* amount.                                                                 *)
First(os) == {o \in os : \A p \in os : o.amt <= p.amt}

(* With a single output that is not data the program takes output number   *)
(* 0 without asking, whichever that is.                                    *)
ChooseOutput(o) ==
    /\ pc = "choose"
    /\ IF Cardinality(NonData(outs)) = 1
       THEN (\A p \in NonData(outs) : p.amt >= MinFee) /\ o \in First(outs)
       ELSE o.amt >= MinFee
    /\ reduced' = o
    /\ pc' = "bumpfee"
    /\ UNCHANGED <<job, ins, outs, fee, tx>>

(* The bounds of a Bitcoin replacement's fee; the minimum fee of the other *)
(* kinds is displayed and not enforced.                                    *)
BumpBounds(f) == job.kind = "btc" => f >= MinFee /\ f < reduced.amt

BumpedOutputs(f) ==
    IF job.kind = "btc"
    THEN WithAmt(outs, reduced, SumInputs(ins) - SumOutputs(outs \ {reduced}) - f)
    ELSE outs

BumpFeeTo(f) ==
    /\ pc = "bumpfee"
    /\ ConvertAndCheckFee(f)
    /\ BumpBounds(f)
    /\ CheckBumpedFee(f)
    /\ fee' = f
    /\ outs' = BumpedOutputs(f)
    /\ pc' = "raw"
    /\ UNCHANGED <<job, ins, reduced, tx>>

(* The user leaves at a prompt.                                            *)
Quit ==
    /\ pc \in {"inputs", "fee", "choose", "bumpfee"}
    /\ pc' = "quit"
    /\ UNCHANGED <<job, ins, outs, fee, reduced, tx>>

-------------------------------------------------------------------------------
Init ==
    /\ job \in Jobs
    /\ pc = "args"
    /\ ins = {} /\ outs = {} /\ fee = 0 /\ reduced = NoOutput
    /\ tx = Unmade

Next ==
    \/ ProcessCmdlineArgs \/ GetInputs \/ UpdateChange \/ BumpFee \/ Quit
    \/ \E f \in Fees : GetFee(f) \/ BumpFeeTo(f)
    \/ \E raw \in Replies : CreateSerialized(raw)
    \/ \E j \in Jobs : j.kind = job.kind /\ BumpNew(j.args)
    \/ \E o \in outs : ChooseOutput(o)

Spec == Init /\ [][Next]_vars

-------------------------------------------------------------------------------
(* A transaction that has been made spends its inputs to the last unit: on *)
(* its outputs, the fee the user agreed to and, in an account, what        *)
(* remains there.  The fee is between the relay fee of the transaction as  *)
(* it is, not as it was when the fee was asked for, and the maximum; every *)
(* amount asked for on the command line is paid; and the serialized form   *)
(* says the same.                                                          *)
(* A replacement that keeps the outputs of an account is exempt from the   *)
(* first part: of an account that was emptied it asks more than is there.  *)
Balanced ==
    LET paid == SumOutputs(tx.outs) + IF job.kind = "token" THEN 0 ELSE tx.fee
    IN IF job.kind = "btc" THEN SumInputs(tx.ins) = paid ELSE tx.new => SumInputs(tx.ins) >= paid

FeeInBounds == tx.fee <= MaxFee /\ tx.fee >= RelayFee(tx.ins, tx.outs)

AsAsked ==
    tx.new => \A a \in job.args : a[2] # NoAmt => \E o \in tx.outs : o.to = a[1] /\ o.amt = a[2]

MadeRight == pc = "made" => Balanced /\ FeeInBounds /\ AsAsked /\ tx.raw = Pairs(tx.outs)

(* A replacement spends the inputs of the original at a higher relative    *)
(* fee.  With the original's outputs it also pays for its own relaying,    *)
(* and at most the output the user chose is smaller, but still worth       *)
(* something.                                                              *)
Replaces(old, new) ==
    /\ new.ins = old.ins
    /\ RelFee(new.fee, new.ins, new.outs) > RelFee(old.fee, old.ins, old.outs)
    /\ ~new.new /\ job.kind = "btc" =>
          /\ new.fee >= old.fee + RelayFee(new.ins, new.outs)
          /\ \E o \in old.outs, p \in new.outs :
                /\ new.outs \ {p} = old.outs \ {o}
                /\ p.to = o.to /\ p.amt > 0 /\ p.amt < o.amt

Replacing == tx # Unmade /\ tx' # tx => Replaces(tx, tx')

BumpReplaces == [][Replacing]_vars
===============================================================================
