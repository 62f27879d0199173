------------------------------- MODULE MsgSign -------------------------------
(* Messages signed with the keys of addresses: the file of the message and *)
(* the addresses, its signing with wallets, the verification and export of *)
(* the signatures, and the verification of what was exported               *)
(* (mmgen/msg.py, mmgen/main_msg.py, mmgen/proto/{btc,eth}/msg.py).  An    *)
(* address is its form and its key, a key is [sid, type, idx], and a       *)
(* signature what was signed with which key.                               *)
EXTENDS Naturals, Sequences, FiniteSets, Functions

CONSTANTS Jobs,     \* see Init
    Subseeds        \* the Seed IDs of the sub-seeds of each seed

VARIABLES job, pc,
    file,           \* [signed, data, sigs]: the message file
    export,         \* signatures.json
    verified,       \* the signatures `verify' has passed
    faults          \* alterations of a file

msgVars == <<job, pc, file, export, verified, faults>>

-------------------------------------------------------------------------------
IsEth == job.coin = "eth"
msghash_types == IF IsEth THEN <<"eth_sign", "raw">> ELSE <<"raw">>
mmtypes == IF IsEth THEN {"E"} ELSE {"L", "C", "S", "B"}
dfl_mmtype == IF IsEth THEN "E" ELSE "L"
AddrForm(type) == CASE type = "E" -> "eth" [] type = "S" -> "p2sh" [] type = "B" -> "bech32" [] OTHER -> "p2pkh"
ToAddr(key) == <<AddrForm(key.type), key>>

(* An address specification without its type has the default one.          *)
MMGenIDRange(spec) == [spec EXCEPT !.type = IF spec.type = "" THEN dfl_mmtype ELSE spec.type]

Ends(how) == pc' = how
new ==
    /\ pc = "create" /\ UNCHANGED <<job, export, verified, faults>>
    /\ LET hash == IF job.hash = "" THEN msghash_types[1] ELSE job.hash
           lists == [n \in DOMAIN job.specs |-> MMGenIDRange(job.specs[n])]
       IN IF hash \in Range(msghash_types) /\ \A n \in DOMAIN lists : lists[n].type \in mmtypes
          THEN /\ Ends("unsigned")
               /\ file' = [signed |-> FALSE, sigs |-> <<>>,
                           data |-> [network |-> job.coin, addrlists |-> lists, message |-> job.message,
                                     msghash_type |-> hash, failed_sids |-> {}]]
          ELSE Ends("refused") /\ UNCHANGED file

chksum(data) == <<data.addrlists, data.message, data.msghash_type, data.network>>

-------------------------------------------------------------------------------
(* One loop over the list of Seed IDs from which the ones that are found   *)
(* are removed as it goes: the one after each of them is not looked at, so *)
(* that of those found in a row every second stays.  A Seed ID is named by *)
(* its first place among the addresses.                                    *)
NoDups(lists) == {n \in DOMAIN lists : \A p \in DOMAIN lists : p < n => lists[p].sid # lists[n].sid}
Removing(lists, need, found) ==
    {n \in need : Cardinality({k \in need : k <= n /\ \A i \in need : k <= i /\ i <= n => lists[i].sid \in found}) % 2 = 1}
Sids(lists, places) == {lists[n].sid : n \in places}

WithWallet == Range(job.wallets)
WithSubseed == UNION {Subseeds[seed] : seed \in WithWallet}

do_sign(key, message, hash) == [key |-> key, message |-> message, hash |-> hash]
Entry(key, data) ==
    [addr |-> ToAddr(key), sig |-> do_sign(key, data.message, data.msghash_type),
     addr_p2pkh |-> IF key.type \in {"S", "B"} THEN <<"p2pkh", key>> ELSE <<>>,
     pubhash |-> IF IsEth THEN <<>> ELSE key]
KeysOf(list) == {[sid |-> list.sid, type |-> list.type, idx |-> i] : i \in list.idxs}

sign ==
    /\ pc = "unsigned" /\ UNCHANGED <<job, export, verified, faults>>
    /\ LET lists == file.data.addrlists
           need == NoDups(lists)
           first == Removing(lists, need, WithWallet)
           second == Removing(lists, need \ first, WithSubseed)
           saved == Sids(lists, first \union second)
           keys == UNION {KeysOf(lists[n]) : n \in {p \in DOMAIN lists : lists[p].sid \in saved}}
       IN file' = [signed |-> TRUE, data |-> [file.data EXCEPT !.failed_sids = Sids(lists, need \ (first \union second))],
                   sigs |-> [key \in keys |-> Entry(key, file.data)]]
    /\ Ends("signed")

-------------------------------------------------------------------------------
(* Bitcoin verifies against addresses that are hashes of public keys only; *)
(* a segwit address has such an address beside it.                         *)
do_verify(addr, sig, data) ==
    addr[1] \in {"p2pkh", "eth"} /\ addr[2] = sig.key /\ sig.message = data.message /\ sig.hash = data.msghash_type
OwnAddr(e) == e.addr        \* a mutant of the next
VerifyAddr(e) == IF e.addr_p2pkh # <<>> THEN e.addr_p2pkh ELSE e.addr

(* Of all, or of one address.                                              *)
get_sigs(sigs) == IF job.addrs = {} THEN sigs ELSE [k \in DOMAIN sigs \intersect job.addrs |-> sigs[k]]

Verify(sigs, data) ==
    IF DOMAIN get_sigs(sigs) # {} /\ \A k \in DOMAIN get_sigs(sigs) :
            do_verify(VerifyAddr(get_sigs(sigs)[k]), get_sigs(sigs)[k].sig, data)
    THEN verified' = [sigs |-> get_sigs(sigs), data |-> data] /\ Ends(IF data.failed_sids # {} THEN "exit 1" ELSE "exit 0")
    ELSE verified' = verified /\ Ends("failed")
verify ==
    /\ pc = "signed" /\ UNCHANGED <<job, file, export, faults>>
    /\ Verify(file.sigs, file.data)

(* What is exported has neither the address IDs nor the failed Seed IDs.   *)
Prefixed(e) == <<IF IsEth THEN "0x" ELSE "", e>>
get_json_for_export ==
    /\ pc = "signed" /\ UNCHANGED <<job, file, verified, faults>>
    /\ LET sigs == get_sigs(file.sigs)
       IN IF DOMAIN sigs = {} THEN Ends("failed") /\ UNCHANGED export
          ELSE /\ Ends("exported")
               /\ export' = [message |-> file.data.message, msghash_type |-> file.data.msghash_type,
                             network |-> file.data.network, signatures |-> {Prefixed(sigs[k]) : k \in DOMAIN sigs}]
exported_sigs ==
    /\ pc = "exported" /\ UNCHANGED <<job, file, export, faults>>
    /\ LET entries == {x[2] : x \in export.signatures}
           sigs == [a \in {e.addr : e \in entries} |-> CHOOSE e \in entries : e.addr = a]
           all == {a \in DOMAIN sigs : job.addrs = {} \/ \E key \in job.addrs : a = ToAddr(key)}
           data == [message |-> export.message, msghash_type |-> export.msghash_type, failed_sids |-> {}]
       IN IF all # {} /\ \A a \in all : do_verify(VerifyAddr(sigs[a]), sigs[a].sig, data)
          THEN verified' = [sigs |-> [a \in all |-> sigs[a]], data |-> data] /\ Ends("exit 0")
          ELSE verified' = verified /\ Ends("failed")

Alter ==
    /\ pc \in {"signed", "exported"} /\ faults = 0 /\ faults' = 1 /\ UNCHANGED <<job, pc, verified>>
    /\ IF pc = "exported" THEN file' = file /\ export' = [export EXCEPT !.message = "other"]
       ELSE /\ export' = export
            /\ \/ file' = [file EXCEPT !.data.message = "other"]
               \/ \E k \in DOMAIN file.sigs :
                    \/ file' = [file EXCEPT !.sigs[k].sig.key.idx = 9]
                    \/ file' = [file EXCEPT !.sigs[k].addr[2].idx = 9]
                    \/ file.sigs[k].addr_p2pkh # <<>> /\ file' = [file EXCEPT !.sigs[k].addr_p2pkh = <<>>]

(* There is an address at least, in each of the specifications.            *)
MsgAssumption ==
    \A j \in Jobs :
        /\ Len(j.specs) \in Nat \ {0} /\ DOMAIN j.specs = 1 .. Len(j.specs)
        /\ \A n \in DOMAIN j.specs : DOMAIN j.specs[n] = {"sid", "type", "idxs"} /\ j.specs[n].idxs # {}

Init == job \in Jobs /\ pc = "create" /\ file = <<>> /\ export = <<>> /\ verified = <<>> /\ faults = 0
Next == new \/ sign \/ verify \/ get_json_for_export \/ exported_sigs \/ Alter
Spec == Init /\ [][Next]_msgVars

-------------------------------------------------------------------------------
(* The addresses of a Seed ID are all signed for, or it is told to have    *)
(* failed: the first one whose wallet is given is signed for.              *)
SignedOrFailed ==
    pc = "signed" /\ faults = 0 =>
        LET lists == file.data.addrlists IN
        /\ \A n \in DOMAIN lists :
            IF lists[n].sid \in file.data.failed_sids THEN KeysOf(lists[n]) \intersect DOMAIN file.sigs = {}
            ELSE KeysOf(lists[n]) \subseteq DOMAIN file.sigs
        /\ DOMAIN file.sigs = {} => lists[1].sid \notin WithWallet

(* What is verified was signed, for that message, with the key of the      *)
(* address; that of a segwit address, unless it is altered.  Nothing that  *)
(* was not altered fails, however it comes to the one who verifies.        *)
Verified ==
    /\ verified # <<>> => \A k \in DOMAIN verified.sigs :
        LET e == verified.sigs[k] IN
        /\ e.sig = do_sign(VerifyAddr(e)[2], job.message, verified.data.msghash_type)
        /\ faults = 0 => e.addr = ToAddr(e.sig.key)
    /\ pc = "failed" /\ faults = 0 => DOMAIN get_sigs(file.sigs) = {}
MsgRight == SignedOrFailed /\ Verified
===============================================================================
