---------------------------- MODULE Construction -----------------------------
(***************************************************************************)
(* The Construction API (svc_construction.go) with the conversions between *)
(* Rosetta operations and Decred transactions it rests on                  *)
(* (types/transactions.go, address.go, amount.go).                         *)
(*                                                                         *)
(* The server keeps nothing between the calls: what a later call needs     *)
(* travels through the client as the text that serialize writes.  The      *)
(* model is one client that takes an intent through the calls in the order *)
(* Rosetta prescribes, together with the node it is published to.          *)
(*                                                                         *)
(* A script is [version, class, key]: its class is what stdscript makes of *)
(* its bytes in version 0, its key the key or hash in them.  A standard    *)
(* address is [form, version, key], of the form "ecdsa" (P2PKH) or "other" *)
(* (schnorr, P2SH...); a raw one is [form, version, enc, class, key], with *)
(* the version enc and the script its digits encode.  version is what the  *)
(* account's metadata says.  An operation is                               *)
(* [type, acct, amt, coin, action, meta], meta holding only the metadata   *)
(* the client gave.  A client may leave out an account, the version of an  *)
(* address or an amount (or write one that cannot be read): the field is   *)
(* then not there.  Signatures are written as the key and the digest they  *)
(* sign.                                                                   *)
(***************************************************************************)
EXTENDS Integers, Sequences, FiniteSets, SequencesExt

CONSTANTS
    DeriveRequests, \* requests for an address: [version, curve, pubkey, algo, key]
    IntentsOf(_),   \* the operation sequences a client may want for its address
    SigSizes,       \* sizes in bytes of a P2PKH signature script
    Reorders        \* may the client hand its signatures over in another order?

ASSUME ConstructionAssumption ==
    /\ SigSizes \subseteq Nat \ {0}
    /\ Reorders \in BOOLEAN

\* A call that failed, and why.
Err(why) == [err |-> why]
IsErr(x) == "err" \in DOMAIN x

NoCoin == "nil coin_change"
Unsigned == [key |-> "none", signs |-> Err("unsigned"), size |-> 0]

VARIABLES
    stage,      \* the call the client makes next; "failed" and "done" are final
    acct,       \* the address the client derived
    ops,        \* the operations it wants
    fee,        \* the fee suggested for them
    text,       \* the last transaction text the server returned
    payloads,   \* the payloads to sign
    parsed,     \* the last answer of ConstructionParse
    err,        \* the call that failed and the error it returned
    node,       \* what the node knows of the signed transaction
    published,  \* was it ever in the node's mempool or chain?
    reply,      \* the node's answer to sendrawtransaction
    told        \* what ConstructionSubmit told the client

client == <<stage, acct, ops, fee, text, payloads, parsed, err>>
vars == <<client, node, published, reply, told>>

-----------------------------------------------------------------------------
(***************************************************************************)
(* Conversions.                                                            *)
(***************************************************************************)

\* metadataInt8, metadataUint32, metadataHex: a key that is not there leaves
\* the default.
Metadata(m, k, default) == IF k \in DOMAIN m THEN m[k] ELSE default

IsRaw(a) == a.version # 0 \/ a.form = "raw"

\* What a script is in version 0: P2PKH; another script of one address; P2PKH
\* behind a stake opcode; bare multisig, which has several addresses; no
\* standard script.
Forms == {"ecdsa", "other"}
Classes == Forms \cup {"stake", "multisig", "nonstandard"}

Address(form, version, key) == [form |-> form, version |-> version, key |-> key]
IsAddress(a) ==
    IF a.form = "raw"
    THEN a.class \in Classes /\ a = [form |-> "raw", version |-> a.version, enc |-> a.enc,
                                    class |-> a.class, key |-> a.key]
    ELSE a.form \in Forms /\ a = Address(a.form, a.version, a.key)

\* stdaddr: the script that pays to a standard address of version 0.
PaymentScript(a) == [version |-> 0, class |-> a.form, key |-> a.key]

\* stdscript.ExtractAddrs: no script of another version is standard, and the
\* address of a stake script is that of the P2PKH script behind the opcode.
ExtractAddrs(s) ==
    IF s.version # 0 \/ s.class = "nonstandard" THEN << >>
    ELSE IF s.class = "multisig" THEN << Address("ecdsa", 0, s.key), Address("ecdsa", 0, "cosigner") >>
    ELSE IF s.class = "stake" THEN << Address("ecdsa", 0, s.key) >>
    ELSE << Address(s.class, 0, s.key) >>

\* pkScriptToRawAccountAddr
PkScriptToRawAccountAddr(s) ==
    [form |-> "raw", version |-> s.version, enc |-> s.version, class |-> s.class, key |-> s.key]

\* Mutant: every script that is not bare multisig is shown in raw form.
PkScriptToAccountAddrRaw(s) ==
    IF s.class = "multisig" THEN ExtractAddrs(s)[1] ELSE PkScriptToRawAccountAddr(s)

\* dcrPkScriptToAccountAddr: the account of a script, its version beside it.
DcrPkScriptToAccountAddr(s) ==
    IF Len(ExtractAddrs(s)) # 1 THEN PkScriptToRawAccountAddr(s) ELSE ExtractAddrs(s)[1]

\* rawAccountAddrToPkScript.  The two bytes of the version are read by ParseInt
\* with 16 bits, whose largest value is 2^15 - 1.
RawAccountAddrToPkScript(a) ==
    IF a.form # "raw" THEN Err("raw address does not have 0x prefix")
    ELSE IF a.enc > 2^15 - 1 THEN Err("invalid version int")
    ELSE IF a.enc # a.version THEN Err("incorrect version")
    ELSE [version |-> a.enc, class |-> a.class, key |-> a.key]

\* rosettaAccountToPkScript
RosettaAccountToPkScript(a) ==
    IF "version" \notin DOMAIN a THEN Err("errNilAccountMetadata")
    ELSE IF IsRaw(a) THEN RawAccountAddrToPkScript(a)
    ELSE PaymentScript(a)

\* rosettaOpToTx: why an operation is no part of a transaction.
OpError(op) ==
    IF "amt" \notin DOMAIN op THEN {"errInvalidAmountInt"}
    ELSE CASE op.type = "debit" ->
                IF op.coin = NoCoin THEN {"invalid coin_change"}
                ELSE IF op.action # "spent" THEN {"errWrongDebitCoinAction"} ELSE {}
           [] op.type = "credit" ->
                IF "acct" \notin DOMAIN op THEN {"ErrNilAccount"}
                ELSE IF IsErr(RosettaAccountToPkScript(op.acct))
                     THEN {RosettaAccountToPkScript(op.acct).err} ELSE {}
           [] OTHER -> {"ErrUnkownOpType"}

Abs(n) == IF n < 0 THEN -n ELSE n
IsDebit(op) == op.type = "debit"
IsCredit(op) == op.type = "credit"
Debits(s) == FlattenSeq([i \in DOMAIN s |-> IF IsDebit(s[i]) THEN << s[i] >> ELSE << >>])
Credits(s) == FlattenSeq([i \in DOMAIN s |-> IF IsCredit(s[i]) THEN << s[i] >> ELSE << >>])

\* RosettaOpsToTx: debits become inputs, credits outputs, both in their order.
RosettaOpsToTx(s) ==
    LET bad     == {i \in DOMAIN s : OpError(s[i]) # {}}
        In(op)  == [prev   |-> [coin |-> op.coin,
                                tree |-> Metadata(op.meta, "prev_tree", 0)],
                    value  |-> Abs(op.amt),
                    script |-> Metadata(op.meta, "signature_script", Unsigned)]
        Out(op) == [value |-> op.amt, script |-> RosettaAccountToPkScript(op.acct)]
    IN  IF bad # {}
        THEN Err(CHOOSE e \in OpError(s[CHOOSE i \in bad : \A j \in bad : i <= j]) : TRUE)
        ELSE [ins  |-> [i \in DOMAIN Debits(s) |-> In(Debits(s)[i])],
              outs |-> [i \in DOMAIN Credits(s) |-> Out(Credits(s)[i])]]

\* prevOutputFromDebitOp needs the account and its version, and knows the script
\* of standard version 0 addresses only.
NoPrevOutput(op) == "acct" \notin DOMAIN op \/ "version" \notin DOMAIN op.acct
KnownPrevOutput(op) == ~IsRaw(op.acct)
PrevOutputFromDebitOp(op) == [script |-> PaymentScript(op.acct), amount |-> Abs(op.amt)]

\* ExtractPrevOutputsFromOps: the outputs the debits spend.  The outpoint is
\* read from the coin alone, whose text has no tree.
ExtractPrevOutputsFromOps(s) ==
    LET d      == Debits(s)
        known  == {i \in DOMAIN d : KnownPrevOutput(d[i])}
        Key(i) == [coin |-> d[i].coin, tree |-> 0]
        Latest(k) == Max({i \in known : Key(i) = k})
    IN  [k \in {Key(i) : i \in known} |-> PrevOutputFromDebitOp(d[Latest(k)])]

\* txscript.CalcSignatureHash with SigHashAll: commits to every input and
\* output, to the position of the signed input and to the script it spends.
SigHash(tx, idx, script) ==
    [prevs |-> [i \in DOMAIN tx.ins |-> tx.ins[i].prev],
     outs |-> tx.outs, idx |-> idx, script |-> script]

\* Mutant: the position of the operation instead of that of the input.
ExtractSignPayloadsByOp(s, tx) ==
    FlattenSeq([i \in DOMAIN s |->
        IF ~IsDebit(s[i]) \/ s[i].acct.form # "ecdsa" THEN << >>
        ELSE << [acct |-> s[i].acct, digest |-> SigHash(tx, i, PaymentScript(s[i].acct))] >>])

\* ExtractSignPayloads: one payload per input that spends a P2PKH output.
ExtractSignPayloads(s, tx) ==
    LET d == Debits(s)
    IN  FlattenSeq([idx \in DOMAIN d |->
            IF IsRaw(d[idx].acct) \/ d[idx].acct.form # "ecdsa" THEN << >>
            ELSE << [acct |-> d[idx].acct,
                     digest |-> SigHash(tx, idx, PaymentScript(d[idx].acct))] >>])

\* CombineTxSigs: as many signatures as inputs, each of which verifies against
\* the payload it came with; the i-th becomes the script of the i-th input.
SigError(sig) ==
    CASE sig.curve # "secp256k1"            -> {"ErrUnsupportedCurveType"}
      [] sig.pubkey # "valid"               -> {"ErrInvalidPubKey"}
      [] sig.type # "ecdsa"                 -> {"ErrUnsupportedSignatureType"}
      [] sig.len # 64                       -> {"ErrIncorrectSigSize"}
      [] sig.signs # sig.payload.digest     -> {"ErrInvalidSig"}
      [] OTHER                              -> {}

CombineTxSigs(sigs, tx) ==
    CASE Len(sigs) # Len(tx.ins) -> Err("ErrIncorrectSigCount")
      [] \E i \in DOMAIN sigs : SigError(sigs[i]) # {} ->
            Err(CHOOSE e \in UNION {SigError(sigs[i]) : i \in DOMAIN sigs} : TRUE)
      [] OTHER ->
            [tx EXCEPT !.ins = [i \in DOMAIN tx.ins |->
                [tx.ins[i] EXCEPT !.script =
                    [key |-> sigs[i].key, signs |-> sigs[i].signs, size |-> sigs[i].size]]]]

\* wire.MsgTx.SerializeSize, for counts and scripts short enough for one byte
\* of length: version, lock time, expiry and three counts; outpoint, sequence
\* and witness of an input; value, version and P2PKH script of an output.
TxSize(tx) ==
    15 + SumFunction([i \in DOMAIN tx.ins |-> 58 + tx.ins[i].script.size]) + 36 * Len(tx.outs)

-----------------------------------------------------------------------------
(***************************************************************************)
(* constructionTx: the text that travels through the client.               *)
(***************************************************************************)

\* Mutant: the previous outputs are written in the order the map yields them.
SerializeMapOrder(tx, prevs) ==
    LET last == Len(tx.ins) + 1
    IN  IF \/ Len(tx.ins) # Cardinality(DOMAIN prevs)
           \/ \E i \in DOMAIN tx.ins : tx.ins[i].prev \notin DOMAIN prevs
        THEN Err("errWrongNbPrevOuts")
        ELSE [version |-> 1, tx |-> tx,
              prevs |-> [i \in DOMAIN tx.ins |-> prevs[tx.ins[last - i].prev]]]

\* serialize: every input needs a previous output; they are written in the
\* order of the inputs, without the outpoints.
Serialize(tx, prevs) ==
    CASE Len(tx.ins) # Cardinality(DOMAIN prevs) -> Err("errWrongNbPrevOuts")
      [] \E i \in DOMAIN tx.ins : tx.ins[i].prev \notin DOMAIN prevs -> Err("errInPrevOutNotFound")
      [] OTHER -> [version |-> 1, tx |-> tx,
                   prevs |-> [i \in DOMAIN tx.ins |-> prevs[tx.ins[i].prev]]]

\* deserialize: the outpoints come back from the inputs.
Deserialize(t) ==
    CASE t.version # 1                  -> Err("errInvalidCtrtxVersion")
      [] Len(t.prevs) # Len(t.tx.ins)   -> Err("errWrongNbPrevOuts")
      [] OTHER ->
            [tx    |-> t.tx,
             prevs |-> [p \in {t.tx.ins[i].prev : i \in DOMAIN t.tx.ins} |->
                            t.prevs[CHOOSE i \in DOMAIN t.tx.ins : t.tx.ins[i].prev = p]]]

\* MempoolTxToRosetta of a regular transaction whose previous outputs are all
\* given: debits, then the credits that carry value.
ParsedOps(c) ==
    LET Debit(in) == [type |-> "debit",
                      acct |-> DcrPkScriptToAccountAddr(c.prevs[in.prev].script),
                      amt |-> -c.prevs[in.prev].amount, coin |-> in.prev.coin]
        Credit(o) == IF o.value = 0 THEN << >>
                     ELSE << [type |-> "credit", acct |-> DcrPkScriptToAccountAddr(o.script),
                              amt |-> o.value] >>
    IN  [i \in DOMAIN c.tx.ins |-> Debit(c.tx.ins[i])]
            \o FlattenSeq([i \in DOMAIN c.tx.outs |-> Credit(c.tx.outs[i])])

\* ExtractTxSigners: the owners of the inputs that carry a script.
ExtractTxSigners(pops, tx) ==
    LET d == Debits(pops)
    IN  FlattenSeq([idx \in DOMAIN d |->
            IF tx.ins[idx].script.size = 0 \/ IsRaw(d[idx].acct) THEN << >>
            ELSE << d[idx].acct >>])

-----------------------------------------------------------------------------
(***************************************************************************)
(* The calls.                                                              *)
(***************************************************************************)

\* deriving ... submit: the client goes on with the next call, or stops.
Fails(call, why) ==
    /\ stage' = "failed"
    /\ err' = [call |-> call, why |-> why]
Goes(to) == stage' = to /\ UNCHANGED err

Init ==
    /\ stage = "derive"
    /\ acct = Err("none") /\ ops = << >> /\ fee = 0
    /\ text = Err("none") /\ payloads = << >> /\ parsed = Err("none")
    /\ err = [call |-> "none", why |-> "none"]
    /\ node = "absent" /\ published = FALSE
    /\ reply = "none" /\ told = "none"

\* ConstructionDerive: the address of a public key.
DeriveAddress(req) ==
    CASE req.version = "none"         -> Err("ErrUnspecifiedAddressVersion")
      [] req.version # "zero"         -> Err("ErrUnsupportedAddressVersion")
      [] req.curve # "secp256k1"      -> Err("ErrUnsupportedCurveType")
      [] req.pubkey = "uncompressed"  -> Err("ErrNotCompressedSecp256k1Key")
      [] req.pubkey # "valid"         -> Err("ErrInvalidSecp256k1PubKey")
      [] req.algo = "schnorr"         -> Address("other", 0, req.key)
      [] req.algo \in {"ecdsa", "nil"} -> Address("ecdsa", 0, req.key)
      [] OTHER                        -> Err("ErrUnsupportedAddressAlgo")

\* An intent is a finite list of operations, whose accounts have addresses.
WellFormed(s) ==
    /\ s \in Seq(Range(s))
    /\ \A i \in DOMAIN s :
        "acct" \in DOMAIN s[i] /\ "version" \in DOMAIN s[i].acct => IsAddress(s[i].acct)
ASSUME IntentsAssumption ==
    \A req \in DeriveRequests : ~IsErr(DeriveAddress(req)) =>
        \A s \in IntentsOf(DeriveAddress(req)) : WellFormed(s)

ConstructionDerive ==
    /\ stage = "derive"
    /\ \E req \in DeriveRequests :
        IF IsErr(DeriveAddress(req))
        THEN Fails("derive", DeriveAddress(req).err) /\ UNCHANGED acct
        ELSE Goes("preprocess") /\ acct' = DeriveAddress(req)
    /\ UNCHANGED <<ops, fee, text, payloads, parsed, node, published, reply, told>>

\* The widest P2PKH signature script, and the relay fee per kB.
p2pkhSigScriptSerSize == 108
networkFee == 10000

\* Mutant: one signature script is counted, however many inputs need one.
SerSizeOneInput(tx) == TxSize(tx) + p2pkhSigScriptSerSize

SerSize(tx) ==
    LET unsigned == {i \in DOMAIN tx.ins : tx.ins[i].script.size = 0}
    IN  TxSize(tx) + Cardinality(unsigned) * p2pkhSigScriptSerSize

\* ConstructionPreprocess sizes the signed transaction; ConstructionMetadata,
\* which the client calls with the answer, turns the size into a fee.
SuggestedFee(serSize) == (serSize * networkFee) \div 1000

ConstructionPreprocess ==
    /\ stage = "preprocess"
    /\ \E s \in IntentsOf(acct) :
        LET tx == RosettaOpsToTx(s)
        IN  /\ ops' = s
            /\ IF IsErr(tx)
               THEN Fails("preprocess", tx.err) /\ UNCHANGED fee
               ELSE Goes("payloads") /\ fee' = SuggestedFee(SerSize(tx))
    /\ UNCHANGED <<acct, text, payloads, parsed, node, published, reply, told>>

ConstructionPayloads ==
    /\ stage = "payloads"
    /\ LET tx == RosettaOpsToTx(ops)
           t  == IF \E i \in DOMAIN Debits(ops) : NoPrevOutput(Debits(ops)[i])
                 THEN Err("unable to extract prevOutput")
                 ELSE Serialize(tx, ExtractPrevOutputsFromOps(ops))
       IN  IF IsErr(t)
           THEN Fails("payloads", t.err) /\ UNCHANGED <<text, payloads>>
           ELSE /\ Goes("parse")
                /\ text' = t
                /\ payloads' = ExtractSignPayloads(ops, tx)
    /\ UNCHANGED <<acct, ops, fee, parsed, node, published, reply, told>>

ConstructionParse ==
    /\ stage \in {"parse", "parse signed"}
    /\ LET c == Deserialize(text)
       IN  IF IsErr(c)
           THEN Fails("parse", c.err) /\ UNCHANGED parsed
           ELSE /\ Goes(IF stage = "parse" THEN "combine" ELSE "submit")
                /\ parsed' = [ops |-> ParsedOps(c),
                              signers |-> ExtractTxSigners(ParsedOps(c), c.tx)]
    /\ UNCHANGED <<acct, ops, fee, text, payloads, node, published, reply, told>>

\* The client signs every payload, all well or all with one flaw, and hands the
\* signatures over in the order of the payloads, or in any order when it Reorders.
Flawless == [curve |-> "secp256k1", pubkey |-> "valid", type |-> "ecdsa", len |-> 64,
             good |-> TRUE]
Makes == {Flawless, [Flawless EXCEPT !.curve = "edwards25519"],
          [Flawless EXCEPT !.pubkey = "short"], [Flawless EXCEPT !.type = "schnorr"],
          [Flawless EXCEPT !.len = 65], [Flawless EXCEPT !.good = FALSE]}
Signature(p, m, n) ==
    [payload |-> p, key |-> p.acct.key, size |-> n,
     curve |-> m.curve, pubkey |-> m.pubkey, type |-> m.type, len |-> m.len,
     signs |-> IF m.good THEN p.digest ELSE Err("other digest")]
Orders(n) == IF Reorders THEN {f \in [1..n -> 1..n] : Cardinality(Range(f)) = n}
             ELSE {[i \in 1..n |-> i]}
Signings ==
    LET n == Len(payloads)
    IN  {[i \in 1..n |-> Signature(payloads[f[i]], m, size[i])] :
            f \in Orders(n), m \in Makes, size \in [1..n -> SigSizes]}

ConstructionCombine ==
    /\ stage = "combine"
    /\ \E sigs \in Signings :
        LET c == Deserialize(text)
            tx == CombineTxSigs(sigs, c.tx)
        IN  IF IsErr(tx)
            THEN Fails("combine", tx.err) /\ UNCHANGED text
            ELSE Goes("parse signed") /\ text' = Serialize(tx, c.prevs)
    /\ UNCHANGED <<acct, ops, fee, payloads, parsed, node, published, reply, told>>

-----------------------------------------------------------------------------
(***************************************************************************)
(* Publishing.  The node, and dcrros' connection to it: the rpc client     *)
(* sends a request again when the connection breaks before the answer.     *)
(***************************************************************************)

\* The scripts the inputs carry redeem the outputs they spend.
Verifies(c) ==
    \A i \in DOMAIN c.tx.ins :
        LET owner == c.prevs[c.tx.ins[i].prev].script
        IN  /\ c.tx.ins[i].script.key = owner.key
            /\ c.tx.ins[i].script.signs = SigHash(c.tx, i, owner)

\* The node's answer to the transaction it is sent.
SendRawTransaction ==
    /\ stage = "submit"
    /\ told = "none" /\ reply # "connection error"
    /\ LET valid == Verifies(Deserialize(text))
           new == node = "absent" /\ valid
       IN  /\ node' = IF new THEN "mempool" ELSE node
           /\ published' = (published \/ new)
           /\ reply' = CASE node = "mempool" -> "duplicate"
                         [] node = "mined"   -> "misc: transaction already exists"
                         [] new              -> "hash"
                         [] OTHER            -> "misc: rule error"
    /\ UNCHANGED <<client, told>>

\* The request or its answer is lost for good (the call is cancelled, say).
NoReply ==
    /\ stage = "submit" /\ told = "none"
    /\ reply' = "connection error"
    /\ UNCHANGED <<client, node, published, told>>

\* Mutant: the generic rule error is recognised before the special one.
SubmitErrorGenericFirst(r) ==
    CASE r = "duplicate" -> "ErrAlreadyHaveTx"
      [] r \in {"misc: transaction already exists", "misc: rule error"} -> "ErrProcessingTx"
      [] OTHER -> "unknown error"

SubmitError(r) ==
    CASE r = "duplicate"                        -> "ErrAlreadyHaveTx"
      [] r = "misc: transaction already exists" -> "ErrTxAlreadyMined"
      [] r = "misc: rule error"                 -> "ErrProcessingTx"
      [] OTHER                                  -> "unknown error"

ConstructionSubmit ==
    /\ stage = "submit" /\ reply # "none"
    /\ told' = IF reply = "hash" THEN "hash" ELSE SubmitError(reply)
    /\ reply' = "none"
    /\ UNCHANGED <<client, node, published>>

\* The client submits the same text again, whether or not an answer reached it.
Resubmit ==
    /\ stage = "submit" /\ told # "none"
    /\ told' = "none"
    /\ UNCHANGED <<client, node, published, reply>>

\* The network mines the transaction, or another one that spends its inputs.
Mine ==
    /\ node = "mempool" /\ node' = "mined"
    /\ UNCHANGED <<client, published, reply, told>>
DoubleSpend ==
    /\ stage = "submit" /\ node \in {"absent", "mempool"} /\ node' = "conflict"
    /\ UNCHANGED <<client, published, reply, told>>

\* The client that failed starts over with another intent.
StartOver ==
    /\ stage = "failed"
    /\ stage' = "derive"
    /\ acct' = Err("none") /\ ops' = << >> /\ fee' = 0 /\ text' = Err("none")
    /\ payloads' = << >> /\ parsed' = Err("none")
    /\ err' = [call |-> "none", why |-> "none"]
    /\ UNCHANGED <<node, published, reply, told>>

Next ==
    \/ ConstructionDerive \/ ConstructionPreprocess \/ ConstructionPayloads
    \/ ConstructionParse \/ ConstructionCombine
    \/ SendRawTransaction \/ NoReply \/ ConstructionSubmit \/ Resubmit
    \/ Mine \/ DoubleSpend \/ StartOver

Spec == Init /\ [][Next]_vars

-----------------------------------------------------------------------------
(***************************************************************************)
(* Properties.                                                             *)
(***************************************************************************)

\* The account that keeps what is paid to an address: a raw address of a
\* version 0 script with one standard address is another way to write that
\* one, and any other address stands for itself.
Account(a) ==
    IF a.form # "raw" \/ a.version # 0 THEN a
    ELSE IF a.class \in Forms THEN Address(a.class, 0, a.key)
    ELSE IF a.class = "stake" THEN Address("ecdsa", 0, a.key)
    ELSE a

\* What an intent says, in the form ConstructionParse answers with.
Normalised(s) ==
    LET Spent(op) == [type |-> "debit", acct |-> op.acct, amt |-> -Abs(op.amt), coin |-> op.coin]
        Paid(op)  == [type |-> "credit", acct |-> Account(op.acct), amt |-> op.amt]
    IN  [i \in DOMAIN Debits(s) |-> Spent(Debits(s)[i])]
        \o FlattenSeq([i \in DOMAIN s |->
                IF IsCredit(s[i]) /\ s[i].amt # 0 THEN << Paid(s[i]) >> ELSE << >>])

\* What ConstructionParse shows the client before and after signing is what it
\* asked for: every debit with its own amount and owner, though the text
\* carries the spent outputs by position only; every credit with value under
\* the account that holds it, which is the address as it was given except for
\* the raw form of a standard script, shown as the standard address
\* (dcrPkScriptToAccountAddr); and once it is signed, the signers are the
\* owners of the inputs, in their order.
IntentSurvives ==
    /\ stage \in {"combine", "parse signed", "submit"} => parsed.ops = Normalised(ops)
    /\ stage = "submit" =>
            parsed.signers = [i \in DOMAIN Debits(ops) |-> Debits(ops)[i].acct]

\* A client that signs the payloads with the right keys and returns the
\* signatures in the order of the payloads gets a transaction the network
\* accepts, wherever the debits stand among the operations.
SignaturesVerify == stage \in {"parse signed", "submit"} => Verifies(Deserialize(text))

\* The fee suggested before signing covers the relay fee of the signed
\* transaction, whatever the size of the signatures turned out to be.
FeeCoversSigned ==
    stage \in {"parse signed", "submit"} => fee * 1000 >= TxSize(text.tx) * networkFee

\* A signature fits into the size ConstructionPreprocess counts for it, and a
\* script that an intent gives for an input that is signed is no shorter than
\* the signature that takes its place.
GivenSize(op) == Metadata(op.meta, "signature_script", Unsigned).size
ScriptFits(op) ==
    /\ GivenSize(op) \in Nat
    /\ GivenSize(op) # 0 /\ "acct" \in DOMAIN op /\ op.acct.form = "ecdsa"
            => \A z \in SigSizes : z <= GivenSize(op)
ScriptsFit ==
    /\ \A z \in SigSizes : z <= p2pkhSigScriptSerSize
    /\ \A req \in DeriveRequests : ~IsErr(DeriveAddress(req)) =>
            \A s \in IntentsOf(DeriveAddress(req)) :
                \A i \in DOMAIN s : IsDebit(s[i]) => ScriptFits(s[i])

\* ConstructionSubmit never tells the client that a transaction is bad when the
\* network has it, and never that the network has it when it was never
\* published; even if the request reached the node more than once, or the
\* transaction was mined before the retry.
AnswerIsTrue ==
    /\ told = "ErrProcessingTx" => ~(published /\ node \in {"mempool", "mined"})
    /\ told \in {"hash", "ErrAlreadyHaveTx", "ErrTxAlreadyMined"} => published

\* ConstructionPayloads' comment: inputs it cannot sign are no error, so that
\* other software may sign them.
UnknownInputsAccepted ==
    err.call = "payloads" =>
        ~ \E i \in DOMAIN ops : IsDebit(ops[i]) /\ IsRaw(ops[i].acct)

\* rosettaOpToTx's comment: an input is in the regular tree unless prev_tree
\* says otherwise; so operations that name the stake tree, as those of a block
\* do, can be turned into payloads as they can be sized.
StakeTreeAccepted ==
    err.call = "payloads" =>
        ~ \E i \in DOMAIN ops : IsDebit(ops[i]) /\ "prev_tree" \in DOMAIN ops[i].meta

\* ConstructionCombine's comment: signatures in another order than that of the
\* inputs make it fail.
OutOfOrderFails ==
    stage \in {"parse signed", "submit"} =>
        \A i \in DOMAIN text.tx.ins : text.tx.ins[i].script.signs.idx = i

\* rawAccountAddrToPkScript's comment: a raw address has a version of two bytes
\* and is decoded when the version given with it is the same.
RawAddressesDecode ==
    \A i \in DOMAIN ops :
        /\ ops[i].acct.form = "raw" /\ ops[i].acct.version = ops[i].acct.enc
        /\ ops[i].acct.enc \in 0 .. 2^16 - 1
            => err.why # "invalid version int"
=============================================================================
