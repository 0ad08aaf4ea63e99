--------------------------- MODULE MCConstruction ----------------------------
(***************************************************************************)
(* Instances of Construction.  Every case of ConstructionDerive, and       *)
(* intents that spend one or two outputs of the derived address, with      *)
(* debits between credits, an output without value, a coin spent twice, an *)
(* input that is signed already, scripts of every class in raw form, and   *)
(* operations and accounts that are refused by one call or another.        *)
(***************************************************************************)
EXTENDS Construction

Request(version, curve, pubkey, algo) ==
    [version |-> version, curve |-> curve, pubkey |-> pubkey, algo |-> algo, key |-> "k1"]
EcdsaRequest == {Request("zero", "secp256k1", "valid", "nil")}
AllRequests ==
    {Request(v, c, p, a) : v \in {"none", "zero", "two"}, c \in {"secp256k1", "edwards25519"},
                           p \in {"valid", "uncompressed", "short"},
                           a \in {"nil", "ecdsa", "schnorr", "sr25519"}}

Other == Address("ecdsa", 0, "k2")
Script == Address("other", 0, "p2sh")
RawAs(version, enc, class) ==
    [form |-> "raw", version |-> version, enc |-> enc, class |-> class, key |-> "k2"]
Raw(version) == RawAs(version, version, "nonstandard")
NoVersion == [form |-> "ecdsa", key |-> "k2"]

NoMeta == [x \in {} |-> x]
DebitWith(a, amt, coin, meta) ==
    [type |-> "debit", acct |-> a, amt |-> amt, coin |-> coin, action |-> "spent", meta |-> meta]
Debit(a, amt, coin) == DebitWith(a, amt, coin, NoMeta)
Credit(a, amt) ==
    [type |-> "credit", acct |-> a, amt |-> amt, coin |-> NoCoin, action |-> "created", meta |-> NoMeta]
Without(op, field) == [f \in DOMAIN op \ {field} |-> op[f]]
Redeemed == [signature_script |-> [key |-> "p2sh", signs |-> Err("given"), size |-> 60]]

Spends(a) == {
    << Debit(a, -3, "c1"), Credit(Other, 2) >>,
    << Credit(Other, 1), Debit(a, -3, "c1"), Credit(Raw(1), 1), Debit(Other, 4, "c2"), Credit(a, 0) >>,
    << Debit(Other, -5, "c2"), Debit(a, -3, "c1"), Credit(Raw(0), 7) >>,
    << Debit(a, -3, "c1"), DebitWith(Script, -2, "c3", Redeemed), Credit(Other, 4) >>,
    << Debit(a, -3, "c1"), Debit(a, -3, "c1"), Credit(Other, 5) >>,
    << Debit(a, -3, NoCoin), Credit(Other, 2) >>,
    << [Debit(a, -3, "c1") EXCEPT !.action = "created"] >>,
    << Debit(a, -3, "c1"), Credit(Address("ecdsa", 1, "k2"), 2) >>,
    << Debit(a, -3, "c1"), Credit(RawAs(1, 2, "ecdsa"), 2) >>,
    << Debit(a, -3, "c1"), Credit(NoVersion, 2) >>,
    << Without(Debit(a, -3, "c1"), "amt"), Credit(Other, 2) >>,
    << Debit(a, -3, "c1"), Without(Credit(Other, 2), "acct") >>,
    << Without(Debit(a, -3, "c1"), "acct"), Credit(Other, 2) >>,
    << Debit(a, -3, "c1"), Debit(NoVersion, -3, "c2"), Credit(Other, 2) >>,
    << [Credit(Other, 2) EXCEPT !.type = "fee"] >> }

RawSpends(a) == {<< Debit(a, -3, "c1"), Debit(Raw(0), -2, "c4"), Credit(Other, 4) >>}
TreeSpends(a) == {<< DebitWith(a, -3, "c1", [prev_tree |-> 1]), Credit(Other, 2) >>}
HexSpends(a) ==
    {<< Debit(a, -3, "c1"), Credit(RawAs(v, v, c), 2) >> : v \in {0, 1}, c \in Classes}
AllSpends(a) == Spends(a) \cup HexSpends(a)
VersionSpends(a) == {<< Debit(a, -3, "c1"), Credit(Raw(v), 2) >> : v \in {1, 2^15 - 1, 2^15}}

\* What FeeTheorem supposes of the intents and the signatures.
ASSUME FeeAssumption == ScriptsFit
=============================================================================
