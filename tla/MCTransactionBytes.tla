------------------------- MODULE MCTransactionBytes -------------------------
(* Bytes below 16.  The sizes 0, 4, 5, 15, 16, 255 and 256 are on both      *)
(* sides of the limits of a push, and 0, 12, 13, 16 and 17 of those of a    *)
(* size in a stream.                                                        *)
EXTENDS TransactionBytes

Ones(n) == [i \in 1 .. n |-> 1]

MCMeta == <<14, 15, 1>>
MCKey == <<2, 0, 1>>
MCSignature == <<3, 12, 15>>
MCRedeemScript == PushNumber(1) \o Push(MCKey) \o PushNumber(1) \o <<15>>
MCAddress == <<11, 1, 0, 9>>
MCScriptWithHash == PushNumber(1) \o Push(MCAddress)
MCKnown == {MCKey, MCSignature, MCRedeemScript, MCScriptWithHash, MCAddress, MCMeta \o <<7, 7>>}
MCData == MCKnown \cup {Ones(n) : n \in {0, 1, 4, 5, 15, 16, 255, 256}}

MCExpected(data) ==
  CASE Len(data) = AddressSize -> "address"
    [] data \in {MCRedeemScript, MCScriptWithHash} -> "script"
    [] data = MCMeta \o <<7, 7>> -> "detail"
    [] data = <<>>             -> "op"
    [] data = Ones(1)          -> "number"
    [] OTHER                   -> "hex"

MCNumber == {-1, 0, 1, 3, 4, 7, 8, -8, 127, -127, 128, -128}
MCOpcode == {12, 13, 14, 15}

MCInput == {In(1, <<>>, AllBits), In(2, Ones(13), 0)}
MCOutput == {Out(1, Ones(12)), Out(2, Ones(16)), Out(2, Ones(17))}
MCSequence == {0, 1}
MCScriptCode ==
  {<<14>>, <<14, 13>>, Push(MCKey) \o <<13>> \o <<14>>, <<13>> \o Push(<<13, 13>>), Push(<<13, 13>>)}
=============================================================================
