----------------------------- MODULE MCMessages -----------------------------
(* Two chains that differ in their checksum value only, and two others;     *)
(* files of eight lines with two edits.                                     *)
EXTENDS Messages, Bitwise

Pub == "address-pubkeyhash-version"
Script == "address-scripthash-version"
Check == "address-checksum-value"
Priv == "private-key-version"

MCHexBytes ==
  [v0 |-> <<0, 5>>, v1 |-> <<5, 5>>, v2 |-> <<7, 0>>, c1 |-> <<3>>, c2 |-> <<6>>, b0 |-> <<0>>, b1 |-> <<6>>, b2 |-> <<7>>]

MCToken == DOMAIN MCHexBytes \cup {Pub, Script, Check, Priv, "chain-name", "word", "=", "#", " "}

Line(key, value) == <<key, " ", "=", " ", value, " ", "#", " ", "word">>

File(pub, script, priv, check) ==
  << <<"#", "word">>, Line("chain-name", "word"), Line(Pub, pub), Line(Script, script),
     Line(Priv, priv), <<" ", "#", "word">>, <<>>, Line(Check, check) >>

MCChainFile ==
  {File("v0", "v1", "v2", "c1"), File("v0", "v1", "v2", "c2"), File("b0", "b1", "b2", "c1")}

MCChain ==
  {[pub |-> MCHexBytes[p[1]], script |-> MCHexBytes[p[2]], priv |-> MCHexBytes[p[3]], check |-> MCHexBytes[p[4]][1]] :
     p \in {<<"v0", "v1", "v2", "c1">>, <<"v0", "v1", "v2", "c2">>, <<"b0", "b1", "b2", "c1">>, <<"v1", "v0", "v2", "c1">>}}

MCEdit ==
  {<<>>, <<" ", "#", Check>>, <<"#", Priv, "=", "v1", "#">>, Line(Pub, "v1"), Line(Check, "c2"),
   <<"chain-name", "=", "word">>, <<Script, "#", "=", "v2">>, <<"chain-name", "#", "word">>,
   <<"chain-name", "=", Check, "#", "word">>, <<" ", Pub, "=", "v2", "#">>}

MCHash(bytes) == (3 + Number([i \in DOMAIN bytes |-> (bytes[i] * 5 + 7 * i) % Radix], 3)) % Radix

MCBitXor(a, b) == a ^^ b

(* Bytes beyond an int are shifted by the remainder, as the processor does. *)
MCInt32Le(bytes) == FoldLeft(LAMBDA value, byte : value | byte, 0, bytes)

MCId == {<<0, 0>>, <<0, 7>>, <<5, 0>>, <<7, 7>>}
MCSecret == [key : {<<0, 0, 1, 1>>, <<6, 1, 0, 1>>, <<1, 7, 7, 4>>}, compressed : BOOLEAN]

MCHash160(pubkey) ==
  LET n == 9 * pubkey.number + pubkey.header IN <<n % 8, ((n \div 8) + pubkey.number) % 8>>

MCSignatureOf(number, message) ==
  [r |-> 200 + ((number * 31 + message) % 3000), s |-> 3 + ((number * 7 + 100 * message) % 1700), rec |-> (number + message) % 4]

MCIndex == [hardened : BOOLEAN, n : 0 .. 2]

(* The child 2 of a public key does not exist.                              *)
MCBIP32Hash(cc, index, data) ==
  LET n == IF "private" \in DOMAIN data THEN 7 * data.private ELSE 5 * data.public.number + data.public.header
  IN  [left |-> IF index.n = 2 THEN Order - n \div 5 ELSE (n + 11 * cc + 1700 * index.n) % 3600,
       right |-> (cc + n + index.n) % 50]
=============================================================================
