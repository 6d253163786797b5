---------------------------- MODULE AddressText ----------------------------
(***************************************************************************)
(* Addresses and private keys as text, under the parameters of a helper:   *)
(* CBase58Data, CBitcoinAddress and CBitcoinSecret (structs/src/base58.cpp,*)
(* keys/src/bitcoinaddress.cpp, bitcoinsecret.cpp) as createKeyPairs and   *)
(* createMultisigInfo use them.  The bytes of the version stand between    *)
(* those of the data, and the checksum is changed by a value of the chain. *)
(*                                                                         *)
(* Bytes are below Radix (256), the digits of the text below Digits (58,   *)
(* the digit 0 is written 1); the sizes are smaller than in the code.      *)
(***************************************************************************)
EXTENDS ChainParams

CONSTANTS
  Radix, Digits,
  IdSize,       (* bytes of a hash of a key or a script                     *)
  KeySize,      (* bytes of a private key                                   *)
  Hash(_),      (* the checksum of a sequence of bytes, one byte            *)
  BitXor(_, _), (* of two bytes, bit by bit                                 *)
  Int32Le(_),   (* of all bytes of a parameter, an int, which has one byte  *)
  Id, Secret,   (* hashes and private keys that are written                 *)
  Chain         (* parameters of chains: pub, script, priv and check        *)

Octet == 0 .. Radix - 1
ParamNames == {"address-pubkeyhash-version", "address-scripthash-version",
               "private-key-version", "address-checksum-value"}
Versions == {HexBytes[value] : value \in DOMAIN HexBytes} \ {<<>>}

(* As 33 and 24: a key with the shortest version is longer than a hash with *)
(* the longest.                                                             *)
ASSUME AddressTextAssumption ==
  /\ {Radix, Digits, IdSize, KeySize} \subseteq Nat \ {0} /\ 1 < Digits /\ 1 < Radix
  /\ ParamNames \subseteq Key
  /\ Versions \subseteq Seq(Octet)
  /\ \A bytes \in Versions : Int32Le(bytes) \in Octet
  /\ \A c, d \in Versions : Len(c) + KeySize > Len(d) + IdSize
  /\ \A c \in Chain : {c.pub, c.script, c.priv} \subseteq Versions /\ c.check \in Octet \ {0}
  /\ \A id \in Id : id \in Seq(Octet) /\ Len(id) = IdSize
  /\ \A secret \in Secret : secret.key \in Seq(Octet) /\ Len(secret.key) = KeySize
                            /\ secret.compressed \in BOOLEAN

(* Equal bytes of a checksum come from equal values of the chain.           *)
ASSUME ChecksumAssumption ==
  \A a, b, c \in Octet : BitXor(a, b) \in Octet /\ (BitXor(a, b) = BitXor(a, c) => b = c)

VARIABLES
  made,   (* what was written and the parameters of its chain               *)
  text    (* the digits, -1 for a space                                     *)

textVars == <<made, text>>
Space == -1
Nothing == [kind |-> "none"]
Aborted == [version |-> <<-1>>, data |-> <<>>]     (* an assertion failed   *)

-----------------------------------------------------------------------------
(* Numbers written with the digits 0 to base - 1, the first one highest.    *)
Number(digits, base) ==
  LET value[i \in 0 .. Len(digits)] == IF i = 0 THEN 0 ELSE value[i - 1] * base + digits[i]
  IN  value[Len(digits)]

DigitsOf(n, base) ==
  LET digits[m \in Nat] == IF m = 0 THEN <<>> ELSE Append(digits[m \div base], m % base)
  IN  digits[n]

(* Leading zeros are kept, each byte as one digit.                          *)
Zeros(digits) ==
  LET other == {i \in DOMAIN digits : digits[i] # 0}
  IN  IF other = {} THEN Len(digits) ELSE Min(other) - 1

EncodeBase58(bytes) ==
  [i \in 1 .. Zeros(bytes) |-> 0] \o DigitsOf(Number(bytes, Radix), Digits)

(* Spaces are allowed in front and behind.                                  *)
WithoutSpaces(string) ==
  LET solid == {i \in DOMAIN string : string[i] # Space}
  IN  IF solid = {} THEN <<>> ELSE SubSeq(string, Min(solid), Max(solid))

DecodeBase58(string) ==
  LET digits == WithoutSpaces(string)
      ok == Space \notin {digits[i] : i \in DOMAIN digits}
  IN  [ok |-> ok,
       bytes |-> IF ok THEN [i \in 1 .. Zeros(digits) |-> 0] \o DigitsOf(Number(digits, Digits), Radix)
                 ELSE <<>>]

EncodeBase58Check(bytes, check) == EncodeBase58(Append(bytes, BitXor(Hash(bytes), check)))

(* Variant: the value of the chain is left out.                             *)
DecodeBase58Check_AnyChain(string, check) ==
  LET decoded == DecodeBase58(string)
      bytes == Front(decoded.bytes)
  IN  IF decoded.ok /\ decoded.bytes # <<>>
      THEN [ok |-> TRUE, bytes |-> bytes] ELSE [ok |-> FALSE, bytes |-> <<>>]

DecodeBase58Check(string, check) ==
  LET decoded == DecodeBase58(string)
      bytes == Front(decoded.bytes)
  IN  IF decoded.ok /\ decoded.bytes # <<>> /\ BitXor(Hash(bytes), check) = Last(decoded.bytes)
      THEN [ok |-> TRUE, bytes |-> bytes] ELSE [ok |-> FALSE, bytes |-> <<>>]

-----------------------------------------------------------------------------
(* CBase58Data.  Each byte of the version is followed by as many bytes of   *)
(* the data, the last one by what is left of them.                          *)
Piece(data, i, n) ==
  LET shift == Len(data) \div n
  IN  SubSeq(data, (i - 1) * shift + 1, IF i = n THEN Len(data) ELSE i * shift)

Base58String(version, data, check) ==
  LET n == Len(version)
  IN  EncodeBase58Check(FlattenSeq([i \in 1 .. n |-> <<version[i]>> \o Piece(data, i, n)]), check)

(* Variant: the pieces start at the bytes of the version.                   *)
SetString_Pieces(string, n, check) ==
  LET decoded == DecodeBase58Check(string, check)
      bytes == decoded.bytes
      shift == (Len(bytes) - n) \div n
  IN  IF check = 0 THEN Aborted
      ELSE IF decoded.ok /\ Len(bytes) >= n
      THEN [version |-> [i \in 1 .. n |-> bytes[(i - 1) * (shift + 1) + 1]],
            data |-> SubSeq(bytes, n + 1, Len(bytes))]
      ELSE [version |-> <<>>, data |-> <<>>]

(* A text can be written under the checksum value 0, but not read.          *)
SetString(string, n, check) ==
  LET decoded == DecodeBase58Check(string, check)
      bytes == decoded.bytes
      shift == (Len(bytes) - n) \div n
      At(i) == (i - 1) * (shift + 1) + 1
  IN  IF check = 0 THEN Aborted
      ELSE IF decoded.ok /\ Len(bytes) >= n
      THEN [version |-> [i \in 1 .. n |-> bytes[At(i)]],
            data |-> FlattenSeq([i \in 1 .. n |->
                       SubSeq(bytes, At(i) + 1, IF i = n THEN Len(bytes) ELSE At(i) + shift)])]
      ELSE [version |-> <<>>, data |-> <<>>]

(* CBitcoinAddress: whatever it is the address of, the version has as many  *)
(* bytes as that of the hash of a key.                                      *)
ReadAddress(string, chain) == SetString(string, Len(chain.pub), chain.check)

IsValidAddress(object, chain) ==
  Len(object.data) = IdSize /\ object.version \in {chain.pub, chain.script}

Get(object, chain) ==
  IF ~IsValidAddress(object, chain) THEN Nothing
  ELSE [kind |-> IF object.version = chain.pub THEN "key" ELSE "script", data |-> object.data]

(* CBitcoinSecret: one byte more, a 1, stands for a compressed public key.  *)
SecretData(secret) == IF secret.compressed THEN Append(secret.key, 1) ELSE secret.key

ReadSecret(string, chain) == SetString(string, Len(chain.priv), chain.check)

IsValidSecret(object, chain) ==
  /\ object.version = chain.priv
  /\ Len(object.data) = KeySize \/ (Len(object.data) = KeySize + 1 /\ Last(object.data) = 1)

GetKey(object) ==
  [key |-> SubSeq(object.data, 1, KeySize), compressed |-> Len(object.data) > KeySize]

-----------------------------------------------------------------------------
Usable == helper # NoHelper /\ helper # Broken /\ \A key \in Key : ParseHex(helper[key]) # <<>>

(* What the functions of a helper return.                                   *)
ChainOf ==
  [pub |-> ParseHex(helper["address-pubkeyhash-version"]),
   script |-> ParseHex(helper["address-scripthash-version"]),
   priv |-> ParseHex(helper["private-key-version"]),
   check |-> Int32Le(ParseHex(helper["address-checksum-value"]))]

TextInit == made = Nothing /\ text = <<>>

Write(kind, data, version) ==
  /\ Usable /\ made = Nothing
  /\ made' = [kind |-> kind, data |-> data, chain |-> ChainOf]
  /\ text' = Base58String(version, data, ChainOf.check)

WriteKeyAddress == \E id \in Id : Write("key", id, ChainOf.pub)
WriteScriptAddress == \E id \in Id : Write("script", id, ChainOf.script)
WriteSecret == \E secret \in Secret : Write("secret", SecretData(secret), ChainOf.priv)

(* Somebody copies the text: a digit is wrong, lost or doubled, or spaces   *)
(* come with it.                                                            *)
Intact == made # Nothing /\ text = Base58String(
            CASE made.kind = "key" -> made.chain.pub
              [] made.kind = "script" -> made.chain.script
              [] made.kind = "secret" -> made.chain.priv, made.data, made.chain.check)

Copy ==
  /\ Intact
  /\ \E i \in DOMAIN text :
       \/ \E digit \in {Space} \cup 0 .. Digits - 1 : text' = ReplaceAt(text, i, digit)
       \/ text' = RemoveAt(text, i)
       \/ text' = InsertAt(text, i, text[i])
       \/ text' = <<Space>> \o text \o <<Space>>
  /\ UNCHANGED made

AddressInit == FileInit /\ TextInit

AddressNext ==
  \/ FileNext /\ UNCHANGED textVars
  \/ (WriteKeyAddress \/ WriteScriptAddress \/ WriteSecret \/ Copy) /\ UNCHANGED fileVars

AddressSpec == AddressInit /\ [][AddressNext]_<<fileVars, textVars>>

-----------------------------------------------------------------------------
(* Properties.                                                              *)
Kinds(chain) == chain.pub # chain.script /\ Len(chain.pub) = Len(chain.script)

(* What is written under the parameters of a chain is read under them as    *)
(* what it was, the address of a key, of a script, or a private key with    *)
(* its form, and as nothing else; with a checksum value 0, which a file may *)
(* give and no writer refuses, the reader does not come back                *)
(* (base58.cpp:164-219, bitcoinaddress.cpp:56-81, bitcoinsecret.cpp:3-30).  *)
ReadBack ==
  Intact /\ Kinds(made.chain) =>
    LET address == ReadAddress(text, made.chain)
        secret == ReadSecret(text, made.chain)
    IN  IF made.chain.check = 0 THEN address = Aborted /\ secret = Aborted
        ELSE /\ Get(address, made.chain) =
                  IF made.kind = "secret" THEN Nothing ELSE [kind |-> made.kind, data |-> made.data]
             /\ IsValidSecret(secret, made.chain) <=> made.kind = "secret"
             /\ made.kind = "secret" => SecretData(GetKey(secret)) = made.data

(* An address or key has one text: every text that is accepted, however it  *)
(* came about, is, without the spaces around it, the text that is written   *)
(* for what was read (base58.cpp:11-137).                                   *)
AcceptedIsTheText ==
  \A chain \in Chain :
    LET address == ReadAddress(text, chain)
        secret == ReadSecret(text, chain)
    IN  /\ IsValidAddress(address, chain) =>
             Base58String(address.version, address.data, chain.check) = WithoutSpaces(text)
        /\ IsValidSecret(secret, chain) =>
             Base58String(secret.version, SecretData(GetKey(secret)), chain.check) = WithoutSpaces(text)

(* What is written under a chain's parameters and its text stand for each   *)
(* other.                                                                   *)
TextIsTheKey == ReadBack /\ AcceptedIsTheText

(* No text of a chain is accepted under the parameters of one with another  *)
(* checksum value, even if the versions are the same (base58.cpp:102-137).  *)
ChainsAreApart ==
  Intact => \A chain \in Chain : chain.check # made.chain.check =>
    ~IsValidAddress(ReadAddress(text, chain), chain) /\ ~IsValidSecret(ReadSecret(text, chain), chain)
=============================================================================
