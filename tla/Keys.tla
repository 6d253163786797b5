-------------------------------- MODULE Keys --------------------------------
(***************************************************************************)
(* Keys: a private key is written as OpenSSL writes it and read into       *)
(* another object, its signatures are read by the lax parser, and both     *)
(* halves of a pair are derived from those of another (keys/src/key.cpp,   *)
(* keys/src/pubkey.cpp).                                                   *)
(*                                                                         *)
(* A point is the number of its key, since multiplying the generator is    *)
(* one to one; secp256k1 and the hash of BIP 32 are external.              *)
(***************************************************************************)
EXTENDS Der

CONSTANTS
  KeyNumber,      (* the private keys that are made                         *)
  Value,          (* of r and of s                                          *)
  Padding,        (* zeros in front of a number                             *)
  Index,          (* of children: [hardened, n]                             *)
  MaxDepth,       (* bound on derivations in a row                          *)
  Message,        (* what is signed                                         *)
  SignatureOf(_, _),   (* r, s and rec of a key's signature of a message    *)
  BIP32Hash(_, _, _)   (* of a chain code, an index and data: two numbers   *)

(* secp256k1 signs with the lower of s and Order - s, and takes both: some  *)
(* message tells two keys apart.  A number has at most a byte too many, and *)
(* the size of one with zeros in front is below 256.                        *)
Verifies(number, message, r, s) ==
  LET sig == SignatureOf(number, message) IN r = sig.r /\ s \in {sig.s, Order - sig.s}

ASSUME KeysAssumption ==
  /\ KeyNumber \subseteq 1 .. Order - 1 /\ Value \cup Padding \cup {MaxDepth} \subseteq Nat
  /\ \A number \in KeyNumber, message \in Message :
       IsKey(SignatureOf(number, message).r) /\ SignatureOf(number, message).s \in 1 .. Order \div 2
  /\ \A number, other \in KeyNumber : number # other =>
       \E message \in Message :
         ~Verifies(other, message, SignatureOf(number, message).r, SignatureOf(number, message).s)
  /\ \A n \in Value : n < Power[NumberSize + 1]
  /\ \A pad \in Padding : NumberSize + 1 + pad < 256

VARIABLES
  encoded,    (* what was written: its meaning, where it ends and its bytes *)
  pair        (* a private and a public key, each with its chain code       *)

keysVars == <<encoded, pair>>
NoBytes == [of |-> "nothing"]
NoPair == [depth |-> 0]

-----------------------------------------------------------------------------
(* The object CKey.  The import clears the bytes before it looks at its     *)
(* input, and a failure leaves fValid as it was.                            *)
NoKey == [valid |-> FALSE, compressed |-> FALSE, number |-> 0]

SetPrivKey(key, bytes, compressed) ==
  IF ImportDer(bytes) = 0 THEN [key EXCEPT !.number = 0]
  ELSE [valid |-> TRUE, compressed |-> compressed, number |-> ImportDer(bytes)]

(* A public key goes by its first byte, which gives its size; 255 is none.  *)
GetLen(header) == CASE header \in {2, 3} -> 33 [] header \in {4, 6, 7} -> 65 [] OTHER -> 0

NoPubKey == [header |-> 255, number |-> 0]
SetPubKey(header, size, number) ==
  IF size # 0 /\ GetLen(header) = size THEN [header |-> header, number |-> number] ELSE NoPubKey

IsValidPubKey(pubkey) == GetLen(pubkey.header) > 0
IsCompressed(pubkey) == GetLen(pubkey.header) = 33

(* What serialization gives; which of 2 and 3 it is shows one coordinate.   *)
Header(number, compressed) == IF compressed THEN 2 + (number % 2) ELSE 4

GetPubKey(key) ==
  SetPubKey(Header(key.number, key.compressed), IF key.compressed THEN 33 ELSE 65, key.number)

-----------------------------------------------------------------------------
Size(n) == Len(Stripped(Bytes(n, NumberSize + 1)))
Padded(n, pad) == [i \in 1 .. pad |-> 0] \o Bytes(n, Size(n))

(* CKey::Sign: the strict form, with a zero in front of a first bit.        *)
StrictInteger(n) ==
  LET digits == Padded(n, IF Bytes(n, Size(n))[1] < High THEN 0 ELSE 1)
  IN  <<INTEGER, Len(digits)>> \o digits

SignDer(key, message) ==
  LET sig == SignatureOf(key.number, message)
      content == StrictInteger(sig.r) \o StrictInteger(sig.s)
  IN  <<SEQUENCE, Len(content)>> \o content

(* Both s and Order - s are taken.                                          *)
Verify(pubkey, message, bytes) ==
  LET parsed == ParseDerLax(bytes)
  IN  /\ IsValidPubKey(pubkey) /\ bytes # <<>>
      /\ parsed # Unparsable /\ Verifies(pubkey.number, message, parsed.r, parsed.s)

VerifyPubKey(key, pubkey) ==
  /\ IsCompressed(pubkey) = key.compressed
  /\ \A message \in Message : Verify(pubkey, message, SignDer(key, message))

(* CKey::Load has the object filled also when it says that the public key   *)
(* is another.                                                              *)
LoadKey(key, bytes, pubkey) ==
  LET loaded == SetPrivKey(key, bytes, IsCompressed(pubkey))
  IN  [key |-> loaded, ok |-> ImportDer(bytes) # 0 /\ VerifyPubKey(loaded, pubkey)]

-----------------------------------------------------------------------------
(* Children.  The left number of the hash is added unless it is too large   *)
(* or gives no key; the right one is the new chain code in any case.        *)
Child(number, hash) ==
  IF hash.left < Order THEN (number + hash.left) % Order ELSE 0

(* Variant: the private key is hashed for every index.                      *)
DeriveKey_Private(key, cc, index) ==
  LET hash == BIP32Hash(cc, index, [private |-> key.number])
  IN  [key |-> [valid |-> Child(key.number, hash) # 0, compressed |-> TRUE,
                number |-> Child(key.number, hash)], cc |-> hash.right]

DeriveKey(key, cc, index) ==
  LET hash == BIP32Hash(cc, index, IF index.hardened THEN [private |-> key.number]
                                   ELSE [public |-> GetPubKey(key)])
  IN  [key |-> [valid |-> Child(key.number, hash) # 0, compressed |-> TRUE,
                number |-> Child(key.number, hash)], cc |-> hash.right]

(* A failure leaves the object of the child as it was, here without a key.  *)
DerivePubKey(pubkey, cc, index) ==
  LET hash == BIP32Hash(cc, index, [public |-> pubkey])
      number == Child(pubkey.number, hash)
  IN  [key |-> IF number = 0 THEN NoPubKey ELSE SetPubKey(Header(number, TRUE), 33, number),
       cc |-> hash.right]

-----------------------------------------------------------------------------
(* The forms a signature has on the chain: zeros in front of a number or    *)
(* none although its first bit is set, sizes in a long form with zeros of   *)
(* their own, any size of the whole, and more bytes at the end.             *)
LengthForms(size) ==
  {<<High + n>> \o Bytes(size, n) : n \in {1, 3}} \cup (IF size < High THEN {<<size>>} ELSE {})

WriteSignature ==
  /\ encoded = NoBytes /\ pair = NoPair
  /\ \E r, s \in Value, pad \in Padding, whole \in {<<0>>, <<High>>, <<High + 2, 7, INTEGER>>} :
       \E rForm \in LengthForms(Size(r) + pad), sForm \in LengthForms(Size(s)), end \in {<<>>, <<INTEGER, 1>>} :
         LET bytes == <<SEQUENCE>> \o whole
                      \o <<INTEGER>> \o rForm \o Padded(r, pad)
                      \o <<INTEGER>> \o sForm \o Bytes(s, Size(s))
         IN  encoded' = [of |-> "signature", r |-> r, s |-> s, end |-> Len(bytes), bytes |-> bytes \o end]
  /\ UNCHANGED pair

(* GetPrivKey passes flags of secp256k1 of which none is 0, so it writes    *)
(* the short form; the long one is that of keys others have written.        *)
WriteKey ==
  /\ encoded = NoBytes /\ pair = NoPair
  /\ \E number \in KeyNumber, compressed \in {0, 1} :
       encoded' = [of |-> "key", number |-> number,
                   end |-> Len(ExportDer(number, compressed)), bytes |-> ExportDer(number, compressed)]
  /\ UNCHANGED pair

(* One side of a pair may derive alone what the other side can follow: the  *)
(* public half of a hardened child comes from its private half.             *)
MakeNewKey ==
  /\ encoded = NoBytes /\ pair = NoPair
  /\ \E number \in KeyNumber :
       LET key == [valid |-> TRUE, compressed |-> TRUE, number |-> number]
       IN  pair' = [depth |-> 1, private |-> [key |-> key, cc |-> 0],
                    public |-> [key |-> GetPubKey(key), cc |-> 0]]
  /\ UNCHANGED encoded

Derive ==
  /\ pair.depth \in 1 .. MaxDepth /\ pair.private.key.valid
  /\ \E index \in Index :
       LET child == DeriveKey(pair.private.key, pair.private.cc, index)
       IN  pair' = [depth |-> pair.depth + 1, private |-> child,
                    public |-> IF ~index.hardened
                               THEN DerivePubKey(pair.public.key, pair.public.cc, index)
                               ELSE [key |-> IF child.key.valid THEN GetPubKey(child.key) ELSE NoPubKey,
                                     cc |-> child.cc]]
  /\ UNCHANGED encoded

KeysInit == encoded = NoBytes /\ pair = NoPair
KeysNext == WriteSignature \/ WriteKey \/ MakeNewKey \/ Derive

KeysSpec == KeysInit /\ [][KeysNext]_keysVars

-----------------------------------------------------------------------------
(* Properties.                                                              *)
Cut(bytes, n) == SubSeq(bytes, 1, n)

(* The lax parser finds the numbers of a signature in every form it was     *)
(* ever written in, takes numbers that are too large for a signature that   *)
(* is good for nothing, and refuses one that was cut anywhere               *)
(* (pubkey.cpp:22-161).                                                     *)
SignatureIsRead ==
  encoded.of = "signature" =>
    /\ ParseDerLax(encoded.bytes) = IF encoded.r < Order /\ encoded.s < Order
                                    THEN Signature(encoded.r, encoded.s) ELSE Signature(0, 0)
    /\ \A n \in 0 .. encoded.end - 1 : ParseDerLax(Cut(encoded.bytes, n)) = Unparsable

(* A private key that was written is read as the same key into whatever     *)
(* object, and is accepted with its own public key alone; cut anywhere it   *)
(* leaves that object without its old bytes (key.cpp:12-113, 129-219).      *)
KeyIsRead ==
  encoded.of = "key" =>
    \A key \in {NoKey, [valid |-> TRUE, compressed |-> FALSE, number |-> 1]} :
      /\ SetPrivKey(key, encoded.bytes, TRUE) = [valid |-> TRUE, compressed |-> TRUE, number |-> encoded.number]
      /\ \A number \in KeyNumber, compressed \in BOOLEAN :
           LoadKey(key, encoded.bytes, GetPubKey([NoKey EXCEPT !.number = number, !.compressed = compressed])).ok
             <=> number = encoded.number
      /\ \A n \in 0 .. encoded.end - 1 : SetPrivKey(key, Cut(encoded.bytes, n), TRUE) = [key EXCEPT !.number = 0]

(* What one side writes in the form of OpenSSL the other reads as it was    *)
(* meant, or not at all.                                                    *)
DerIsReadWhole == SignatureIsRead /\ KeyIsRead

(* Whoever derives children with the public key alone, as far as indices    *)
(* allow, has the public keys and chain codes of the private children, and  *)
(* fails where they fail (key.cpp:221-241, pubkey.cpp:226-245).             *)
DerivedPairsMatch ==
  pair # NoPair =>
    /\ pair.private.cc = pair.public.cc
    /\ pair.private.key.valid <=> IsValidPubKey(pair.public.key)
    /\ pair.private.key.valid => pair.public.key = GetPubKey(pair.private.key) /\ IsCompressed(pair.public.key)
=============================================================================
