------------------------------ MODULE Messages ------------------------------
(***************************************************************************)
(* Signed messages (keys/src/hs_keys.cpp, SignMessage, VerifyMessage and   *)
(* walletAddrFromPubKey; the compact signatures of key.cpp and pubkey.cpp):*)
(* a private key in text signs under the parameters of one helper, the     *)
(* signature goes as base64 to somebody else, who holds it against an      *)
(* address.                                                                *)
(***************************************************************************)
EXTENDS AddressText, Keys, Base64

CONSTANT Hash160(_)     (* of a public key                                  *)

SignerNumbers == {Number(secret.key, Radix) : secret \in Secret}

(* Private keys that are written are keys, and hashes do not collide.       *)
ASSUME MessagesAssumption ==
  /\ SignerNumbers \subseteq KeyNumber
  /\ IsInjective([pubkey \in {NoPubKey} \cup
       {[header |-> Header(n, compressed), number |-> n] :
          n \in {0} \cup SignerNumbers, compressed \in BOOLEAN} |-> Hash160(pubkey)])

VARIABLE signed     (* a message, who signed it, and the text of it         *)

messagesVars == <<fileVars, textVars, keysVars, signed>>
NotSigned == [text |-> <<>>]

-----------------------------------------------------------------------------
(* CBitcoinSecret::GetKey and CKey::Set: a number that is no key is refused.*)
KeyOf(secret) ==
  LET number == Number(secret.key, Radix)
  IN  IF IsKey(number) THEN [valid |-> TRUE, compressed |-> secret.compressed, number |-> number]
      ELSE NoKey

SignatureSize == 2 * NumberSize + 1

(* Variant: the first byte does not tell the form of the public key.        *)
SignCompact_NoForm(key, message) ==
  LET sig == SignatureOf(key.number, message)
  IN  IF ~key.valid THEN <<>>
      ELSE <<27 + sig.rec>> \o Bytes(sig.r, NumberSize) \o Bytes(sig.s, NumberSize)

SignCompact(key, message) ==
  LET sig == SignatureOf(key.number, message)
  IN  IF ~key.valid THEN <<>>
      ELSE <<27 + sig.rec + IF key.compressed THEN 4 ELSE 0>>
           \o Bytes(sig.r, NumberSize) \o Bytes(sig.s, NumberSize)

(* The key whose signature of the message this is, as it was made or with  *)
(* Order - s; any other numbers give the key of nobody, 0.                  *)
SignsAs(number, r, s, rec, message) ==
  LET sig == SignatureOf(number, message)
  IN  r = sig.r /\ \/ s = sig.s /\ rec = sig.rec
                   \/ s = Order - sig.s /\ rec # sig.rec /\ rec \div 2 = sig.rec \div 2

Recover(r, s, rec, message) ==
  LET keys == {number \in SignerNumbers : SignsAs(number, r, s, rec, message)}
  IN  IF keys = {} THEN 0 ELSE Min(keys)

(* Also (vchSig[0] - 27) & 3 of a first byte below 27 is the remainder.     *)
RecoverCompact(bytes, message) ==
  LET first == bytes[1] - 27
      compressed == (first \div 4) % 2 = 1
      r == BigEndian(SubSeq(bytes, 2, NumberSize + 1))
      s == BigEndian(SubSeq(bytes, NumberSize + 2, SignatureSize))
      number == Recover(r, s, first % 4, message)
  IN  IF Len(bytes) # SignatureSize \/ r >= Order \/ s >= Order THEN NoPubKey
      ELSE SetPubKey(Header(number, compressed), IF compressed THEN 33 ELSE 65, number)

-----------------------------------------------------------------------------
(* An address is answered with a sentence; what is neither an address nor a *)
(* key is noted on the console, and the text of no bytes returned.          *)
Sentence == <<34, 45, Other>>    (* it is insert ... *)

SignMessage(string, message, chain) ==
  LET secret == ReadSecret(string, chain)
      key == IF IsValidSecret(secret, chain) THEN KeyOf(GetKey(secret)) ELSE NoKey
  IN  IF IsValidAddress(ReadAddress(string, chain), chain) THEN Sentence
      ELSE EncodeBase64(SignCompact(key, message))

(* An invalid public key has the hash of no bytes.                          *)
GetID(pubkey) == Hash160(pubkey)

VerifyUnder(address, text64, message) ==
  LET decoded == DecodeBase64(text64)
      pubkey == RecoverCompact(decoded.bytes, message)
  IN  /\ address.kind = "key"
      /\ ~decoded.invalid
      /\ IsValidPubKey(pubkey) /\ GetID(pubkey) = address.data

VerifyMessage(string, text64, message, chain) ==
  VerifyUnder(Get(ReadAddress(string, chain), chain), text64, message)

(* The hexadecimal text of a public key has its first byte and its size.    *)
WalletAddrFromPubKey(header, size, number, chain) ==
  Base58String(chain.pub, GetID(SetPubKey(header, size, number)), chain.check)

-----------------------------------------------------------------------------
(* Whoever has the text signs with it, damaged or not.                      *)
Sign ==
  /\ Usable /\ made # Nothing /\ signed = NotSigned
  /\ ChainOf \in Chain
  /\ \E message \in Message :
       signed' = [message |-> message, by |-> text, intact |-> TRUE,
                  text |-> SignMessage(text, message, ChainOf)]
  /\ UNCHANGED <<fileVars, textVars, keysVars>>

(* The signature is copied with one character wrong, lost or doubled.       *)
Wrong(char) == {(char + 1) % 64, (char + 63) % 64, Fill, Other}

CopySignature ==
  /\ signed # NotSigned /\ signed.intact /\ Intact
  /\ \E i \in DOMAIN signed.text :
       \E copy \in {ReplaceAt(signed.text, i, char) : char \in Wrong(signed.text[i])}
                   \cup {RemoveAt(signed.text, i), InsertAt(signed.text, i, signed.text[i])} :
         signed' = [signed EXCEPT !.text = copy, !.intact = FALSE]
  /\ UNCHANGED <<fileVars, textVars, keysVars>>

MessagesInit == AddressInit /\ KeysInit /\ signed = NotSigned

(* Bound: keys, which need no parameters, are written and derived where no  *)
(* file could be read.                                                      *)
MessagesNext ==
  \/ signed = NotSigned /\ AddressNext /\ UNCHANGED <<keysVars, signed>>
  \/ helper = [key \in Key |-> NoValue] /\ KeysNext /\ UNCHANGED <<fileVars, textVars, signed>>
  \/ Sign
  \/ CopySignature

MessagesSpec == MessagesInit /\ [][MessagesNext]_messagesVars

-----------------------------------------------------------------------------
(* Properties.                                                              *)
SignerKey == KeyOf([key |-> SubSeq(made.data, 1, KeySize), compressed |-> Len(made.data) > KeySize])

(* The public key of the signer in either form.                             *)
FormOf(compressed) == GetPubKey([SignerKey EXCEPT !.compressed = compressed])

(* A text that is decoded without complaint begins with the one text its    *)
(* bytes have (base64.cpp).                                                 *)
OneTextForBytes ==
  LET decoded == DecodeBase64(signed.text)
  IN  decoded.invalid \/ IsPrefix(EncodeBase64(decoded.bytes), signed.text)

(* What the address of a public key is good for: the text of the key gives  *)
(* the one that verifies, any text of another size gives none that does.    *)
VerifiesFor(header, size) ==
  VerifyMessage(WalletAddrFromPubKey(header, size, SignerKey.number, made.chain),
                signed.text, signed.message, made.chain)

CompleteForTheSigner ==
  signed.intact => \A size \in {0, 32, 33, 64, 65, 66} :
    VerifiesFor(FormOf(SignerKey.compressed).header, size)
      <=> size = GetLen(FormOf(SignerKey.compressed).header)

(* However the text of a signature came about: if it verifies a message     *)
(* under an address, the message is the signed one and the address that of  *)
(* the signer's key in one of its forms.                                    *)
OnlyTheSigner ==
  \A kind \in {"key", "script"}, pubkey \in {NoPubKey, FormOf(TRUE), FormOf(FALSE)}, message \in Message :
    VerifyUnder([kind |-> kind, data |-> GetID(pubkey)], signed.text, message) =>
      message = signed.message /\ kind = "key" /\ pubkey # NoPubKey

(* An undamaged private key makes signatures that verify under its address, *)
(* nobody else's and for no other message, and its check of itself does not *)
(* fail; an address makes none (hs_keys.cpp:371-492, key.cpp:180-207,       *)
(* pubkey.cpp:163-202, base64.cpp).                                         *)
MessageIsTheSigners ==
  signed # NotSigned /\ Kinds(made.chain) =>
    /\ OneTextForBytes
    /\ Intact /\ made.kind = "secret" =>
         CompleteForTheSigner /\ OnlyTheSigner /\ VerifyPubKey(SignerKey, GetPubKey(SignerKey))
    /\ Intact /\ made.kind # "secret" => DecodeBase64(signed.text).bytes = <<>> \/ DecodeBase64(signed.text).invalid
=============================================================================
