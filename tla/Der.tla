-------------------------------- MODULE Der --------------------------------
(***************************************************************************)
(* Signatures and private keys in the encoding of OpenSSL: the lax parser  *)
(* of signatures (keys/src/pubkey.cpp, ecdsa_signature_parse_der_lax), and *)
(* writing and reading of private keys (keys/src/key.cpp,                  *)
(* ec_privkey_export_der, ec_privkey_import_der).                          *)
(*                                                                         *)
(* Bytes are below 256; numbers have NumberSize bytes, 32 in the code.     *)
(***************************************************************************)
EXTENDS Integers, SequencesExt

CONSTANTS
  NumberSize,     (* the bytes of a private key, of r and of s              *)
  Order,          (* of the group: keys, r and s are below it               *)
  SizeOfSize,     (* sizeof(size_t)                                         *)
  ShortTail,      (* the bytes behind the key: the curve and a compressed   *)
  LongTail        (*   or a whole public key                                *)

(* Powers of 256; ^ has no axioms in the proof system.                      *)
Power[n \in Nat] == IF n = 0 THEN 1 ELSE 256 * Power[n - 1]

ASSUME DerAssumption ==
  /\ {NumberSize, Order, SizeOfSize, ShortTail, LongTail} \subseteq Nat \ {0}
  /\ 1 < Order /\ Order < Power[NumberSize] /\ 1 < SizeOfSize

(* A signature has less than 128 bytes; the sizes of keys are of one byte   *)
(* in a long form and of two.                                               *)
ASSUME SizesAssumption ==
  /\ NumberSize < 61
  /\ NumberSize + 5 + ShortTail >= 128 /\ NumberSize + 5 + ShortTail < 256
  /\ NumberSize + 5 + LongTail >= 256 /\ NumberSize + 5 + LongTail < 65536

High == 128       (* 0x80                                                   *)
SEQUENCE == 48    (* 0x30                                                   *)
INTEGER == 2
OCTETS == 4

BigEndian(bytes) ==
  LET value[i \in 0 .. Len(bytes)] == IF i = 0 THEN 0 ELSE value[i - 1] * 256 + bytes[i]
  IN  value[Len(bytes)]

Stripped(bytes) ==
  LET solid == {i \in DOMAIN bytes : bytes[i] # 0}
  IN  IF solid = {} THEN <<>> ELSE SubSeq(bytes, Min(solid), Len(bytes))

-----------------------------------------------------------------------------
(* The lax parser.  It goes from place to place and stops at the first one  *)
(* where it does not find what it looks for.                                *)
Cursor(pos, ok) == [pos |-> pos, ok |-> ok]

Tag(bytes, c, tag) ==
  IF c.ok /\ c.pos < Len(bytes) /\ bytes[c.pos + 1] = tag
  THEN Cursor(c.pos + 1, TRUE) ELSE Cursor(c.pos, FALSE)

(* Variant: of a long form only the first byte is skipped.                  *)
SkipLength_Short(bytes, c) == Cursor(c.pos + 1, c.ok /\ c.pos < Len(bytes))

(* The size of the whole is passed by and not used.                         *)
SkipLength(bytes, c) ==
  LET first == c.pos + 1
      more == IF bytes[first] < High THEN 0 ELSE bytes[first] - High
  IN  IF c.ok /\ c.pos < Len(bytes)
      THEN Cursor(first + more, first + more <= Len(bytes)) ELSE Cursor(c.pos, FALSE)

(* A size of one byte, or in as many as the first one says; zeros in front  *)
(* do not count.                                                            *)
Sized(pos, size, ok) == [pos |-> pos, size |-> size, ok |-> ok]

LongSize(digits, pos) ==
  IF Len(digits) < SizeOfSize THEN Sized(pos, BigEndian(digits), TRUE) ELSE Sized(pos, 0, FALSE)

ReadLong(bytes, pos, n) ==
  IF pos + n <= Len(bytes)
  THEN LongSize(Stripped(SubSeq(bytes, pos + 1, pos + n)), pos + n) ELSE Sized(pos, 0, FALSE)

ReadLength(bytes, c) ==
  IF ~c.ok \/ c.pos = Len(bytes) THEN Sized(c.pos, 0, FALSE)
  ELSE IF bytes[c.pos + 1] < High THEN Sized(c.pos + 1, bytes[c.pos + 1], TRUE)
  ELSE ReadLong(bytes, c.pos + 1, bytes[c.pos + 1] - High)

Content(bytes, length) ==
  IF length.ok /\ length.size <= Len(bytes) - length.pos
  THEN [pos |-> length.pos + length.size, ok |-> TRUE,
        digits |-> Stripped(SubSeq(bytes, length.pos + 1, length.pos + length.size))]
  ELSE [pos |-> length.pos, ok |-> FALSE, digits |-> <<>>]

ReadInteger(bytes, c) == Content(bytes, ReadLength(bytes, Tag(bytes, c, INTEGER)))

(* A signature of zeros is good for nothing; it stands for numbers that are *)
(* too large.                                                               *)
Signature(r, s) == [r |-> r, s |-> s]
Unparsable == Signature(Order, Order)   (* no numbers of a signature        *)

InRange(digits) == Len(digits) <= NumberSize /\ BigEndian(digits) < Order

Numbers(r, s) ==
  IF ~s.ok THEN Unparsable
  ELSE IF InRange(r.digits) /\ InRange(s.digits)
       THEN Signature(BigEndian(r.digits), BigEndian(s.digits)) ELSE Signature(0, 0)

AfterR(bytes, r) == Numbers(r, ReadInteger(bytes, r))

ParseDerLax(bytes) ==
  AfterR(bytes, ReadInteger(bytes, SkipLength(bytes, Tag(bytes, Cursor(0, TRUE), SEQUENCE))))

-----------------------------------------------------------------------------
(* Private keys.  0 stands for the bytes of no key.                         *)
Bytes(n, size) == [i \in 1 .. size |-> (n \div Power[size - i]) % 256]
IsKey(number) == number \in 1 .. Order - 1

ExportDer(number, compressed) ==
  LET tail == IF compressed # 0 THEN ShortTail ELSE LongTail
      content == <<INTEGER, 1, 1, OCTETS, NumberSize>> \o Bytes(number, NumberSize)
                 \o [i \in 1 .. tail |-> 1]
      lengthSize == IF compressed # 0 THEN 1 ELSE 2
  IN  <<SEQUENCE, High + lengthSize>> \o Bytes(Len(content), lengthSize) \o content

(* From the place behind the size of the sequence.                          *)
ImportContent(bytes, start, size) ==
  IF /\ start + size <= Len(bytes)
     /\ start + 5 <= Len(bytes)
     /\ SubSeq(bytes, start + 1, start + 4) = <<INTEGER, 1, 1, OCTETS>>
     /\ bytes[start + 5] <= NumberSize /\ start + 5 + bytes[start + 5] <= Len(bytes)
     /\ IsKey(BigEndian(SubSeq(bytes, start + 6, start + 5 + bytes[start + 5])))
  THEN BigEndian(SubSeq(bytes, start + 6, start + 5 + bytes[start + 5])) ELSE 0

ImportDer(bytes) ==
  LET lengthSize == bytes[2] - High
  IN  IF /\ Len(bytes) >= 2 /\ bytes[1] = SEQUENCE
         /\ lengthSize \in {1, 2} /\ Len(bytes) >= 2 + lengthSize
      THEN ImportContent(bytes, 2 + lengthSize, BigEndian(SubSeq(bytes, 3, 2 + lengthSize)))
      ELSE 0
=============================================================================
