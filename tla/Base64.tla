------------------------------- MODULE Base64 -------------------------------
(***************************************************************************)
(* Bytes as text and back (utils/src/base64.cpp): the signature of a       *)
(* message is given away in this form.  A character is the value of a      *)
(* digit, the sign that fills up, or any other.                            *)
(***************************************************************************)
EXTENDS Integers, Sequences

Fill == 64    (* '='                                                        *)
Other == 65   (* no digit; also what follows the end of a text              *)

(* The bits of a byte go to two digits, those of a digit to two bytes.      *)
EncodeBase64(bytes) ==
  LET n == Len(bytes)
      Byte(i) == IF i <= n THEN bytes[i] ELSE 0
      Digit(k) ==
        LET i == 3 * (k \div 4)
        IN  CASE k % 4 = 0 -> Byte(i + 1) \div 4
              [] k % 4 = 1 -> (Byte(i + 1) % 4) * 16 + Byte(i + 2) \div 16
              [] k % 4 = 2 -> (Byte(i + 2) % 16) * 4 + Byte(i + 3) \div 64
              [] k % 4 = 3 -> Byte(i + 3) % 64
  IN  [k \in 1 .. (8 * n + 5) \div 6 |-> Digit(k - 1)] \o [i \in 1 .. (3 - (n % 3)) % 3 |-> Fill]

Char(text, i) == IF i <= Len(text) THEN text[i] ELSE Other

(* The digits up to the first other character.                              *)
DigitsBefore(text) ==
  CHOOSE n \in 0 .. Len(text) : Char(text, n + 1) > 63 /\ \A i \in 1 .. n : text[i] <= 63

(* What must follow n digits.  After whole groups anything may.             *)
EndsWell(text, n) ==
  CASE n % 4 = 0 -> TRUE
    [] n % 4 = 1 -> FALSE
    [] n % 4 = 2 -> /\ text[n] % 16 = 0
                    /\ Char(text, n + 1) = Fill /\ Char(text, n + 2) = Fill /\ Char(text, n + 3) > 63
    [] n % 4 = 3 -> /\ text[n] % 4 = 0
                    /\ Char(text, n + 1) = Fill /\ Char(text, n + 2) > 63

Decoded(text, n) ==
  [invalid |-> ~EndsWell(text, n),
   bytes |->
     [k \in 1 .. (6 * n) \div 8 |->
        LET i == 4 * ((k - 1) \div 3)
        IN  CASE k % 3 = 1 -> text[i + 1] * 4 + text[i + 2] \div 16
              [] k % 3 = 2 -> (text[i + 2] % 16) * 16 + text[i + 3] \div 4
              [] k % 3 = 0 -> (text[i + 3] % 4) * 64 + text[i + 4]]]

DecodeBase64(text) == Decoded(text, DigitsBefore(text))
=============================================================================
