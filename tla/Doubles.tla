------------------------------ MODULE Doubles ------------------------------
(***************************************************************************)
(* The arithmetic of doubles that createAssetSendTx does on quantities:    *)
(* every result is the representable number nearest to the exact one, ties *)
(* to the even one.  A number is an integer in units of 2^-Scale, fine     *)
(* enough for every value that occurs.                                     *)
(***************************************************************************)
EXTENDS Integers

CONSTANTS
  Precision,    (* significant bits: 53                                     *)
  Scale         (* bits after the point of the numbers below                *)

ASSUME DoublesAssumption == Precision \in Nat \ {0} /\ Scale \in Nat

One == 2 ^ Scale

(* The distance of the representable numbers around x.                      *)
Ulp(x) ==
  LET enough == {i \in 0 .. Scale : x \div 2 ^ Precision < 2 ^ i}
  IN  2 ^ (CHOOSE i \in enough : \A j \in enough : i <= j)

(* The representable number nearest to a / b.                               *)
Nearest(a, b) ==
  LET step == Ulp(a \div b) * b
      down == a \div step
      left == a % step
      up   == 2 * left > step \/ (2 * left = step /\ down % 2 = 1)
  IN  Ulp(a \div b) * (IF up THEN down + 1 ELSE down)

Decimal(n, d) == Nearest(n * One, d)
Times(x, n) == Nearest(x * n, 1)
Plus(x, y) == Nearest(x + y, 1)
Minus(x, y) == IF x >= y THEN Nearest(x - y, 1) ELSE -Nearest(y - x, 1)

(* The conversion to int64_t cuts toward zero.                              *)
Trunc(x) == IF x >= 0 THEN x \div One ELSE -((-x) \div One)
=============================================================================
