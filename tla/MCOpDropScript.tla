--------------------------- MODULE MCOpDropScript ---------------------------
EXTENDS OpDropScript

Op(op, number, data) == [op |-> op, number |-> number, data |-> data]

(* What is inside pushed data: a key or a signature is one opaque piece.    *)
KeyA == Op("push", 0, <<Op("other", 0, <<>>)>>)
KeyB == Op("push", 0, <<Op("other", 1, <<>>)>>)
(* 1 KeyA KeyB CHECKMULTISIG, and 2 of the same.                            *)
Redeem(n) == Op("push", 0, <<Op("small", n, <<>>), KeyA, KeyB, Op("other", 0, <<>>)>>)

(* A negative size leads to its own push or to the operation two before it. *)
MCOperation ==
  {KeyA, Redeem(1), Redeem(2), Op("push", 0, <<>>), Op("small", 1, <<>>),
   Op("drop", 0, <<>>), Op("return", 0, <<>>), Op("other", 0, <<>>), Op("cut", 0, <<>>),
   Op("back", 0, <<>>), Op("back", 2, <<>>)}
=============================================================================
