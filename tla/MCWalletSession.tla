-------------------------- MODULE MCWalletSession --------------------------
EXTENDS WalletSession

O(id, address, assets) == [id |-> id, address |-> address, assets |-> assets]
A(name, qty) == [name |-> name, qty |-> qty]

(* One session does both, or two pay.                                       *)
MCPlans == {[s1 |-> {"publish", "pay"}, s2 |-> {}], [s1 |-> {"pay"}, s2 |-> {"pay"}]}

(* An output of another address, one that holds nothing, and two with       *)
(* the asset: alone, and after another one.                                 *)
MCOutput ==
  {O("foreign", "other", <<A("gold", 5)>>), O("plain", "mine", <<>>),
    O("mixed", "mine", <<A("tin", 9), A("gold", 2)>>), O("pure", "mine", <<A("gold", 7)>>)}
=============================================================================
